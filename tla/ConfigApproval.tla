--------------------------- MODULE ConfigApproval ---------------------------
(***************************************************************************)
(* How the platform's settings are changed: directly, or, for the settings *)
(* that guard safety while two-person approval is on, by a change request  *)
(* that another administrator approves and that is then applied.           *)
(*                                                                         *)
(*   platform/admin/governed-config.ts   who may change which setting      *)
(*   platform/admin/config-handlers.ts   the tools update_config,          *)
(*                                       request_approval, approve, reject *)
(*   platform/admin/config-approval.ts   the change requests               *)
(*   platform/auth/platform-config.ts    values, history, the cache        *)
(*   app/api/admin/{config,config-ai/execute,approvals}                    *)
(*                                                                         *)
(* A request is a chain of store accesses; other requests, other servers   *)
(* and a crash come between any two of them.  An update of a key under     *)
(* dual control is held before its first write (HeldActions has its life)  *)
(* and so never gets as far as this module.                                *)
(***************************************************************************)
EXTENDS Integers, Sequences, FiniteSets

CONSTANTS
  Keys,      \* settings
  Flag,      \* config.require_two_person_approval
  Safety,    \* the keys of the safety tier
  Dual,      \* ALWAYS_DUAL_CONTROLLED and config.dual_control_keys
  Values,
  Off,       \* false, as the value of Flag
  Accepts,   \* Accepts[k]: the values that fit key k's type, bounds and allowed values
  Admins,
  Tiers,     \* Tiers[a]: the tiers whose keys administrator a may change
  Servers,   \* processes, each with a cache of its own
  Requests,  \* concurrent requests
  None,      \* nobody, nothing cached
  Faults,    \* what may fail: see Fault
  MaxCalls,  \* BOUND: requests made in all
  MaxRows    \* BOUND: change requests

\* crash: a request dies between two accesses; lost: a write lands and its
\* answer does not come back; the others are accesses that fail.
Fault == {"crash", "lost", "read", "audit", "write", "reopen"}

ASSUME ConfigAssumption ==
  /\ Flag \in Keys /\ Flag \in Dual
  /\ Safety \subseteq Keys /\ Dual \subseteq Keys
  /\ Off \in Accepts[Flag]
  /\ Accepts \in [Keys -> SUBSET Values] /\ \A k \in Keys : Accepts[k] # {}
  /\ Tiers \in [Admins -> SUBSET {"standard", "safety"}]
  /\ None \notin Admins \cup Values
  /\ Faults \subseteq Fault
  /\ MaxCalls \in Nat /\ MaxRows \in Nat

VARIABLES
  value,      \* platform_config
  rows,       \* config_pending_approvals, by id
  log,        \* the audit records of decisions and changes
  history,    \* platform_config_history
  cache,      \* cache[s]: what server s has cached of Flag
  req,        \* the requests in progress and what each has read
  calls,      \* requests made so far
  applied,    \* the writes made to the values (history variable)
  forgotten   \* rows whose approver died, or could not reopen them (history variable)

vars == <<value, rows, log, history, cache, req, calls, applied, forgotten>>
notes == <<applied, forgotten>>

RowStatus == {"pending", "approved", "rejected", "expired"}
Kind == {"update", "preview", "propose", "approve", "reject"}
PC == {"idle", "entry", "flag", "filling", "looking", "inserting", "recording",
       "reviewing", "expiring", "settling", "auditing", "writing", "invalidating",
       "noting", "reopening"}
\* Where a request that approves stands once its row is approved.
Applying == {"entry", "auditing", "writing", "invalidating", "noting", "reopening"}

Row == [key : Keys, value : Values, by : Admins, status : RowStatus,
        reviewer : Admins \cup {None}, lapsed : BOOLEAN]
Request == [at : PC, kind : Kind, by : Admins \cup {None}, server : Servers,
            key : Keys, value : Values, row : 0..MaxRows, seen : Values]
Write == [row : 0..MaxRows, key : Keys, value : Values, by : Admins]
\* The records written before the act.  The follow-up of one that failed is best
\* effort and nothing reads it: left out.
Record == [about : {"decision", "change"}, row : 0..MaxRows, key : Keys,
           value : Values, by : Admins]

Tier(k) == IF k \in Safety THEN "safety" ELSE "standard"
MayChange(a, k) == Tier(k) \in Tiers[a]

Init ==
  /\ value \in {given \in [Keys -> Values] : \A k \in Keys : given[k] \in Accepts[k]}
  /\ rows = <<>>
  /\ log = {}
  /\ history = <<>>
  /\ cache = [s \in Servers |-> None]
  /\ req \in [Requests ->
       {[at |-> "idle", kind |-> "update", by |-> None, server |-> s, key |-> Flag,
         value |-> Off, row |-> 0, seen |-> Off] : s \in Servers}]
  /\ calls = 0
  /\ applied = {}
  /\ forgotten = {}

Goto(q, at) == req' = [req EXCEPT ![q].at = at]

\* The answer is sent: nothing of the request is left.
Done(q) ==
  req' = [req EXCEPT ![q] = [@ EXCEPT !.at = "idle", !.kind = "update", !.by = None,
                                      !.key = Flag, !.value = Off, !.row = 0, !.seen = Off]]

-----------------------------------------------------------------------------
(* A request arrives *)

Begin(q, kind, a, k, v, i, at) ==
  /\ req[q].at = "idle"
  /\ calls < MaxCalls
  /\ calls' = calls + 1
  /\ MayChange(a, k)
  /\ req' = [req EXCEPT ![q] = [@ EXCEPT !.at = at, !.kind = kind, !.by = a, !.key = k,
                                         !.value = v, !.row = i]]
  /\ UNCHANGED <<value, rows, log, history, cache, notes>>

\* A list of keys that cannot be read holds every key, which ends the request too.
DualControlled(k) == k \in Dual

\* The settings page: always confirmed, held when the key is under dual control.
BeginUpdate(q, a, k, v) ==
  ~DualControlled(k) /\ Begin(q, "update", a, k, v, 0, "entry")

\* The tool update_config, confirmed or a preview; and request_approval, which
\* dual control does not hold.
BeginTool(q, kind, a, k, v) ==
  /\ kind \in {"update", "preview"} => ~DualControlled(k)
  /\ Begin(q, kind, a, k, v, 0, "entry")

\* POST /api/admin/approvals/[id] checks that the decider is not the requester
\* and records the decision; the tools approve_change and reject_change leave
\* the first to reviewChange and do not do the second.
BeginDecision(q, kind, a, i) ==
  /\ kind = "approve" => a # rows[i].by
  /\ Begin(q, kind, a, rows[i].key, rows[i].value, i, "recording")

BeginReviewTool(q, kind, a, i) ==
  Begin(q, kind, a, rows[i].key, rows[i].value, i, "reviewing")

RecordDecision(q) ==
  /\ req[q].at = "recording"
  /\ \/ /\ log' = log \cup {[about |-> "decision", row |-> req[q].row, key |-> req[q].key,
                             value |-> req[q].value, by |-> req[q].by]}
        /\ Goto(q, "reviewing")
     \/ "audit" \in Faults /\ Done(q) /\ UNCHANGED log
  /\ UNCHANGED <<value, rows, history, cache, calls, notes>>

-----------------------------------------------------------------------------
(* update_config and request_approval *)

AfterEntry(q) ==
  CASE req[q].kind \in {"update", "preview"} /\ req[q].key \in Safety -> "flag"
    [] req[q].kind = "preview" /\ req[q].key \notin Safety -> "idle"
    [] req[q].kind = "propose" -> "looking"
    [] OTHER -> "auditing"

\* validateConfigValue, against the key's type, bounds and allowed values.
Valid(k, v) == v \in Accepts[k]

\* The setting was not found or does not take the value: a request for a change
\* ends, an approved change is not applied.
Refuse(q) == IF req[q].kind = "approve" THEN Goto(q, "reopening") ELSE Done(q)

\* getEnhancedConfig: the setting and its present value; unreadable, it is not found.
LoadEntry(q) ==
  /\ req[q].at = "entry"
  /\ \/ /\ Valid(req[q].key, req[q].value)
        /\ IF AfterEntry(q) = "idle" THEN Done(q)
           ELSE req' = [req EXCEPT ![q].at = AfterEntry(q), ![q].seen = value[req[q].key]]
     \/ (~Valid(req[q].key, req[q].value) \/ "read" \in Faults) /\ Refuse(q)
  /\ UNCHANGED <<value, rows, log, history, cache, calls, notes>>

\* A preview ends here; a change is requested, or made.
Decide(q, needed) ==
  IF req[q].kind = "preview" THEN Done(q)
  ELSE Goto(q, IF needed THEN "looking" ELSE "auditing")

\* isApprovalRequired: the cached flag, or the stored one; required when it
\* cannot be read.
FlagCached(q) ==
  /\ req[q].at = "flag"
  /\ cache[req[q].server] # None
  /\ Decide(q, cache[req[q].server] # Off)
  /\ UNCHANGED <<value, rows, log, history, cache, calls, notes>>

FlagRead(q) ==
  /\ req[q].at = "flag"
  /\ cache[req[q].server] = None
  /\ \/ req' = [req EXCEPT ![q].at = "filling", ![q].seen = value[Flag]]
     \/ "read" \in Faults /\ Decide(q, TRUE)
  /\ UNCHANGED <<value, rows, log, history, cache, calls, notes>>

\* The flag's value has come back: it is cached for a minute, and acted upon.
FillCache(q) ==
  /\ req[q].at = "filling"
  /\ cache' = [cache EXCEPT ![req[q].server] = req[q].seen]
  /\ Decide(q, req[q].seen # Off)
  /\ UNCHANGED <<value, rows, log, history, calls, notes>>

ExpireCache(s) ==
  /\ cache[s] # None
  /\ cache' = [cache EXCEPT ![s] = None]
  /\ UNCHANGED <<value, rows, log, history, req, calls, notes>>

\* requestApproval: one pending request for a key.  A failed look-up counts as none.
LookForPending(q) ==
  /\ req[q].at = "looking"
  /\ \/ IF \E i \in DOMAIN rows : rows[i].key = req[q].key /\ rows[i].status = "pending"
        THEN Done(q) ELSE Goto(q, "inserting")
     \/ "read" \in Faults /\ Goto(q, "inserting")
  /\ UNCHANGED <<value, rows, log, history, cache, calls, notes>>

InsertRow(q) ==
  /\ req[q].at = "inserting"
  /\ \/ /\ Len(rows) < MaxRows
        /\ rows' = Append(rows, [key |-> req[q].key, value |-> req[q].value, by |-> req[q].by,
                                 status |-> "pending", reviewer |-> None, lapsed |-> FALSE])
     \/ ("write" \in Faults \/ Len(rows) = MaxRows) /\ UNCHANGED rows
  /\ Done(q)
  /\ UNCHANGED <<value, log, history, cache, calls, notes>>

-----------------------------------------------------------------------------
(* reviewChange *)

\* Mutant: the tool lets a requester approve.
AnyoneMay(q) == TRUE

MayDecide(q) == req[q].kind = "approve" => rows[req[q].row].by # req[q].by

ReviewRead(q) ==
  LET row == rows[req[q].row] IN
  /\ req[q].at = "reviewing"
  /\ CASE row.status # "pending" -> Done(q)
       [] row.status = "pending" /\ row.lapsed -> Goto(q, "expiring")
       [] row.status = "pending" /\ ~row.lapsed ->
            IF MayDecide(q) THEN Goto(q, "settling") ELSE Done(q)
  /\ UNCHANGED <<value, rows, log, history, cache, calls, notes>>

\* The row is marked expired whatever has become of it since it was read.
MarkExpired(q) ==
  /\ req[q].at = "expiring"
  /\ rows' = [rows EXCEPT ![req[q].row].status = "expired"]
  /\ Done(q)
  /\ UNCHANGED <<value, log, history, cache, calls, notes>>

Verdict(q) == IF req[q].kind = "approve" THEN "approved" ELSE "rejected"

\* Mutant: the update of a reviewed row is not conditional on its status.
Unconditionally(i) == TRUE

StillPending(i) == rows[i].status = "pending"

\* The conditional update.  Without its answer the reviewer is told of a
\* failure, and an approval is not applied.
SettleRow(q) ==
  LET i == req[q].row IN
  /\ req[q].at = "settling"
  /\ \/ /\ StillPending(i)
        /\ rows' = [rows EXCEPT ![i].status = Verdict(q), ![i].reviewer = req[q].by]
        /\ \/ /\ IF req[q].kind = "approve" THEN Goto(q, "entry") ELSE Done(q)
              /\ UNCHANGED forgotten
           \/ /\ "lost" \in Faults
              /\ Done(q)
              /\ forgotten' = forgotten \cup {i}
     \/ ~StillPending(i) /\ Done(q) /\ UNCHANGED <<rows, forgotten>>
     \/ "write" \in Faults /\ Done(q) /\ UNCHANGED <<rows, forgotten>>
  /\ UNCHANGED <<value, log, history, cache, calls, applied>>

-----------------------------------------------------------------------------
(* setConfigWithHistory *)

\* What becomes of a request whose value was not written: an approval is reopened.
NotWritten(q) == IF req[q].kind = "approve" THEN Goto(q, "reopening") ELSE Done(q)

\* audited: no record, no change.
RecordChange(q) ==
  /\ req[q].at = "auditing"
  /\ \/ /\ log' = log \cup {[about |-> "change", row |-> 0, key |-> req[q].key,
                             value |-> req[q].value, by |-> req[q].by]}
        /\ Goto(q, "writing")
     \/ "audit" \in Faults /\ NotWritten(q) /\ UNCHANGED log
  /\ UNCHANGED <<value, rows, history, cache, calls, notes>>

WriteValue(q) ==
  /\ req[q].at = "writing"
  /\ \/ /\ value' = [value EXCEPT ![req[q].key] = req[q].value]
        /\ applied' = applied \cup {[row |-> req[q].row, key |-> req[q].key,
                                     value |-> req[q].value, by |-> req[q].by]}
        /\ \/ Goto(q, "invalidating")
           \/ "lost" \in Faults /\ NotWritten(q)
     \/ "write" \in Faults /\ NotWritten(q) /\ UNCHANGED <<value, applied>>
  /\ UNCHANGED <<rows, log, history, cache, calls, forgotten>>

\* The answer is there: this server forgets what it had cached of the key.
Invalidate(q) ==
  /\ req[q].at = "invalidating"
  /\ cache' = IF req[q].key = Flag THEN [cache EXCEPT ![req[q].server] = None] ELSE cache
  /\ Goto(q, "noting")
  /\ UNCHANGED <<value, rows, log, history, calls, notes>>

\* writeConfigHistory: what was read as the previous value, and the new one.
NoteHistory(q) ==
  /\ req[q].at = "noting"
  /\ \/ history' = Append(history, [key |-> req[q].key, previous |-> req[q].seen,
                                    new |-> req[q].value, by |-> req[q].by])
     \/ "write" \in Faults /\ UNCHANGED history
  /\ Done(q)
  /\ UNCHANGED <<value, rows, log, cache, calls, notes>>

\* Mutant: what could not be applied is not reopened.
LeaveRow(q) == UNCHANGED rows

ReopenRow(q) ==
  rows' = IF rows[req[q].row].status = "approved"
          THEN [rows EXCEPT ![req[q].row].status = "pending", ![req[q].row].reviewer = None]
          ELSE rows

Reopen(q) ==
  /\ req[q].at = "reopening"
  /\ \/ ReopenRow(q) /\ UNCHANGED forgotten
     \/ "reopen" \in Faults /\ forgotten' = forgotten \cup {req[q].row} /\ UNCHANGED rows
  /\ Done(q)
  /\ UNCHANGED <<value, log, history, cache, calls, applied>>

-----------------------------------------------------------------------------
(* Time and crashes *)

Lapse(i) ==
  /\ ~rows[i].lapsed
  /\ rows' = [rows EXCEPT ![i].lapsed = TRUE]
  /\ UNCHANGED <<value, log, history, cache, req, calls, notes>>

Crash(q) ==
  /\ "crash" \in Faults
  /\ req[q].at # "idle"
  /\ Done(q)
  /\ forgotten' = IF req[q].kind = "approve" /\ req[q].at \in Applying
                  THEN forgotten \cup {req[q].row} ELSE forgotten
  /\ UNCHANGED <<value, rows, log, history, cache, calls, applied>>

Arrive(q) ==
  \/ \E a \in Admins, k \in Keys, v \in Values :
       \/ BeginUpdate(q, a, k, v)
       \/ \E kind \in {"update", "preview", "propose"} : BeginTool(q, kind, a, k, v)
  \/ \E a \in Admins, i \in DOMAIN rows, kind \in {"approve", "reject"} :
       \/ BeginDecision(q, kind, a, i)
       \/ BeginReviewTool(q, kind, a, i)

Step(q) ==
  \/ RecordDecision(q) \/ LoadEntry(q) \/ FlagCached(q) \/ FlagRead(q) \/ FillCache(q)
  \/ LookForPending(q) \/ InsertRow(q)
  \/ ReviewRead(q) \/ MarkExpired(q) \/ SettleRow(q)
  \/ RecordChange(q) \/ WriteValue(q) \/ Invalidate(q) \/ NoteHistory(q) \/ Reopen(q)

Next ==
  \/ \E q \in Requests : Arrive(q) \/ Step(q) \/ Crash(q)
  \/ \E s \in Servers : ExpireCache(s)
  \/ \E i \in DOMAIN rows : Lapse(i)

Spec == Init /\ [][Next]_vars

-----------------------------------------------------------------------------
(* Properties *)

TypeOK ==
  /\ value \in [Keys -> Values]
  /\ rows \in Seq(Row) /\ Len(rows) <= MaxRows
  /\ log \subseteq Record
  /\ history \in Seq([key : Keys, previous : Values, new : Values, by : Admins])
  /\ cache \in [Servers -> Values \cup {None}]
  /\ req \in [Requests -> Request]
  /\ calls \in 0..MaxCalls
  /\ applied \subseteq Write
  /\ forgotten \subseteq DOMAIN rows

\* A request has approved its row and is about to apply it, or has just done so.
Approving(r) == r.kind = "approve" /\ r.at \in Applying
AppliesRow(q, i) == Approving(req[q]) /\ req[q].row = i

Recorded(k, v, a) ==
  \E r \in log : r.about = "change" /\ r.key = k /\ r.value = v /\ r.by = a

\* Which requests come by an access.
KindsInOrder(r) ==
  /\ r.at \in {"recording", "reviewing", "expiring", "settling"} => r.kind \in {"approve", "reject"}
  /\ r.at \in {"flag", "filling"} => r.kind \in {"update", "preview"}
  /\ r.at \in {"looking", "inserting"} => r.kind \in {"update", "propose"}
  /\ r.at \in {"auditing", "writing", "invalidating", "noting"} => r.kind \in {"update", "approve"}
  /\ r.at = "reopening" => r.kind = "approve"
  /\ r.at = "entry" => r.kind # "reject"

\* A decision is about what its row says, any other request about no row; a request past
\* its checks is its requester's to make, of a value that fits, and recorded before it
\* is written; an approval is not the proposer's, and its row is what it has made of it.
InOrder(r) ==
  /\ KindsInOrder(r)
  /\ r.at # "idle" => r.by \in Admins /\ MayChange(r.by, r.key)
  /\ IF r.kind \in {"approve", "reject"}
     THEN r.row \in DOMAIN rows /\ r.key = rows[r.row].key /\ r.value = rows[r.row].value
     ELSE r.row = 0
  /\ r.at \in {"flag", "filling", "looking", "inserting", "auditing", "writing"} =>
       Valid(r.key, r.value)
  /\ r.at = "writing" => Recorded(r.key, r.value, r.by)
  /\ r.kind = "approve" /\ r.at \in Applying \cup {"settling"} => rows[r.row].by # r.by
  /\ Approving(r) => rows[r.row].status \in {"approved", "expired"}
  /\ Approving(r) /\ r.at \in {"invalidating", "noting"} => \E w \in applied : w.row = r.row

RequestsInOrder == \A q \in Requests : InOrder(req[q])

\* A row is applied by one request at a time.
OneApplier ==
  \A p, q \in Requests :
    Approving(req[p]) /\ Approving(req[q]) /\ req[p].row = req[q].row => p = q

\* A setting and a change request have values that fit.
ValuesFit ==
  /\ \A k \in Keys : Valid(k, value[k])
  /\ \A i \in DOMAIN rows : Valid(rows[i].key, rows[i].value)

\* What has been written was recorded, and is what its writer might write: a key of his
\* tiers, and of a change request what somebody else has requested.
WritesInOrder ==
  \A w \in applied :
    /\ Recorded(w.key, w.value, w.by) /\ MayChange(w.by, w.key)
    /\ w.row # 0 => /\ w.row \in DOMAIN rows /\ w.by # rows[w.row].by
                    /\ w.key = rows[w.row].key /\ w.value = rows[w.row].value

IInv == TypeOK /\ ValuesFit /\ RequestsInOrder /\ OneApplier /\ WritesInOrder

\* A request that has yet to write, or could not, has not written: no row is applied
\* twice.  It takes that a write that lands is answered.
NotYetWritten ==
  \A q \in Requests :
    Approving(req[q]) /\ req[q].at \in {"entry", "auditing", "writing", "reopening"} =>
      \A w \in applied : w.row # req[q].row

\* What a change request puts in force was approved by somebody else than its
\* requester, who may change that key, and is exactly what was requested
\* (config-approval.ts, self-approval; governed-config.ts, tiers).
IndependentlyApproved ==
  \A w \in applied :
    /\ MayChange(w.by, w.key)
    /\ w.row # 0 => LET row == rows[w.row]
                    IN w.by # row.by /\ w.key = row.key /\ w.value = row.value

\* A request that is pending or rejected is not in force, nor about to be:
\* deciders that race, failed applications and their reopening included
\* (reviewChange, approveAndApply).
OutOfForce ==
  \A i \in DOMAIN rows :
    rows[i].status \in {"pending", "rejected"} =>
      /\ \A w \in applied : w.row # i
      /\ \A q \in Requests : ~AppliesRow(q, i)

\* "An approved change is never left unapplied": it is in force, or its approver
\* is at work on it, or died or failed at reopening it (approveAndApply).
ApprovedIsApplied ==
  \A i \in DOMAIN rows :
    rows[i].status = "approved" =>
      \/ \E w \in applied : w.row = i
      \/ \E q \in Requests : AppliesRow(q, i)
      \/ i \in forgotten
=============================================================================
