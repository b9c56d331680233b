------------------------------ MODULE UserData ------------------------------
(***************************************************************************)
(* What the platform keeps about one person, and how it goes: the profile, *)
(* age and consent services, the devices, the export, the two phases of    *)
(* deletion and the purge pipeline. Every change is recorded in the audit  *)
(* log before it is made; each access is one request, another call may run *)
(* between two of them, and any of them may fail.                          *)
(***************************************************************************)
EXTENDS Naturals, FiniteSets

CONSTANTS
  Calls,       \* concurrent calls
  Modules,     \* how many modules registered a deletion handler
  Devices,
  None,
  MaxConsents, \* bound: rows of one purpose in consent_records
  MaxCalls     \* bound: calls made in a behaviour

\* What the constants are to satisfy (Services assumes it).
UserDataAssumption == Modules \in Nat /\ MaxConsents \in Nat /\ MaxCalls \in Nat

VARIABLES
  user,      \* the row in users
  terms,     \* rows of one purpose in consent_records: active and revoked ones
  devices,   \* user_devices
  data,      \* data[m]: what module m keeps of the person
  log,       \* audit_log: the calls recorded as attempted, and as failed
  call,      \* call[c]: None, or the call and the access it makes next
  answered,  \* the erasures that were answered as complete
  made

vars == <<user, terms, devices, data, log, call, answered, made>>
Stored == <<user, terms, devices, data, log>>

Ops == {"updateProfile", "verifyAge", "parentalConsent", "grantConsent", "revokeConsent",
        "registerDevice", "removeDevice", "export", "softDelete", "hardPurge", "pipeline"}
Audited == Ops \ {"hardPurge"}

TypeOK ==
  /\ user \in [exists : BOOLEAN, deleted : BOOLEAN, name : {"own", "chosen", "[deleted]"},
               age : {"unknown", "child", "adult"},
               consent : {"not_required", "pending", "granted", "denied"},
               enforced : BOOLEAN]
  /\ terms \in [active : 0 .. MaxConsents, revoked : 0 .. MaxConsents]
  /\ devices \subseteq Devices
  /\ data \in [1 .. Modules -> {"kept", "anonymized", "purged"}]
  /\ log \subseteq Audited \X {"attempted", "failed"}
  /\ answered \subseteq {"hardPurge", "pipeline"}
  /\ made \in 0 .. MaxCalls

----------------------------------------------------------------------------
(***************************************************************************)
(* A call: begun, recorded, made, answered.                                *)
(***************************************************************************)

At(c, step) == call[c] # None /\ call[c].step = step
On(c, op, step) == At(c, step) /\ call[c].op = op

Continues(c, step) == call' = [call EXCEPT ![c].step = step]
Ends(c) == call' = [call EXCEPT ![c] = None]

Begins(c, op, what, step) ==
  /\ call[c] = None /\ made < MaxCalls /\ made' = made + 1
  /\ call' = [call EXCEPT ![c] = [op |-> op, what |-> what, step |-> step,
                                  next |-> 1, clean |-> TRUE, timedOut |-> FALSE]]
  /\ UNCHANGED <<Stored, answered>>

\* The modules in turn, if there are any.
FirstModule == IF Modules = 0 THEN "last" ELSE "modules"

\* The update is screened, a device looked up and the export collected before
\* anything is recorded.
Begin(c) ==
  \/ Begins(c, "updateProfile", None, "screen")
  \/ \E age \in {"child", "adult"} : Begins(c, "verifyAge", age, "record")
  \/ \E status \in {"granted", "denied"} : Begins(c, "parentalConsent", status, "record")
  \/ \E op \in {"grantConsent", "revokeConsent"} : Begins(c, op, None, "record")
  \/ \E d \in Devices : \/ Begins(c, "registerDevice", d, "look")
                        \/ Begins(c, "removeDevice", d, "record")
  \/ Begins(c, "export", None, "collect")
  \/ Begins(c, "softDelete", None, "record")
  \/ Begins(c, "hardPurge", None, FirstModule)
  \/ \E dry \in BOOLEAN : Begins(c, "pipeline", dry, "record")

\* No record, no change.
Record(c) ==
  /\ At(c, "record")
  /\ log' = log \cup {<<call[c].op, "attempted">>}
  /\ Continues(c, "act")
  /\ UNCHANGED <<user, terms, devices, data, answered, made>>

\* A record that is not written ends the call; so do a refused screening, an
\* export whose id is not one, and a device that cannot be looked up again.
GiveUp(c) ==
  /\ \E step \in {"screen", "look", "collect", "record"} : At(c, step)
  /\ Ends(c)
  /\ UNCHANGED <<Stored, answered, made>>

\* The change fails or throws: a second record says so, if it can be written.
Fail(c) ==
  /\ At(c, "act") /\ Ends(c)
  /\ log' \in {log, log \cup {<<call[c].op, "failed">>}}
  /\ UNCHANGED <<user, terms, devices, data, answered, made>>

----------------------------------------------------------------------------
(***************************************************************************)
(* Profile, age and parental consent.                                      *)
(***************************************************************************)

\* The guardian allowed every screened field; a warning counts as a block.
Screen(c) ==
  /\ At(c, "screen") /\ Continues(c, "record")
  /\ UNCHANGED <<Stored, answered, made>>

\* Mutant of Updatable: the update is not filtered on deleted_at.
UpdatableById == user.exists

Updatable == user.exists /\ ~user.deleted

UpdateProfile(c) ==
  /\ On(c, "updateProfile", "act") /\ Ends(c)
  /\ user' = IF Updatable THEN [user EXCEPT !.name = "chosen"] ELSE user
  /\ UNCHANGED <<terms, devices, data, log, answered, made>>

\* Filtered on the id only, and the enforcement flag is left alone.
VerifyAge(c) ==
  /\ On(c, "verifyAge", "act") /\ Ends(c)
  /\ user' = IF user.exists
             THEN [user EXCEPT !.age = call[c].what,
                               !.consent = IF call[c].what = "child" THEN "pending"
                                           ELSE "not_required"]
             ELSE user
  /\ UNCHANGED <<terms, devices, data, log, answered, made>>

RecordParentalConsent(c) ==
  /\ On(c, "parentalConsent", "act") /\ Ends(c)
  /\ user' = IF user.exists THEN [user EXCEPT !.consent = call[c].what] ELSE user
  /\ UNCHANGED <<terms, devices, data, log, answered, made>>

\* The gate in front of a feature that asks for consent: an unknown person is
\* enforced, and it reads the flag and nothing else.
CheckCoppaGate == user.exists /\ ~user.enforced

----------------------------------------------------------------------------
(***************************************************************************)
(* Consents, devices, export.                                              *)
(***************************************************************************)

GrantConsent(c) ==
  /\ On(c, "grantConsent", "act") /\ Ends(c)
  /\ terms.active + terms.revoked < MaxConsents
  /\ terms' = [terms EXCEPT !.active = @ + 1]
  /\ UNCHANGED <<user, devices, data, log, answered, made>>

\* Every active row is revoked; none is deleted.
RevokeConsent(c) ==
  /\ On(c, "revokeConsent", "act") /\ Ends(c)
  /\ terms' = [active |-> 0, revoked |-> terms.active + terms.revoked]
  /\ UNCHANGED <<user, devices, data, log, answered, made>>

\* A known device is only refreshed, which is not recorded.
LookForDevice(c) ==
  /\ At(c, "look")
  /\ IF call[c].what \in devices THEN Ends(c) ELSE Continues(c, "record")
  /\ UNCHANGED <<Stored, answered, made>>

RegisterDevice(c) ==
  /\ On(c, "registerDevice", "act") /\ Ends(c)
  /\ devices' = devices \cup {call[c].what}
  /\ UNCHANGED <<user, terms, data, log, answered, made>>

RemoveDevice(c) ==
  /\ On(c, "removeDevice", "act") /\ Ends(c)
  /\ devices' = devices \ {call[c].what}
  /\ UNCHANGED <<user, terms, data, log, answered, made>>

\* Collecting reads; a read that fails leaves its part out.
CollectUserData(c) ==
  /\ At(c, "collect") /\ Continues(c, "record")
  /\ UNCHANGED <<Stored, answered, made>>

ExportUserData(c) ==
  /\ On(c, "export", "act") /\ Ends(c)
  /\ UNCHANGED <<Stored, answered, made>>

----------------------------------------------------------------------------
(***************************************************************************)
(* Deletion in two phases.                                                 *)
(***************************************************************************)

NextModule(c, clean) ==
  call' = [call EXCEPT ![c].step = IF call[c].next = Modules THEN "last" ELSE "modules",
                       ![c].next = @ + 1, ![c].clean = @ /\ clean]

Anonymized == [user EXCEPT !.deleted = TRUE, !.name = "[deleted]", !.age = "unknown"]

\* A failed update is one error among others, and the modules follow.
Anonymize(c) ==
  /\ On(c, "softDelete", "act")
  /\ \E done \in BOOLEAN :
       /\ user' = IF done /\ Updatable THEN Anonymized ELSE user
       /\ call' = [call EXCEPT ![c].step = FirstModule, ![c].clean = done]
  /\ UNCHANGED <<terms, devices, data, log, answered, made>>

\* A module anonymizes its data or reports that it could not.
SoftDeleteModule(c) ==
  /\ On(c, "softDelete", "modules")
  /\ \E done \in BOOLEAN :
       /\ data' = IF done /\ data[call[c].next] = "kept"
                  THEN [data EXCEPT ![call[c].next] = "anonymized"] ELSE data
       /\ NextModule(c, done)
  /\ UNCHANGED <<user, terms, devices, log, answered, made>>

\* A module throws: the call ends, without a manifest row.
ModuleThrows(c) ==
  /\ At(c, "modules") /\ call[c].op \in {"softDelete", "hardPurge"} /\ Ends(c)
  /\ UNCHANGED <<Stored, answered, made>>

Answers(c, done) ==
  answered' = IF done THEN answered \cup {call[c].op} ELSE answered

\* Without its manifest row the deletion has not succeeded, and the row is
\* refused: the table lists modules and has none of the columns written.
WriteManifest(c) ==
  /\ On(c, "softDelete", "last") /\ Ends(c)
  /\ log' \in {log, log \cup {<<"softDelete", "failed">>}}
  /\ UNCHANGED <<user, terms, devices, data, answered, made>>

HardPurgeModule(c) ==
  /\ On(c, "hardPurge", "modules")
  /\ \E done \in BOOLEAN :
       /\ data' = IF done THEN [data EXCEPT ![call[c].next] = "purged"] ELSE data
       /\ NextModule(c, done)
  /\ UNCHANGED <<user, terms, devices, log, answered, made>>

\* The row goes even when a module failed, and what refers to it with it.
DeleteUserRow(c) ==
  /\ On(c, "hardPurge", "last")
  /\ \E done \in BOOLEAN :
       /\ user' = IF done THEN [user EXCEPT !.exists = FALSE] ELSE user
       /\ IF done THEN terms' = [active |-> 0, revoked |-> 0] /\ devices' = {}
          ELSE UNCHANGED <<terms, devices>>
       /\ call' = [call EXCEPT ![c].step = "manifest", ![c].clean = @ /\ done]
  /\ UNCHANGED <<data, log, answered, made>>

\* The manifest cannot be updated either, which is only logged.
UpdateManifest(c) ==
  /\ At(c, "manifest") /\ Ends(c)
  /\ Answers(c, call[c].clean)
  /\ UNCHANGED <<Stored, made>>

----------------------------------------------------------------------------
(***************************************************************************)
(* The purge pipeline: the handlers in order of priority, against a clock  *)
(* that answers for them while the current one goes on.                    *)
(***************************************************************************)

\* The admin route records the purge first; without handlers it has failed.
StartPurge(c) ==
  /\ On(c, "pipeline", "act")
  /\ IF Modules = 0 THEN Ends(c) ELSE Continues(c, "modules")
  /\ UNCHANGED <<Stored, answered, made>>

\* A handler's error is a step that failed; the next one runs (or, when the
\* pipeline stops at errors, none).
PurgeHandler(c) ==
  /\ On(c, "pipeline", "modules")
  /\ \E done \in BOOLEAN :
       /\ data' = IF done /\ ~call[c].what THEN [data EXCEPT ![call[c].next] = "purged"]
                  ELSE data
       /\ \/ NextModule(c, done)
          \/ ~done /\ call' = [call EXCEPT ![c].step = "last", ![c].clean = FALSE]
  /\ UNCHANGED <<user, terms, devices, log, answered, made>>

\* The clock runs out: the request is answered failed, the handlers run on.
PurgeTimeout(c) ==
  /\ On(c, "pipeline", "modules") /\ ~call[c].timedOut
  /\ call' = [call EXCEPT ![c].timedOut = TRUE]
  /\ UNCHANGED <<Stored, answered, made>>

\* A dry run erases nothing; anything but complete has its second record.
PurgeAnswer(c) ==
  /\ On(c, "pipeline", "last") /\ Ends(c)
  /\ LET done == call[c].clean /\ ~call[c].timedOut IN
       /\ Answers(c, done /\ ~call[c].what)
       /\ log' \in IF done THEN {log} ELSE {log, log \cup {<<"pipeline", "failed">>}}
  /\ UNCHANGED <<user, terms, devices, data, made>>

----------------------------------------------------------------------------
Init ==
  /\ user = [exists |-> TRUE, deleted |-> FALSE, name |-> "own", age |-> "unknown",
             consent |-> "not_required", enforced |-> FALSE]
  /\ terms = [active |-> 0, revoked |-> 0]
  /\ devices = {}
  /\ data = [m \in 1 .. Modules |-> "kept"]
  /\ log = {}
  /\ call = [c \in Calls |-> None]
  /\ answered = {} /\ made = 0

Deletion(c) ==
  \/ Anonymize(c) \/ SoftDeleteModule(c) \/ ModuleThrows(c) \/ WriteManifest(c)
  \/ HardPurgeModule(c) \/ DeleteUserRow(c) \/ UpdateManifest(c)
  \/ StartPurge(c) \/ PurgeHandler(c) \/ PurgeTimeout(c) \/ PurgeAnswer(c)

Profile(c) ==
  \/ Screen(c) \/ UpdateProfile(c) \/ VerifyAge(c) \/ RecordParentalConsent(c)
  \/ GrantConsent(c) \/ RevokeConsent(c) \/ LookForDevice(c) \/ RegisterDevice(c)
  \/ RemoveDevice(c) \/ CollectUserData(c) \/ ExportUserData(c)

Next ==
  \E c \in Calls :
    Begin(c) \/ Record(c) \/ GiveUp(c) \/ Fail(c) \/ Profile(c) \/ Deletion(c)

Spec == Init /\ [][Next]_vars

----------------------------------------------------------------------------
\* A deleted person's name does not come back, though a profile update that
\* was screened and recorded before the deletion lands after it
\* (softDeleteUser; the filter of updateProfile).
NameStaysDeleted == user.deleted => user.name = "[deleted]"

\* An erasure answered as complete erased with every module, each of its
\* handlers within its time (hard-purge.ts: "Fail closed"; hardPurgeUser).
CompleteMeansErased ==
  answered # {} => \A m \in 1 .. Modules : data[m] = "purged"

\* What the stores say about a person has its record (audit.ts, audited).
ChangesAreRecorded ==
  LET recorded == {entry[1] : entry \in log} IN
  /\ user.name = "chosen" => "updateProfile" \in recorded
  /\ user.age # "unknown" => "verifyAge" \in recorded
  /\ terms.active > 0 => "grantConsent" \in recorded
  /\ terms.revoked > 0 => "revokeConsent" \in recorded
  /\ devices # {} => "registerDevice" \in recorded
  /\ user.deleted => "softDelete" \in recorded

\* Erasure is kept: however the calls about one person interleave and fail.
ErasureIsKept == NameStaysDeleted /\ CompleteMeansErased /\ ChangesAreRecorded

\* Once no call is under way the gate lets a known person through unless the
\* age and the parent's decision say no (users.coppa_enforcement_active: "TRUE
\* when user is under 13 AND parental consent is not granted. Set by COPPA
\* service on age verification and consent changes").
GateFollowsConsent ==
  (\A c \in Calls : call[c] = None) =>
    (CheckCoppaGate <=> user.exists /\ ~(user.age = "child" /\ user.consent # "granted"))

(***************************************************************************)
(* The inductive invariant of ErasureIsKept                                *)
(***************************************************************************)
WhatOf(op) ==
  CASE op = "verifyAge" -> {"child", "adult"}
    [] op = "parentalConsent" -> {"granted", "denied"}
    [] op \in {"registerDevice", "removeDevice"} -> Devices
    [] op = "pipeline" -> BOOLEAN
    [] OTHER -> {None}

Early == {"screen", "look", "collect", "record", "act"}

\* The calls under way, and which of them get to a step.
CallsTyped ==
  /\ DOMAIN call = Calls
  /\ \A c \in Calls : call[c] # None =>
       /\ call[c] \in [op : Ops, what : WhatOf(call[c].op),
                       step : Early \cup {"modules", "last", "manifest"},
                       next : Nat \ {0}, clean : BOOLEAN, timedOut : BOOLEAN]
       /\ call[c].step \in Early => call[c].op # "hardPurge" /\ call[c].next = 1
       /\ call[c].step = "modules" => call[c].next <= Modules
       /\ call[c].step = "manifest" => call[c].op = "hardPurge"

\* What is about to be done is on record.
RecordedFirst == \A c \in Calls : At(c, "act") => <<call[c].op, "attempted">> \in log

Erases(k) == k.op = "hardPurge" \/ (k.op = "pipeline" /\ ~k.what)

\* An erasure without an error so far has erased the modules it has been to; nothing
\* writes what a module keeps of a person again.
ErasedSoFar ==
  \A c \in Calls : call[c] # None /\ Erases(call[c]) /\ call[c].clean =>
    \A m \in 1 .. Modules :
      (call[c].step = "modules" /\ m < call[c].next) \/ call[c].step \in {"last", "manifest"}
        => data[m] = "purged"

\* Revoking keeps the rows: there is always room for what was granted.
RowsFit == terms.active + terms.revoked <= MaxConsents

IInv == TypeOK /\ CallsTyped /\ RecordedFirst /\ ErasedSoFar /\ RowsFit /\ ErasureIsKept
=============================================================================
