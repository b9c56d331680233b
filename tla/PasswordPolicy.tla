--------------------------- MODULE PasswordPolicy ---------------------------
(***************************************************************************)
(* The global password policy: administrators change it, by the route or   *)
(* by the command bar's action, and sign-up reads it                       *)
(* (platform/auth/password-policy, app/api/admin/password-policy,          *)
(* app/api/admin/ai/handlers/config, app/api/auth/sign-up).                *)
(*                                                                         *)
(* A policy is read, changed in the fields that were sent, recorded and    *)
(* saved whole, each an access of its own that may fail; other changes and *)
(* sign-ups come in between.  Of the fields two stand for the rest: a      *)
(* number with bounds and a switch.                                        *)
(***************************************************************************)
EXTENDS Naturals

CONSTANTS
  Requests,
  Admins,
  None,
  Lengths,      \* of passwords, and those asked for as a minimum
  Limits,       \* PASSWORD_POLICY_LIMITS.minLength
  Default,      \* DEFAULT_POLICY
  Stored,       \* what the row may be at the start
  MaxCalls      \* BOUND: requests

VARIABLES
  row,          \* the global row, None when there is none
  log,          \* audit records
  req,
  calls,
  accepted      \* passwords of the sign-ups that passed (history variable)

vars == <<row, log, req, calls, accepted>>

Policy == [minLength : Lengths, requireNumber : BOOLEAN]

\* What a password is to the rules; common are the breached, the repeated and the
\* sequential ones, which no policy allows.
Password == [length : Lengths, number : BOOLEAN, common : BOOLEAN]

\* A change sends the fields it sets.
Changes == [minLength : Lengths] \cup [requireNumber : BOOLEAN]

\* What the constants are to satisfy (Services assumes it): the built-in policy and the
\* one stored are within the bounds.
PasswordAssumption ==
  /\ Limits \subseteq Lengths /\ Lengths \subseteq Nat
  /\ Stored \subseteq Policy \cup {None} /\ Default \in Policy
  /\ \A p \in (Stored \ {None}) \cup {Default} : p.minLength \in Limits
  /\ MaxCalls \in Nat

Idle == [at |-> "idle", by |-> None, sent |-> None, policy |-> Default]

TypeOK ==
  /\ row \in Policy \cup {None}
  /\ log \subseteq [by : Admins, policy : Policy, outcome : {"attempted", "failed"}]
  /\ req \in [Requests ->
        [at : {"idle", "reading", "auditing", "looking", "updating", "inserting", "failing",
               "checking"},
         by : Admins \cup {None}, sent : Changes \cup Password \cup {None}, policy : Policy]]
  /\ calls \in 0..MaxCalls
  /\ accepted \subseteq Password

Init ==
  /\ row \in Stored
  /\ log = {}
  /\ req = [q \in Requests |-> Idle]
  /\ calls = 0
  /\ accepted = {}

Begins(q, request) ==
  /\ req[q] = Idle /\ calls < MaxCalls /\ calls' = calls + 1
  /\ req' = [req EXCEPT ![q] = request]
  /\ UNCHANGED <<row, log, accepted>>

At(q, at) == req[q].at = at
Goto(q, at) == req' = [req EXCEPT ![q].at = at]
Done(q) == req' = [req EXCEPT ![q] = Idle]

-----------------------------------------------------------------------------
(* A change *)

BeginChange(q, a, c) == Begins(q, [Idle EXCEPT !.at = "reading", !.by = a, !.sent = c])

\* getGlobalPasswordPolicy: the built-in policy where none is stored, and where the
\* stored one cannot be read.
Readings == {Default, IF row = None THEN Default ELSE row}

\* Mutant: the bounds are not looked at.
AnyLength(c) == TRUE

\* applyPasswordPolicyChange: a field out of its bounds refuses the change.
WithinLimits(c) == "minLength" \in DOMAIN c => c.minLength \in Limits

Changed(p, c) == [f \in DOMAIN p |-> IF f \in DOMAIN c THEN c[f] ELSE p[f]]

Read(q) ==
  /\ At(q, "reading")
  /\ IF WithinLimits(req[q].sent)
     THEN \E p \in Readings :
            req' = [req EXCEPT ![q].at = "auditing", ![q].policy = Changed(p, req[q].sent)]
     ELSE Done(q)
  /\ UNCHANGED <<row, log, calls, accepted>>

Note(q, outcome) == [by |-> req[q].by, policy |-> req[q].policy, outcome |-> outcome]

\* No record, no change.
Record(q) ==
  /\ At(q, "auditing")
  /\ \/ Goto(q, "looking") /\ log' = log \cup {Note(q, "attempted")}
     \/ Done(q) /\ UNCHANGED log
  /\ UNCHANGED <<row, calls, accepted>>

\* saveGlobalPasswordPolicy: is there a row?
Look(q) ==
  /\ At(q, "looking")
  /\ \/ Goto(q, IF row = None THEN "inserting" ELSE "updating")
     \/ Goto(q, "failing")
  /\ UNCHANGED <<row, log, calls, accepted>>

\* The policy is written whole.  A second global row is refused by the unique index;
\* the answer may be lost, or the access fail.
Save(q) ==
  /\ \/ At(q, "updating") /\ row' = req[q].policy /\ (Done(q) \/ Goto(q, "failing"))
     \/ At(q, "inserting") /\ row = None
          /\ row' = req[q].policy /\ (Done(q) \/ Goto(q, "failing"))
     \/ (At(q, "updating") \/ At(q, "inserting")) /\ UNCHANGED row /\ Goto(q, "failing")
  /\ UNCHANGED <<log, calls, accepted>>

\* What failed, or is taken to have failed, is noted, if it can be.
NoteFailure(q) ==
  /\ At(q, "failing") /\ Done(q)
  /\ log' \in {log, log \cup {Note(q, "failed")}}
  /\ UNCHANGED <<row, calls, accepted>>

-----------------------------------------------------------------------------
(* Signing up *)

BeginSignUp(q, password) == Begins(q, [Idle EXCEPT !.at = "checking", !.sent = password])

\* passwordRuleViolations finds none.
Meets(password, p) ==
  /\ password.length >= p.minLength
  /\ p.requireNumber => password.number
  /\ ~password.common

Check(q) ==
  /\ At(q, "checking") /\ Done(q)
  /\ \E p \in Readings :
       accepted' = IF Meets(req[q].sent, p) THEN accepted \cup {req[q].sent} ELSE accepted
  /\ UNCHANGED <<row, log, calls>>

Next ==
  \E q \in Requests :
    \/ \E a \in Admins, c \in Changes : BeginChange(q, a, c)
    \/ Read(q) \/ Record(q) \/ Look(q) \/ Save(q) \/ NoteFailure(q)
    \/ \E password \in Password : BeginSignUp(q, password)
    \/ Check(q)

Spec == Init /\ [][Next]_vars

-----------------------------------------------------------------------------
(* Properties *)

\* Nobody signs up with a password below the floor of the bounds, or a common one,
\* whatever administrators change at the same time and whatever cannot be read
\* (PASSWORD_POLICY_LIMITS, getGlobalPasswordPolicy: sign-up never fails open).
NobodyBelowTheFloor ==
  \A password \in accepted :
    ~password.common /\ \E floor \in Limits : password.length >= floor

\* The policy in force is the one of the start, or the log says who set it
\* (auditedResponse, runAudited: the record precedes the change).
PolicyIsOnRecord ==
  row \notin Stored => \E l \in log : l.outcome = "attempted" /\ l.policy = row

PolicyIsKept == NobodyBelowTheFloor /\ PolicyIsOnRecord

\* Whatever is in force, or about to be, is within the bounds; who asks is known, and
\* what is about to be saved is on record.
WithinBounds ==
  /\ row = None \/ row.minLength \in Limits
  /\ \A q \in Requests : req[q].policy.minLength \in Limits
Asked ==
  \A q \in Requests :
    /\ req[q].at \notin {"idle", "checking"} => req[q].by \in Admins
    /\ At(q, "reading") => req[q].sent \in Changes
    /\ At(q, "checking") => req[q].sent \in Password
Announced ==
  \A q \in Requests : req[q].at \in {"looking", "updating", "inserting"} =>
    \E l \in log : l.outcome = "attempted" /\ l.policy = req[q].policy

IInv == TypeOK /\ WithinBounds /\ Asked /\ Announced /\ PolicyIsKept

\* "Only the fields sent change" (admin/password-policy/route.ts).
OnlyTheFieldsSent ==
  [][\A q \in Requests :
       At(q, "updating") /\ req'[q] # req[q] /\ row' # row =>
         row' = Changed(row, req[q].sent)]_vars
=============================================================================
