------------------------------- MODULE Groups -------------------------------
(***************************************************************************)
(* Groups, memberships and invites: the group and invite services over a   *)
(* store whose every access is one request. Between two accesses of one    *)
(* call other calls run, and an access may fail before or after the store  *)
(* executed it. What holds the rows together are two partial unique        *)
(* indexes (one active membership, one pending invite) and the filter on   *)
(* the pending status when an invite is resolved.                          *)
(***************************************************************************)
EXTENDS Naturals, Sequences, FiniteSets

CONSTANTS
  Calls,         \* concurrent calls of the services
  GroupIds, People,
  None,
  MaxInvites,    \* bound: invites ever created
  MaxRows,       \* bound: membership rows of one person in one group
  MaxCalls       \* bound: calls made in a behaviour

\* What the constants are to satisfy (Services assumes it).
GroupsAssumption ==
  /\ MaxInvites \in Nat /\ MaxRows \in Nat /\ MaxCalls \in Nat
  /\ None \notin [owner : People, status : {"active", "archived", "suspended"}]

VARIABLES
  group,    \* group[g]: None, or its owner and status
  member,   \* member[g][p]: rows ever inserted, and whether the latest is active
  invite,   \* the invites, in the order they were created
  call,     \* call[c]: None, or the call and the access it makes next
  made

vars == <<group, member, invite, call, made>>

Statuses == {"active", "archived", "suspended"}

TypeOK ==
  /\ group \in [GroupIds -> [owner : People, status : Statuses] \cup {None}]
  /\ member \in [GroupIds -> [People -> [rows : 0 .. MaxRows, active : BOOLEAN,
                                         role : {"owner", "member"}]]]
  /\ invite \in Seq([group : GroupIds, invitee : People,
                     status : {"pending", "accepted", "declined", "expired"}])
  /\ Len(invite) <= MaxInvites
  /\ made \in 0 .. MaxCalls

----------------------------------------------------------------------------
(***************************************************************************)
(* A call: it begins, makes its accesses one by one, and ends with an      *)
(* answer nobody keeps.                                                    *)
(***************************************************************************)

Begins(c, next) ==
  /\ call[c] = None /\ made < MaxCalls /\ made' = made + 1
  /\ call' = [call EXCEPT ![c] = next]
  /\ UNCHANGED <<group, member, invite>>

At(c, step) == call[c] # None /\ call[c].step = step

Continues(c, step) == call' = [call EXCEPT ![c].step = step]

Ends(c) == call' = [call EXCEPT ![c] = None]

\* An access that fails, or that an index or a filter refuses, ends the call:
\* a failed read looks like a missing row.
EndsEarly(c) ==
  /\ call[c] # None /\ Ends(c)
  /\ UNCHANGED <<group, member, invite, made>>

Step(op, g, by, of, i) == [step |-> op, group |-> g, by |-> by, of |-> of, invite |-> i]

----------------------------------------------------------------------------
(***************************************************************************)
(* The store's writes.                                                     *)
(***************************************************************************)

\* idx_memberships_active: a second active row is refused.
AddMember(g, p, role) ==
  /\ ~member[g][p].active /\ member[g][p].rows < MaxRows
  /\ member' = [member EXCEPT ![g][p] = [rows |-> @.rows + 1, active |-> TRUE, role |-> role]]

RemoveMember(g, p) ==
  /\ member[g][p].active
  /\ member' = [member EXCEPT ![g][p].active = FALSE]

\* Mutant of Resolvable: the patch is not filtered on the pending status.
EverCreated(i) == i \in DOMAIN invite

Resolvable(i) == invite[i].status = "pending"

ResolveInvite(i, resolution) ==
  /\ Resolvable(i)
  /\ invite' = [invite EXCEPT ![i].status = resolution]

\* idx_invites_pending: one pending invite per person and group.
NoPendingInvite(g, p) ==
  ~ \E i \in DOMAIN invite :
      invite[i].group = g /\ invite[i].invitee = p /\ invite[i].status = "pending"

----------------------------------------------------------------------------
(***************************************************************************)
(* GroupService.                                                           *)
(***************************************************************************)

CreateGroup(c) ==
  /\ call[c] = None /\ made < MaxCalls /\ made' = made + 1
  /\ \E g \in GroupIds, p \in People :
       /\ group[g] = None
       /\ group' = [group EXCEPT ![g] = [owner |-> p, status |-> "active"]]
       /\ call' = [call EXCEPT ![c] = Step("addOwner", g, p, p, 0)]
  /\ UNCHANGED <<member, invite>>

\* The answer of the owner's membership is not looked at.
AddOwner(c) ==
  /\ At(c, "addOwner")
  /\ AddMember(call[c].group, call[c].by, "owner")
  /\ Ends(c)
  /\ UNCHANGED <<group, invite, made>>

StartArchive(c) ==
  \E g \in GroupIds, p \in People : Begins(c, Step("readForArchive", g, p, p, 0))

\* Only the owner, and not twice; a suspended group can be archived.
MayArchive(c) ==
  /\ group[call[c].group] # None
  /\ group[call[c].group].owner = call[c].by
  /\ group[call[c].group].status # "archived"

ReadForArchive(c) ==
  /\ At(c, "readForArchive")
  /\ IF MayArchive(c) THEN Continues(c, "archive") ELSE Ends(c)
  /\ UNCHANGED <<group, member, invite, made>>

\* Unconditional: what was read is not compared again.
Archive(c) ==
  /\ At(c, "archive")
  /\ group' = [group EXCEPT ![call[c].group].status = "archived"]
  /\ Ends(c)
  /\ UNCHANGED <<member, invite, made>>

\* An admin or the system sets any status.
UpdateGroupStatus ==
  /\ made < MaxCalls /\ made' = made + 1
  /\ \E g \in GroupIds, s \in Statuses :
       group[g] # None /\ group' = [group EXCEPT ![g].status = s]
  /\ UNCHANGED <<member, invite, call>>

Leave ==
  /\ made < MaxCalls /\ made' = made + 1
  /\ \E g \in GroupIds, p \in People : RemoveMember(g, p)
  /\ UNCHANGED <<group, invite, call>>

----------------------------------------------------------------------------
(***************************************************************************)
(* InviteService.                                                          *)
(***************************************************************************)

StartInvite(c) ==
  \E g \in GroupIds, by \in People, of \in People :
    by # of /\ Begins(c, Step("readGroup", g, by, of, 0))

ReadGroup(c) ==
  /\ At(c, "readGroup")
  /\ LET g == call[c].group IN
       IF group[g] # None /\ group[g].status = "active"
       THEN Continues(c, "readInviter") ELSE Ends(c)
  /\ UNCHANGED <<group, member, invite, made>>

ReadInviter(c) ==
  /\ At(c, "readInviter")
  /\ IF member[call[c].group][call[c].by].active THEN Continues(c, "readInvitee") ELSE Ends(c)
  /\ UNCHANGED <<group, member, invite, made>>

ReadInvitee(c) ==
  /\ At(c, "readInvitee")
  /\ IF ~member[call[c].group][call[c].of].active THEN Continues(c, "insertInvite") ELSE Ends(c)
  /\ UNCHANGED <<group, member, invite, made>>

InsertInvite(c) ==
  /\ At(c, "insertInvite")
  /\ NoPendingInvite(call[c].group, call[c].of) /\ Len(invite) < MaxInvites
  /\ invite' = Append(invite, [group |-> call[c].group, invitee |-> call[c].of,
                               status |-> "pending"])
  /\ Ends(c)
  /\ UNCHANGED <<group, member, made>>

\* Only the invitee answers; the read does not look at the status.
StartAnswer(c) ==
  \E i \in DOMAIN invite, answer \in {"accept", "decline"} :
    Begins(c, Step(answer, invite[i].group, invite[i].invitee, invite[i].invitee, i))

\* The invite is used up before the membership exists; the group is not read
\* again.
Accept(c) ==
  /\ At(c, "accept")
  /\ ResolveInvite(call[c].invite, "accepted")
  /\ Continues(c, "addMember")
  /\ UNCHANGED <<group, member, made>>

AddInvitee(c) ==
  /\ At(c, "addMember")
  /\ AddMember(call[c].group, call[c].of, "member")
  /\ Ends(c)
  /\ UNCHANGED <<group, invite, made>>

Decline(c) ==
  /\ At(c, "decline")
  /\ ResolveInvite(call[c].invite, "declined")
  /\ Ends(c)
  /\ UNCHANGED <<group, member, made>>

\* The patch was executed, its answer lost: the call ends before its next
\* access.
AnswerLost(c) ==
  /\ At(c, "accept") /\ ResolveInvite(call[c].invite, "accepted")
  /\ Ends(c)
  /\ UNCHANGED <<group, member, made>>

----------------------------------------------------------------------------
Init ==
  /\ group = [g \in GroupIds |-> None]
  /\ member = [g \in GroupIds |-> [p \in People |->
                 [rows |-> 0, active |-> FALSE, role |-> "member"]]]
  /\ invite = <<>>
  /\ call = [c \in Calls |-> None]
  /\ made = 0

GroupCalls(c) ==
  CreateGroup(c) \/ AddOwner(c) \/ StartArchive(c) \/ ReadForArchive(c) \/ Archive(c)

InviteCalls(c) ==
  \/ StartInvite(c) \/ ReadGroup(c) \/ ReadInviter(c) \/ ReadInvitee(c) \/ InsertInvite(c)
  \/ StartAnswer(c) \/ Accept(c) \/ AddInvitee(c) \/ Decline(c) \/ AnswerLost(c)

Next ==
  \/ \E c \in Calls : GroupCalls(c) \/ InviteCalls(c) \/ EndsEarly(c)
  \/ UpdateGroupStatus \/ Leave

Spec == Init /\ [][Next]_vars

----------------------------------------------------------------------------
Accepted(g, p) ==
  {i \in DOMAIN invite : invite[i].group = g /\ invite[i].invitee = p
                         /\ invite[i].status = "accepted"}

\* Whoever does not own a group is in it by consent: each of the person's
\* membership rows was paid for by an accepted invite of its own, however
\* accepting, declining, leaving and inviting again interleave
\* (group_invites: "requires explicit accept/decline - no auto-join").
ConsentIsUsedOnce ==
  \A g \in GroupIds, p \in People :
    group[g] # None /\ group[g].owner # p => member[g][p].rows <= Cardinality(Accepted(g, p))

----------------------------------------------------------------------------
(***************************************************************************)
(* The inductive invariant of ConsentIsUsedOnce.                           *)
(***************************************************************************)
CallSteps ==
  {"addOwner", "readForArchive", "archive", "readGroup", "readInviter", "readInvitee",
   "insertInvite", "accept", "decline", "addMember"}

CallsTyped ==
  call \in [Calls -> [step : CallSteps, group : GroupIds, by : People, of : People,
                     invite : Nat] \cup {None}]

\* What is founded or archived is a group; its first member is its owner.
GroupsExist ==
  \A c \in Calls : At(c, "addOwner") \/ At(c, "archive") =>
    /\ group[call[c].group] # None
    /\ At(c, "addOwner") => group[call[c].group].owner = call[c].by

\* An answer is the invitee's, to an invite to that group.
AnswersOwn ==
  \A c \in Calls : At(c, "accept") \/ At(c, "decline") =>
    /\ call[c].invite \in DOMAIN invite
    /\ invite[call[c].invite].group = call[c].group
    /\ invite[call[c].invite].invitee = call[c].of

\* Who has accepted and is about to be a member.
Joining(g, p) == {c \in Calls : At(c, "addMember") /\ call[c].group = g /\ call[c].of = p}

\* Nobody has, or is about to have, more rows than accepted invites.
PaidFor(g, p) ==
  /\ IsFiniteSet(Joining(g, p))
  /\ \/ group[g] # None /\ group[g].owner = p
     \/ member[g][p].rows + Cardinality(Joining(g, p)) <= Cardinality(Accepted(g, p))

IInv ==
  /\ TypeOK /\ CallsTyped /\ GroupsExist /\ AnswersOwn
  /\ \A g \in GroupIds, p \in People : PaidFor(g, p)
=============================================================================
