---------------------------- MODULE AdminAccess ----------------------------
(***************************************************************************)
(* Who may do what: roles, inherited roles and entitlement groups, the     *)
(* permissions they resolve to, the cache each server process keeps of     *)
(* them, the admin guard in front of every admin route and the rules of    *)
(* role governance behind it (platform/auth/permissions, permissions-cache,*)
(* admin-guard, role-governance, role-lookup, entitlements,                *)
(* user-provisioning, account-status-guard; app/api/admin/users,           *)
(* entitlements, ai/execute and ai/handlers/roles).                        *)
(*                                                                         *)
(* Every await is a step: a resolution reads the user's row, the role's    *)
(* permissions, the inherited ones, the entitlements and their groups one  *)
(* after the other, a handler reads what its rules compare before the      *)
(* audit entry and the write, and other requests, bans, restarts and the   *)
(* clock come in between.                                                  *)
(***************************************************************************)
EXTENDS Integers, FiniteSets

CONSTANTS
  Users, Roles, Perms, Groups, Servers, Requests,
  None,
  Protected,   \* the roles only the database assigns (super_admin)
  Free,        \* the role of a new account
  Manage,      \* stands for the permission an admin page requires
  Inherits,    \* role -> the roles it inherits from
  GroupPerms,  \* group -> the permissions it grants
  RoleOf,      \* user -> its role at the start, None without a row
  PermsOf,     \* role -> its permissions at the start
  Absent,      \* the roles that do not exist at the start
  Holders,     \* group -> the users it was granted to at the start
  Asks,        \* who may ask for what: pairs of a user and an operation
  TTL,         \* the life of a cached resolution
  Banned,      \* the users a moderation decision may ban
  Faults,      \* what may fail: "read", "audit", "restart"
  MaxTime, MaxCalls   \* bounds

\* What an administrator, or a consumer of the entitlement library, may ask for.
AllOps ==
  [kind : {"use"}, perm : Perms]
    \cup [kind : {"assign"}, user : Users, role : Roles]
    \cup [kind : {"add", "remove"}, role : Roles, perm : Perms]
    \cup [kind : {"create"}, role : Roles, perms : SUBSET Perms]
    \cup [kind : {"delete"}, role : Roles]
    \cup [kind : {"duplicate"}, role : Roles, new : Roles]
    \cup [kind : {"toggle"}, group : Groups, on : BOOLEAN]
    \cup [kind : {"grant", "revoke"}, group : Groups, user : Users]
    \cup [kind : {"first"}]

\* What the constants are to satisfy (Services assumes it).
AccessAssumption ==
  /\ None \notin Roles
  /\ Protected \subseteq Roles /\ Free \in Roles \ Protected
  /\ Manage \in Perms
  /\ Inherits \in [Roles -> SUBSET Roles]
  /\ GroupPerms \in [Groups -> SUBSET Perms]
  /\ RoleOf \in [Users -> Roles \cup {None}]
  /\ PermsOf \in [Roles -> SUBSET Perms]
  /\ Absent \subseteq Roles /\ Free \notin Absent
  /\ \A r \in Absent : PermsOf[r] = {} /\ \A u \in Users : RoleOf[u] # r
  /\ Holders \in [Groups -> SUBSET Users]
  /\ \A ask \in Asks : ask[1] \in Users /\ ask[2] \in AllOps
  /\ Banned \subseteq Users
  /\ Faults \subseteq {"read", "audit", "restart"}
  /\ TTL \in Nat /\ MaxTime \in Nat \ {0} /\ MaxCalls \in Nat

VARIABLES
  now,     \* the time
  user,    \* user -> its row: role (None: no row) and standing
  roles,   \* role -> not yet there, there or deleted, and its permissions
  group,   \* group -> is it active, and who holds it
  cache,   \* server -> user -> the cached permissions and when they expire
  req,     \* request -> where it is and what it has read
  gone,    \* ghost: the facts that stopped being true, and when they last did
  calls    \* requests started so far

vars == <<now, user, roles, group, cache, req, gone, calls>>

PC == {"idle", "user", "direct", "inherited", "grants", "groups", "standing",
       "target", "new", "current", "source", "count", "audit", "write", "second",
       "row", "entry", "insert"}

\* What a request has read: the user's role, the permissions found so far, the
\* groups held, the target's role, the permissions touched; good (ghost) is the
\* actor's standing when the request arrived.
Blank == [pc |-> "idle", actor |-> None, server |-> None, op |-> None, start |-> 0,
          role |-> None, perms |-> {}, held |-> {}, target |-> None,
          touched |-> {}, good |-> FALSE]

\* A fact is a row of the tables: a role of a user, a permission of a role, a holder
\* of a group, or that the group is active.
True(f) ==
  CASE f.fact = "role"       -> user[f.user].role = f.role
    [] f.fact = "permission" -> f.perm \in roles[f.role].perms
    [] f.fact = "holder"     -> f.user \in group[f.group].holders
    [] f.fact = "active"     -> group[f.group].active

NoEntry == [perms |-> {}, until |-> 0]

\* The facts that a step ends, and when they last did.
Lost ==
  {[fact |-> "role", user |-> u, role |-> user[u].role] :
     u \in {v \in Users : user[v].role \notin {None, user'[v].role}}}
  \cup (UNION {{[fact |-> "permission", role |-> r, perm |-> p] :
                 p \in roles[r].perms \ roles'[r].perms} : r \in Roles})
  \cup (UNION {{[fact |-> "holder", group |-> g, user |-> u] :
                 u \in group[g].holders \ group'[g].holders} : g \in Groups})
  \cup {[fact |-> "active", group |-> g] :
           g \in {h \in Groups : group[h].active /\ ~group'[h].active}}

Remember ==
  gone' = {e \in gone : e.what \notin Lost} \cup [what : Lost, at : {now}]

Init ==
  /\ now = 1
  /\ user = [u \in Users |-> [role |-> RoleOf[u], good |-> TRUE]]
  /\ roles = [r \in Roles |-> [is |-> IF r \in Absent THEN "new" ELSE "there", perms |-> PermsOf[r]]]
  /\ group = [g \in Groups |-> [active |-> TRUE, holders |-> Holders[g]]]
  /\ cache \in [Servers -> [Users -> {NoEntry}]]
  /\ req = [q \in Requests |-> Blank]
  /\ gone = {}
  /\ calls = 0

At(q, pc) == req[q].pc = pc
Exists(r) == roles[r].is = "there"
Set(q, r) == req' = [req EXCEPT ![q] = r]
Goto(q, pc) == Set(q, [req[q] EXCEPT !.pc = pc])
Finish(q) == Set(q, Blank)
Tables == <<user, roles, group, gone>>

(***************************************************************************)
(* The guard: resolve, check, standing                                     *)
(***************************************************************************)

\* The permission an operation's page requires.
Needs(op) == IF op.kind = "use" THEN op.perm ELSE Manage

\* The first look-up of the operation's handler.
Handler(op) ==
  IF op.kind = "assign" THEN "target" ELSE "new"

\* getCachedPermissions has answered: the route's permission is checked.
Checked(q, r, perms) ==
  Set(q, IF Needs(r.op) \in perms
         THEN [r EXCEPT !.perms = perms, !.pc = "standing", !.role = None,
                        !.held = {}, !.start = 0]
         ELSE Blank)

\* Mutant: the entry lives from when the resolution ended.
CacheEntryFromEnd(q, perms) == [perms |-> perms, until |-> now + TTL]

\* The life of an entry counts from when its resolution began.
CacheEntry(q, perms) == [perms |-> perms, until |-> req[q].start + TTL]

\* A request arrives on a server; a fresh cache entry answers at once. The
\* library calls (grant, revoke) have no guard, a user's own first request goes
\* to the account-status guard.
Arrive(q, u, s, op) ==
  /\ At(q, "idle") /\ calls < MaxCalls
  /\ calls' = calls + 1
  /\ LET r == [Blank EXCEPT !.actor = u, !.server = s, !.op = op, !.start = now,
                            !.good = user[u].good]
         hit == cache[s][u].until > now
     IN CASE op.kind \in {"grant", "revoke"} -> Set(q, [r EXCEPT !.pc = "audit"])
          [] op.kind = "first" -> Set(q, [r EXCEPT !.pc = "row"])
          [] OTHER -> IF hit THEN Checked(q, r, cache[s][u].perms)
                             ELSE Set(q, [r EXCEPT !.pc = "user"])
  /\ UNCHANGED <<now, Tables, cache>>

\* An unknown user, and one whose row cannot be read, has no permissions; that
\* answer is not cached.
ReadUser(q) ==
  /\ At(q, "user")
  /\ LET role == user[req[q].actor].role
     IN \/ role = None /\ Finish(q)
        \/ role # None /\ Set(q, [req[q] EXCEPT !.role = role, !.pc = "direct"])
        \/ "read" \in Faults /\ Finish(q)
  /\ UNCHANGED <<now, Tables, cache, calls>>

\* A read of permissions that fails counts as no permissions.
Collect(q, found, pc) ==
  \E got \in {found} \cup (IF "read" \in Faults THEN {{}} ELSE {}) :
    Set(q, [req[q] EXCEPT !.perms = @ \cup got, !.pc = pc])

ReadDirect(q) ==
  /\ At(q, "direct")
  /\ Collect(q, roles[req[q].role].perms, "inherited")
  /\ UNCHANGED <<now, Tables, cache, calls>>

ReadInherited(q) ==
  /\ At(q, "inherited")
  /\ Collect(q, UNION {roles[r].perms : r \in Inherits[req[q].role]}, "grants")
  /\ UNCHANGED <<now, Tables, cache, calls>>

HeldBy(u) == {g \in Groups : u \in group[g].holders}

ReadGrants(q) ==
  /\ At(q, "grants")
  /\ Set(q, [req[q] EXCEPT !.held = HeldBy(req[q].actor), !.pc = "groups"])
  /\ UNCHANGED <<now, Tables, cache, calls>>

\* The active groups among those held, their permissions, and the cache entry.
ReadGroups(q) ==
  /\ At(q, "groups")
  /\ LET active == {g \in req[q].held : group[g].active}
         perms == req[q].perms \cup (UNION {GroupPerms[g] : g \in active})
     IN /\ cache' = [cache EXCEPT ![req[q].server][req[q].actor] = CacheEntry(q, perms)]
        /\ Checked(q, req[q], perms)
  /\ UNCHANGED <<now, Tables, calls>>

\* Mutant: the standing is taken from when the permissions were cached.
StandingUnread(q) == TRUE

\* The account's standing, read on every request; unreadable is banned.
InGoodStanding(q) == user[req[q].actor].good

CheckStanding(q) ==
  /\ At(q, "standing")
  /\ \/ /\ InGoodStanding(q)
        /\ IF req[q].op.kind = "use" THEN Finish(q) ELSE Goto(q, Handler(req[q].op))
     \/ ~InGoodStanding(q) /\ Finish(q)
     \/ "read" \in Faults /\ Finish(q)
  /\ UNCHANGED <<now, Tables, cache, calls>>

(***************************************************************************)
(* The handlers: look up, apply the rules, record, write                   *)
(***************************************************************************)

\* checkPermissionGrant: the administrator holds every permission touched.
Grantable(q, touched) == touched \subseteq req[q].perms

\* findUser of the user whose role is to change.
ReadTarget(q) ==
  /\ At(q, "target")
  /\ LET role == user[req[q].op.user].role
     IN \/ role = None /\ Finish(q)
        \/ role # None /\ Set(q, [req[q] EXCEPT !.target = role, !.pc = "new"])
        \/ "read" \in Faults /\ Finish(q)
  /\ UNCHANGED <<now, Tables, cache, calls>>

\* The role, or group, named by the request and the permissions it touches.
Named(op) ==
  CASE op.kind = "toggle" -> TRUE
    [] op.kind = "create" -> op.role \notin Protected
    [] op.kind = "duplicate" -> Exists(op.role) /\ op.new \notin Protected
    [] op.kind = "assign" -> Exists(op.role) /\ op.role \notin Protected
    [] OTHER -> Exists(op.role) /\ op.role \notin Protected

Touched(op) ==
  CASE op.kind = "toggle" -> GroupPerms[op.group]
    [] op.kind = "create" -> op.perms
    [] op.kind \in {"add", "remove"} -> {op.perm}
    [] OTHER -> roles[op.role].perms

\* An assignment also compares the role the user has now; a deletion counts the
\* users of the role; every other handler decides here.
ReadNew(q) ==
  /\ At(q, "new")
  /\ LET op == req[q].op
         next == CASE op.kind = "assign" -> "current"
                   [] op.kind = "delete" -> "count"
                   [] OTHER -> "audit"
     IN \/ /\ Named(op) /\ (op.kind # "assign" => Grantable(q, Touched(op)))
           /\ Set(q, [req[q] EXCEPT !.touched = Touched(op), !.pc = next])
        \/ /\ ~Named(op) \/ (op.kind # "assign" /\ ~Grantable(q, Touched(op)))
           /\ Finish(q)
        \/ "read" \in Faults /\ op.kind # "create" /\ Finish(q)
  /\ UNCHANGED <<now, Tables, cache, calls>>

\* checkRoleAssignment: neither role protected, not one's own, every permission
\* of the new and of the current role held.
MayAssign(q) ==
  /\ Exists(req[q].target) /\ req[q].target \notin Protected
  /\ req[q].op.user # req[q].actor
  /\ Grantable(q, req[q].touched \cup roles[req[q].target].perms)

ReadCurrent(q) ==
  /\ At(q, "current")
  /\ \/ MayAssign(q) /\ Goto(q, "audit")
     \/ ~MayAssign(q) /\ Finish(q)
     \/ "read" \in Faults /\ Finish(q)
  /\ UNCHANGED <<now, Tables, cache, calls>>

\* A count that cannot be read counts as no users.
CountUsers(q) ==
  /\ At(q, "count")
  /\ \/ (\E u \in Users : user[u].role = req[q].op.role) /\ Finish(q)
     \/ (\A u \in Users : user[u].role # req[q].op.role) /\ Goto(q, "audit")
     \/ "read" \in Faults /\ Goto(q, "audit")
  /\ UNCHANGED <<now, Tables, cache, calls>>

\* No record, no change.
Record(q) ==
  /\ At(q, "audit")
  /\ \/ Goto(q, "write")
     \/ "audit" \in Faults /\ Finish(q)
  /\ UNCHANGED <<now, Tables, cache, calls>>

\* An assignment forgets the user's permissions on this server, a toggle all of
\* this server's; no other change does.
Forget(s, us) == cache' = [cache EXCEPT ![s] = [u \in Users |->
                             IF u \in us THEN NoEntry ELSE cache[s][u]]]

WriteAssign(q) ==
  /\ At(q, "write") /\ req[q].op.kind = "assign"
  /\ LET op == req[q].op
     IN \* the foreign key refuses a role deleted meanwhile
        \/ /\ Exists(op.role)
           /\ user' = [user EXCEPT ![op.user].role = op.role]
           /\ Forget(req[q].server, {op.user})
        \/ ~Exists(op.role) /\ UNCHANGED <<user, cache>>
  /\ Finish(q) /\ UNCHANGED <<now, roles, group, calls>> /\ Remember

WriteEdit(q) ==
  /\ At(q, "write") /\ req[q].op.kind \in {"add", "remove"}
  /\ LET op == req[q].op
     IN roles' = [roles EXCEPT ![op.role].perms =
                    IF ~Exists(op.role) THEN @
                    ELSE IF op.kind = "add" THEN @ \cup {op.perm} ELSE @ \ {op.perm}]
  /\ Finish(q) /\ UNCHANGED <<now, user, group, cache, calls>> /\ Remember

\* A new role is inserted, its permissions after it; a duplicate reads those of
\* its source in between.
WriteCreate(q) ==
  /\ At(q, "write") /\ req[q].op.kind \in {"create", "duplicate"}
  /\ LET new == IF req[q].op.kind = "create" THEN req[q].op.role ELSE req[q].op.new
     IN \/ /\ roles[new].is = "new"
           /\ roles' = [roles EXCEPT ![new] = [is |-> "there", perms |-> {}]]
           /\ Goto(q, IF req[q].op.kind = "create" THEN "second" ELSE "source")
        \/ roles[new].is # "new" /\ Finish(q) /\ UNCHANGED roles
  /\ UNCHANGED <<now, user, group, cache, calls>> /\ Remember

ReadSource(q) ==
  /\ At(q, "source")
  /\ Set(q, [req[q] EXCEPT !.touched = roles[req[q].op.role].perms, !.pc = "second"])
  /\ UNCHANGED <<now, Tables, cache, calls>>

WritePerms(q) ==
  /\ At(q, "second") /\ req[q].op.kind \in {"create", "duplicate"}
  /\ LET new == IF req[q].op.kind = "create" THEN req[q].op.role ELSE req[q].op.new
     IN roles' = [roles EXCEPT ![new].perms =
                    IF Exists(new) THEN @ \cup req[q].touched ELSE @]
  /\ Finish(q) /\ UNCHANGED <<now, user, group, cache, calls>> /\ Remember

\* The permissions of the role go first; the foreign key then refuses to delete
\* a role that has got a user meanwhile.
WriteDelete(q) ==
  /\ At(q, "write") /\ req[q].op.kind = "delete"
  /\ roles' = [roles EXCEPT ![req[q].op.role].perms = {}]
  /\ Goto(q, "second") /\ UNCHANGED <<now, user, group, cache, calls>> /\ Remember

DeleteRole(q) ==
  /\ At(q, "second") /\ req[q].op.kind = "delete"
  /\ LET r == req[q].op.role
     IN roles' = [roles EXCEPT ![r] =
                    IF \E u \in Users : user[u].role = r THEN @
                    ELSE [is |-> "deleted", perms |-> {}]]
  /\ Finish(q) /\ UNCHANGED <<now, user, group, cache, calls>> /\ Remember

WriteToggle(q) ==
  /\ At(q, "write") /\ req[q].op.kind = "toggle"
  /\ group' = [group EXCEPT ![req[q].op.group].active = req[q].op.on]
  /\ Forget(req[q].server, Users)
  /\ Finish(q) /\ UNCHANGED <<now, user, roles, calls>> /\ Remember

WriteGrant(q) ==
  /\ At(q, "write") /\ req[q].op.kind \in {"grant", "revoke"}
  /\ LET op == req[q].op
     IN group' = [group EXCEPT ![op.group].holders =
                    IF op.kind = "grant" THEN @ \cup {op.user} ELSE @ \ {op.user}]
  /\ Finish(q) /\ UNCHANGED <<now, user, roles, cache, calls>> /\ Remember

(***************************************************************************)
(* A user's first request creates its row                                  *)
(***************************************************************************)
\* The row, and the role of a new account.
LookForRow(q) ==
  /\ At(q, "row")
  /\ LET new == user[req[q].actor].role = None /\ Exists(Free)
     IN \/ ~new /\ Finish(q)
        \/ new /\ Goto(q, "entry")
        \/ "read" \in Faults /\ Finish(q)
  /\ UNCHANGED <<now, Tables, cache, calls>>

RecordRow(q) ==
  /\ At(q, "entry")
  /\ \/ Goto(q, "insert")
     \/ "audit" \in Faults /\ Finish(q)
  /\ UNCHANGED <<now, Tables, cache, calls>>

\* The insert leaves a row that exists by now as it is, and is refused when the role
\* has been deleted meanwhile.
NewRow(u) == IF user[u].role = None THEN [role |-> Free, good |-> TRUE] ELSE user[u]

InsertRow(q) ==
  /\ At(q, "insert")
  /\ user' = [user EXCEPT ![req[q].actor] =
                 IF Exists(Free) THEN NewRow(req[q].actor) ELSE @]
  /\ Finish(q) /\ UNCHANGED <<now, roles, group, cache, calls>> /\ Remember

(***************************************************************************)
(* The world around                                                        *)
(***************************************************************************)
Tick == now < MaxTime /\ now' = now + 1 /\ UNCHANGED <<Tables, cache, req, calls>>

\* A moderation decision bans an account. (A restored one only may do more.)
Ban(u) ==
  /\ user[u].role # None /\ user[u].good
  /\ user' = [user EXCEPT ![u].good = FALSE]
  /\ UNCHANGED <<now, roles, group, cache, req, calls>> /\ Remember

\* A server process restarts: its cache and the requests it served are gone.
Restart(s) ==
  /\ "restart" \in Faults
  /\ cache' = [cache EXCEPT ![s] = [u \in Users |-> NoEntry]]
  /\ req' = [q \in Requests |-> IF req[q].server = s THEN Blank ELSE req[q]]
  /\ UNCHANGED <<now, Tables, calls>>

Step(q) ==
  \/ \E ask \in Asks, s \in Servers : Arrive(q, ask[1], s, ask[2])
  \/ ReadUser(q) \/ ReadDirect(q) \/ ReadInherited(q) \/ ReadGrants(q)
  \/ ReadGroups(q) \/ CheckStanding(q)
  \/ ReadTarget(q) \/ ReadNew(q) \/ ReadCurrent(q) \/ CountUsers(q) \/ Record(q)
  \/ WriteAssign(q) \/ WriteEdit(q) \/ WriteCreate(q) \/ ReadSource(q)
  \/ WritePerms(q) \/ WriteDelete(q) \/ DeleteRole(q) \/ WriteToggle(q)
  \/ WriteGrant(q) \/ LookForRow(q) \/ RecordRow(q) \/ InsertRow(q)

Next ==
  \/ \E q \in Requests : Step(q)
  \/ Tick
  \/ \E u \in Banned : Ban(u)
  \/ \E s \in Servers : Restart(s)

Spec == Init /\ [][Next]_vars

(***************************************************************************)
(* Properties                                                              *)
(***************************************************************************)

\* What a request is about, by where it is.
KindsAt(pc) ==
  CASE pc \in {"user", "direct", "inherited", "grants", "groups", "standing"} ->
         {"use", "assign", "add", "remove", "create", "delete", "duplicate", "toggle"}
    [] pc = "new" -> {"assign", "add", "remove", "create", "delete", "duplicate", "toggle"}
    [] pc \in {"target", "current"} -> {"assign"}
    [] pc = "count" -> {"delete"}
    [] pc = "source" -> {"duplicate"}
    [] pc = "second" -> {"create", "delete", "duplicate"}
    [] pc \in {"audit", "write"} ->
         {"assign", "add", "remove", "create", "delete", "duplicate", "toggle", "grant", "revoke"}
    [] pc \in {"row", "entry", "insert"} -> {"first"}
    [] OTHER -> {}

Facts ==
  [fact : {"role"}, user : Users, role : Roles]
    \cup [fact : {"permission"}, role : Roles, perm : Perms]
    \cup [fact : {"holder"}, group : Groups, user : Users]
    \cup [fact : {"active"}, group : Groups]

\* The types of the variables, and what a request is by where it is.
TypeOK ==
  /\ now \in 1..MaxTime /\ calls \in 0..MaxCalls
  /\ user \in [Users -> [role : Roles \cup {None}, good : BOOLEAN]]
  /\ roles \in [Roles -> [is : {"new", "there", "deleted"}, perms : SUBSET Perms]]
  /\ group \in [Groups -> [active : BOOLEAN, holders : SUBSET Users]]
  /\ cache \in [Servers -> [Users -> [perms : SUBSET Perms, until : 0..(MaxTime + TTL)]]]
  /\ req \in [Requests ->
       [pc : PC, actor : Users \cup {None}, server : Servers \cup {None}, op : AllOps \cup {None},
        start : 0..MaxTime, role : Roles \cup {None}, perms : SUBSET Perms, held : SUBSET Groups,
        target : Roles \cup {None}, touched : SUBSET Perms, good : BOOLEAN]]
  /\ \A q \in Requests : req[q].pc # "idle" =>
       /\ req[q].actor \in Users /\ req[q].server \in Servers /\ req[q].op \in AllOps
       /\ req[q].op.kind \in KindsAt(req[q].pc)
       /\ (req[q].pc \in {"direct", "inherited"} => req[q].role \in Roles)
       /\ (req[q].pc \in {"new", "current"} /\ req[q].op.kind = "assign" => req[q].target \in Roles)
  /\ gone \subseteq [what : Facts, at : 1..MaxTime]

\* What a user may do by the tables as they are.
Effective(u) ==
  IF user[u].role = None THEN {}
  ELSE roles[user[u].role].perms
         \cup (UNION {roles[r].perms : r \in Inherits[user[u].role]})
         \cup UNION {GroupPerms[g] : g \in {h \in HeldBy(u) : group[h].active}}

Inherited(r) == UNION {PermsOf[i] : i \in Inherits[r]}

\* What some user may do at the start, or may come to do where no rule compares a
\* permission: what the role of a new account gives, what an entitlement grants,
\* and what a role the API may assign inherits (the rules compare a role's own).
Authority ==
  (UNION {PermsOf[RoleOf[u]] \cup Inherited(RoleOf[u]) : u \in {v \in Users : RoleOf[v] # None}})
    \cup PermsOf[Free]
    \cup (UNION {Inherited(r) : r \in Roles \ Protected})
    \cup (UNION {GroupPerms[g] : g \in Groups})

\* Whatever administrators do to roles, users and groups, and however their
\* requests interleave, nobody comes to hold a permission that nobody held: in
\* the tables, in a cache or in a request on its way. No rule compares a change
\* with what is stored when the change is written, only with what was read.
Confined ==
  /\ \A u \in Users : Effective(u) \subseteq Authority
  /\ \A s \in Servers, u \in Users : cache[s][u].perms \subseteq Authority
  /\ \A q \in Requests : req[q].perms \subseteq Authority

\* The fact holds, or held less than a cache life ago, or since time t.
Recent(f, t) == True(f) \/ \E e \in gone : e.what = f /\ (e.at >= t \/ e.at + TTL > now)

\* The permission rests on facts of the tables that were recently true: a role
\* the user had and the permission it, or a role it inherits from, had; or a
\* group the user held, that was active and grants it.
Founded(u, p, t) ==
  \/ \E r \in Roles :
       /\ Recent([fact |-> "role", user |-> u, role |-> r], t)
       /\ \E i \in {r} \cup Inherits[r] :
            Recent([fact |-> "permission", role |-> i, perm |-> p], t)
  \/ \E g \in Groups :
       /\ p \in GroupPerms[g]
       /\ Recent([fact |-> "holder", group |-> g, user |-> u], t)
       /\ Recent([fact |-> "active", group |-> g], t)

\* What a cache answers rests on the tables as they were less than a cache life
\* ago, and what a request has resolved itself on the tables since it arrived. A
\* change is in force TTL after it was written, on every server, invalidated or
\* not, and however slow a resolution was (permissions-cache: 60 seconds).
PermissionsAgeOut ==
  /\ \A s \in Servers, u \in Users :
       cache[s][u].until > now =>
         \A p \in cache[s][u].perms : Founded(u, p, now + 1)
  /\ \A q \in Requests :
       req[q].pc \in {"direct", "inherited", "grants", "groups"} =>
         \A p \in req[q].perms : Founded(req[q].actor, p, req[q].start)

\* A role holds nothing beyond the authority, and neither do those it inherits from.
Clean(r) == roles[r].perms \subseteq Authority
Usable(r) == \A i \in {r} \cup Inherits[r] : Clean(i)

\* What users have is clean, what they may come to have too, and what a request found
\* within the rules is so when it writes.
RolesAreClean ==
  /\ \A u \in Users : user[u].role # None => Usable(user[u].role)
  /\ Clean(Free) /\ \A r \in Roles \ Protected : \A i \in Inherits[r] : Clean(i)
  /\ \A q \in Requests :
       /\ (req[q].pc \in {"direct", "inherited"} => Usable(req[q].role))
       /\ (req[q].pc \in {"count", "audit", "write", "source", "second"} =>
             req[q].touched \subseteq Authority)
       /\ (req[q].pc \in {"audit", "write"} /\ req[q].op.kind \in {"add", "remove"} =>
             req[q].op.perm \in Authority)
       /\ (req[q].pc \in {"audit", "write", "source"} /\ req[q].op.kind = "duplicate" =>
             Clean(req[q].op.role))
       /\ (req[q].pc = "current" => roles[req[q].op.role].perms \subseteq req[q].touched \cup Authority)
       /\ (req[q].pc \in {"audit", "write"} /\ req[q].op.kind = "assign" => Clean(req[q].op.role))
       /\ (req[q].pc \in {"current", "audit", "write"} /\ req[q].op.kind = "assign" =>
             req[q].op.role \notin Protected)

\* A role that does not exist has no permissions and no users.
OnlyRolesThatExist ==
  \A r \in Roles : roles[r].is # "there" =>
    roles[r].perms = {} /\ \A u \in Users : user[u].role # r

\* Nobody is in better standing than when the request arrived, and past the guard it
\* was good.
StandingIsKept ==
  /\ \A u \in Users : user[u].role = None => user[u].good
  /\ \A q \in Requests :
       /\ (req[q].pc # "idle" /\ user[req[q].actor].good => req[q].good)
       /\ (req[q].pc \in {"target", "new", "current", "source", "count", "audit", "write", "second"}
             /\ req[q].op.kind \notin {"grant", "revoke"} => req[q].good)

\* The fact holds, or held until some time since t; and a permission founded on such.
Since(f, t) == True(f) \/ \E e \in gone : e.what = f /\ e.at >= t

RoleSince(u, r, t) == Since([fact |-> "role", user |-> u, role |-> r], t)
PermSince(r, p, t) == Since([fact |-> "permission", role |-> r, perm |-> p], t)
HeldSince(u, g, t) == Since([fact |-> "holder", group |-> g, user |-> u], t)
ActiveSince(g, t) == Since([fact |-> "active", group |-> g], t)

FoundedSince(u, p, t) ==
  \/ \E r \in Roles : RoleSince(u, r, t) /\ \E i \in {r} \cup Inherits[r] : PermSince(i, p, t)
  \/ \E g \in Groups : p \in GroupPerms[g] /\ HeldSince(u, g, t) /\ ActiveSince(g, t)

\* What is cached was so since its resolution began, and what a request has found since
\* it arrived.
FoundSinceStart ==
  /\ \A s \in Servers, u \in Users :
       /\ cache[s][u].until <= now + TTL
       /\ \A p \in cache[s][u].perms : FoundedSince(u, p, cache[s][u].until - TTL)
  /\ \A q \in Requests :
       req[q].pc \in {"user", "direct", "inherited", "grants", "groups"} =>
         /\ req[q].start \in 1..now
         /\ \A p \in req[q].perms : FoundedSince(req[q].actor, p, req[q].start)
         /\ (req[q].pc \in {"direct", "inherited"} =>
               RoleSince(req[q].actor, req[q].role, req[q].start))
         /\ (req[q].pc = "groups" =>
               \A g \in req[q].held : HeldSince(req[q].actor, g, req[q].start))

\* What every step keeps.
IInv ==
  /\ TypeOK /\ OnlyRolesThatExist /\ RolesAreClean /\ StandingIsKept /\ FoundSinceStart
  /\ \A s \in Servers, u \in Users : cache[s][u].perms \subseteq Authority
  /\ \A q \in Requests : req[q].perms \subseteq Authority

\* What an administrator's request writes, it writes for somebody who was in good
\* standing when the request arrived: a ban takes effect at once on every later
\* request, whatever the caches hold (admin-guard).
WritesInGoodStanding ==
  \A q \in Requests :
    (req[q].pc \in {"write", "second"} /\ req'[q] # req[q]
       /\ req[q].op.kind \notin {"grant", "revoke"}
       /\ (roles' # roles \/ group' # group \/ user' # user))
      => req[q].good

\* A row that exists changes its role only by an assignment and its standing only
\* by a decision: two first requests at once, with an assignment or a ban between
\* the look-up of one and its insert, reset nothing (user-provisioning: it never
\* changes an existing row).
RowIsKept ==
  \A u \in Users :
    user[u].role # None /\ user'[u] # user[u] =>
      \/ Ban(u)
      \/ \E q \in Requests : /\ At(q, "write") /\ req[q].op.kind = "assign"
                             /\ req[q].op.user = u /\ user'[u].role = req[q].op.role
                             /\ user'[u].good = user[u].good
=============================================================================
