---------------------------- MODULE AdminConsole ----------------------------
(***************************************************************************)
(* The admin console: a command becomes a plan, the administrator picks    *)
(* actions of the plan and confirms, the server runs them                  *)
(* (app/admin/page.tsx; components/admin/AdminShell, AdminPromptBar,       *)
(* ActionConfirmPanel, ExecutionResultsPanel, HeldActionsPanel;            *)
(* app/api/admin/ai, ai/execute, ai/tool-permissions and approvals/[id]).  *)
(*                                                                         *)
(* The page never waits for one thing only: a plan may arrive while        *)
(* another one is executed, the administrator walks through the sections   *)
(* while a prompt, a decision or a read is under way, an answer may be     *)
(* lost while the server goes on, permissions change between the plan and  *)
(* its execution.  What the handlers do is AdminAccess's and               *)
(* ConfigApproval's; here an action runs, fails or is refused.             *)
(***************************************************************************)
EXTENDS Naturals, Sequences, FiniteSets

CONSTANTS
  Holds,     \* the held changes waiting at the start
  NoHold,
  Revocable, \* the permissions another administrator may take away meanwhile
  MaxPlan, MaxPrompts, MaxConfirms, MaxClicks, MaxReads,
  MaxMoves   \* bounds

\* Two of the sections: one whose panel only lists, and the pending approvals.
Sections == {"users", "approvals"}
Panels == Sections \cup {"roles"}
Perms == {"can_access_admin", "manage"}

VARIABLES
  moves,   \* what the administrator has done so far
  page,    \* the section shown, the panel whose data is read, the plan, its picked
           \* actions, the confirmation waited for, the results
  panel,   \* the approvals read so far and the rows shown of them
  prompt,  \* the prompt under way: what the planner was offered
  runs,    \* confirmation -> the request the page sent for it
  clicks,  \* click on a row -> the request the panel sent for it
  reads,   \* reads of the pending approvals under way
  server,  \* the administrator's permissions, the holds still pending
  log      \* ghost: what was picked at each confirmation, what ran

vars == <<moves, page, panel, prompt, runs, clicks, reads, server, log>>

\* What the constants are to satisfy (Services assumes it).
ConsoleAssumption ==
  {MaxPlan, MaxPrompts, MaxConfirms, MaxClicks, MaxReads, MaxMoves} \subseteq Nat /\ MaxPlan # 0

NoPlan == [no |-> 0, actions |-> {}]
Unread == [read |-> FALSE, holds |-> {}]

\* An action of a plan knows its place there.
Action == [tool : {"change_user_role", "approve_hold"}, hold : Holds \cup {NoHold},
           plan : 0..MaxPrompts, at : 1..MaxPlan]
Outcomes == {"done", "failed", "refused"}

TypeOK ==
  /\ moves \in 0..MaxMoves
  /\ page \in [section : Sections, active : Panels,
               plan : [no : 0..MaxPrompts, actions : SUBSET Action],
               picked : SUBSET (1..MaxPlan), waits : 0..MaxConfirms,
               refresh : 0..MaxReads, results : Seq(Outcomes), sent : 0..MaxConfirms]
  /\ panel \in [data : [read : BOOLEAN, holds : SUBSET Holds], rows : SUBSET Holds,
                busy : Holds \cup {NoHold}]
  /\ prompt \in [at : {"none", "sent", "planned"}, of : Sections, offered : SUBSET (Holds \cup {NoHold}),
                 count : 0..MaxPrompts]
  /\ runs \in [1..MaxConfirms ->
        [at : {"idle", "sent", "running", "answered"}, decision : BOOLEAN, active : Panels,
         todo : SUBSET Action, perms : SUBSET Perms, results : Seq(Outcomes), ok : BOOLEAN]]
  /\ clicks \in [1..MaxClicks -> [at : {"idle", "sent", "answered", "gone"},
                                  hold : Holds \cup {NoHold}, ok : BOOLEAN, live : BOOLEAN]]
  /\ reads \in [1..MaxReads -> [at : {"idle", "sent", "answered", "gone"}, got : SUBSET Holds,
                                live : BOOLEAN, of : Panels]]
  /\ server \in [perms : SUBSET Perms, pending : SUBSET Holds]
  /\ log \in [picked : [1..MaxConfirms -> SUBSET Action],
              ran : Seq([confirm : 0..MaxConfirms, action : Action, how : Outcomes])]

\* The shell opens on its first section; the page reads another panel's data.
Init ==
  /\ moves = 0
  /\ page = [section |-> "users", active |-> "roles", plan |-> NoPlan, picked |-> {},
             waits |-> 0, refresh |-> 0, results |-> <<>>, sent |-> 0]
  /\ panel = [data |-> Unread, rows |-> {}, busy |-> NoHold]
  /\ prompt = [at |-> "none", of |-> "users", offered |-> {}, count |-> 0]
  /\ runs = [c \in 1..MaxConfirms |->
               [at |-> "idle", decision |-> FALSE, active |-> "roles", todo |-> {}, perms |-> {},
                results |-> <<>>, ok |-> FALSE]]
  /\ clicks = [k \in 1..MaxClicks |->
                 [at |-> "idle", hold |-> NoHold, ok |-> FALSE, live |-> FALSE]]
  /\ reads = [i \in 1..MaxReads |-> [at |-> "idle", got |-> {}, live |-> FALSE, of |-> "roles"]]
  /\ server = [perms |-> Perms, pending |-> Holds]
  /\ log = [picked |-> [c \in 1..MaxConfirms |-> {}], ran |-> <<>>]

(***************************************************************************)
(* Sections and their data                                                 *)
(***************************************************************************)
\* The administrator does something.
Move == moves < MaxMoves /\ moves' = moves + 1

FreeRead(i) == reads[i].at = "idle" /\ \A j \in 1..(i - 1) : reads[j].at # "idle"

NewRead(i, of) == [reads EXCEPT ![i] = [at |-> "sent", got |-> {}, live |-> TRUE, of |-> of]]

\* The read of a panel that has been left no longer counts; a refresh's still does.
LeavePanel(r) == [i \in 1..MaxReads |->
                    IF i # page.refresh THEN [r[i] EXCEPT !.live = FALSE] ELSE r[i]]

\* The approvals panel starts from the data the page has; leaving it forgets its rows
\* and what they wait for.
OpenSection(s) ==
  /\ Move
  /\ s # page.section \/ s # page.active
  /\ page' = [page EXCEPT !.section = s, !.active = s]
  /\ IF s = "approvals"
     THEN /\ \E i \in 1..MaxReads :
               FreeRead(i) /\ reads' = [LeavePanel(reads) EXCEPT ![i] = NewRead(i, s)[i]]
          /\ panel' = [panel EXCEPT !.rows = panel.data.holds, !.busy = NoHold]
          /\ UNCHANGED clicks
     ELSE /\ reads' = LeavePanel(reads)
          /\ panel' = [panel EXCEPT !.rows = {}, !.busy = NoHold]
          /\ clicks' = [k \in 1..MaxClicks |-> [clicks[k] EXCEPT !.live = FALSE]]
  /\ UNCHANGED <<prompt, runs, server, log>>

\* Two stores hold pending changes; one that cannot be read lists none.
AnswerRead(i) ==
  /\ reads[i].at = "sent"
  /\ \E got \in SUBSET server.pending :
       reads' = [reads EXCEPT ![i].at = "answered", ![i].got = got]
  /\ UNCHANGED <<moves, page, panel, prompt, runs, clicks, server, log>>

\* Data replaces the rows shown; a read that failed leaves them; the end of a refresh
\* is the end of the confirmation.
ShowRead(i) ==
  /\ reads[i].at = "answered"
  /\ \/ /\ reads[i].live /\ reads[i].of = "approvals"
        /\ panel' = [panel EXCEPT !.data = [read |-> TRUE, holds |-> reads[i].got],
                       !.rows = IF page.section = "approvals" THEN reads[i].got ELSE @]
     \/ UNCHANGED panel
  /\ reads' = [reads EXCEPT ![i] = [at |-> "gone", got |-> {}, live |-> FALSE, of |-> "roles"]]
  /\ page' = IF page.refresh = i THEN [page EXCEPT !.refresh = 0, !.waits = 0] ELSE page
  /\ UNCHANGED <<moves, prompt, runs, clicks, server, log>>

(***************************************************************************)
(* From a command to a plan                                                *)
(***************************************************************************)
\* One prompt at a time; nothing else disables the bar.
Ask ==
  /\ Move
  /\ prompt.at = "none" /\ prompt.count < MaxPrompts
  /\ prompt' = [prompt EXCEPT !.at = "sent", !.of = page.section, !.count = @ + 1]
  /\ UNCHANGED <<page, panel, runs, clicks, reads, server, log>>

\* The planner is offered the section's tools the administrator may run: role changes,
\* or decisions on the holds pending now (NoHold stands for a tool that names none).
Plan ==
  /\ prompt.at = "sent"
  /\ prompt' = [prompt EXCEPT !.at = "planned",
       !.offered = IF "can_access_admin" \notin server.perms THEN {}
                   ELSE IF prompt.of = "approvals" THEN server.pending
                   ELSE IF "manage" \in server.perms THEN {NoHold} ELSE {}]
  /\ UNCHANGED <<moves, page, panel, runs, clicks, reads, server, log>>

ActionOf(hold, no, i) ==
  [tool |-> IF hold = NoHold THEN "change_user_role" ELSE "approve_hold", hold |-> hold,
   plan |-> no, at |-> i]

\* Every action of a new panel is picked; a panel already open keeps what was picked in
\* the plan before.  A failed command is a plan without actions.
PlanArrives(chosen) ==
  /\ prompt.at = "planned"
  /\ chosen \in UNION {[1..n -> prompt.offered] : n \in 0..MaxPlan}
  /\ prompt' = [prompt EXCEPT !.at = "none", !.of = "users", !.offered = {}]
  /\ page' = [page EXCEPT !.plan = [no |-> prompt.count,
                                    actions |-> {ActionOf(chosen[i], prompt.count, i) : i \in DOMAIN chosen}],
                !.picked = IF page.plan = NoPlan THEN DOMAIN chosen ELSE @,
                !.results = <<>>]
  /\ UNCHANGED <<moves, panel, runs, clicks, reads, server, log>>

\* The boxes are there for the actions of the plan shown.
Toggle(i) ==
  /\ Move
  /\ \E a \in page.plan.actions : a.at = i
  /\ page' = [page EXCEPT !.picked = IF i \in @ THEN @ \ {i} ELSE @ \cup {i}]
  /\ UNCHANGED <<panel, prompt, runs, clicks, reads, server, log>>

Cancel ==
  /\ Move
  /\ page.plan # NoPlan
  /\ page.plan.actions = {} \/ page.waits = 0
  /\ page' = [page EXCEPT !.plan = NoPlan, !.picked = {}]
  /\ UNCHANGED <<panel, prompt, runs, clicks, reads, server, log>>

Dismiss ==
  /\ Move
  /\ page.results # <<>>
  /\ page' = [page EXCEPT !.results = <<>>]
  /\ UNCHANGED <<panel, prompt, runs, clicks, reads, server, log>>

(***************************************************************************)
(* Confirmation and execution                                              *)
(***************************************************************************)
\* Mutant: the whole plan is sent.
WholePlan(plan, picked) == plan.actions

Selected(plan, picked) == {a \in plan.actions : a.at \in picked}

IsDecision(a) == a.tool = "approve_hold"

\* The first of some actions, in the order of their plan.
Leads(a, actions) == a \in actions /\ \A b \in actions : a.at <= b.at

\* The first decision picked goes to the decision route and alone; otherwise all that is
\* picked goes to the executor.
Sends(todo, chosen) ==
  LET decisions == {a \in chosen : IsDecision(a)}
  IN IF decisions = {} THEN todo = chosen ELSE \E a \in decisions : Leads(a, decisions) /\ todo = {a}

Confirm ==
  /\ Move
  /\ page.plan.actions # {} /\ page.picked # {} /\ page.waits = 0
  /\ page.sent < MaxConfirms
  /\ LET c == page.sent + 1
         chosen == Selected(page.plan, page.picked)
     IN /\ page' = [page EXCEPT !.waits = c, !.sent = c]
        /\ \E todo \in SUBSET chosen :
             /\ Sends(todo, chosen)
             /\ runs' = [runs EXCEPT ![c].at = "sent", ![c].active = page.active, ![c].todo = todo,
                                     ![c].decision = \E a \in todo : IsDecision(a)]
        /\ log' = [log EXCEPT !.picked[c] = {a \in page.plan.actions : a.at \in page.picked}]
  /\ UNCHANGED <<panel, prompt, clicks, reads, server>>

Refuse(c) == runs' = [runs EXCEPT ![c].at = "answered", ![c].ok = FALSE, ![c].todo = {}]

\* The routes verify the administrator once per request; the executor refuses an empty list.
Arrive(c) ==
  /\ runs[c].at = "sent"
  /\ IF "can_access_admin" \in server.perms /\ runs[c].todo # {}
     THEN runs' = [runs EXCEPT ![c].at = "running", ![c].perms = server.perms]
     ELSE Refuse(c)
  /\ UNCHANGED <<moves, page, panel, prompt, clicks, reads, server, log>>

Note(c, a, how) == log' = [log EXCEPT !.ran = Append(@, [confirm |-> c, action |-> a, how |-> how])]

\* Each action needs its page's permission; the first that does not succeed is the last.
Execute(c) ==
  /\ runs[c].at = "running" /\ ~runs[c].decision
  /\ \E a \in runs[c].todo :
       /\ Leads(a, runs[c].todo)
       /\ LET more == runs[c].todo \ {a}
          IN \E how \in IF "manage" \in runs[c].perms THEN {"done", "failed"} ELSE {"refused"} :
               /\ runs' = [runs EXCEPT ![c].results = Append(@, how), ![c].ok = TRUE,
                             ![c].todo = IF how = "done" THEN more ELSE {},
                             ![c].at = IF how = "done" /\ more # {} THEN @ ELSE "answered"]
               /\ Note(c, a, how)
  /\ UNCHANGED <<moves, page, panel, prompt, clicks, reads, server>>

\* A hold is decided once; a second decision, a missing permission or an audit failure
\* is an error, which the page shows as a result.
DecideHold(c) ==
  /\ runs[c].at = "running" /\ runs[c].decision
  /\ \E a \in runs[c].todo :
       \/ /\ a.hold \in server.pending /\ "manage" \in runs[c].perms
          /\ server' = [server EXCEPT !.pending = @ \ {a.hold}]
          /\ runs' = [runs EXCEPT ![c].at = "answered", ![c].ok = TRUE, ![c].todo = {},
                        ![c].results = <<"done">>]
          /\ Note(c, a, "done")
       \/ /\ runs' = [runs EXCEPT ![c].at = "answered", ![c].ok = TRUE, ![c].todo = {},
                        ![c].results = <<"failed">>]
          /\ UNCHANGED <<server, log>>
  /\ UNCHANGED <<moves, page, panel, prompt, clicks, reads>>

\* The answer: results in place of the plan shown by now, then the panel's data again,
\* of the panel shown at the confirmation.  Without results the plan stays.
ShowResults(c) ==
  /\ page.waits = c /\ page.refresh = 0 /\ runs[c].at = "answered"
  /\ IF runs[c].ok
     THEN \E i \in 1..MaxReads :
            /\ FreeRead(i) /\ reads' = NewRead(i, runs[c].active)
            /\ page' = [page EXCEPT !.results = runs[c].results, !.plan = NoPlan, !.picked = {},
                                    !.refresh = i]
     ELSE page' = [page EXCEPT !.waits = 0] /\ UNCHANGED reads
  /\ UNCHANGED <<moves, panel, prompt, runs, clicks, server, log>>

\* The answer does not come: the page stops waiting, the server does not know.
LoseAnswer(c) ==
  /\ page.waits = c /\ page.refresh = 0
  /\ page' = [page EXCEPT !.waits = 0]
  /\ UNCHANGED <<moves, panel, prompt, runs, clicks, reads, server, log>>

(***************************************************************************)
(* Decisions on the rows of the approvals panel                            *)
(***************************************************************************)
Decide(k, h) ==
  /\ Move
  /\ page.section = "approvals" /\ h \in panel.rows /\ panel.busy # h
  /\ clicks[k].at = "idle" /\ \A j \in 1..(k - 1) : clicks[j].at # "idle"
  /\ clicks' = [clicks EXCEPT ![k] = [at |-> "sent", hold |-> h, ok |-> FALSE, live |-> TRUE]]
  /\ panel' = [panel EXCEPT !.busy = h]
  /\ UNCHANGED <<page, prompt, runs, reads, server, log>>

DecideRow(k) ==
  /\ clicks[k].at = "sent"
  /\ LET h == clicks[k].hold
     IN \/ /\ h \in server.pending /\ Perms \subseteq server.perms
           /\ server' = [server EXCEPT !.pending = @ \ {h}]
           /\ clicks' = [clicks EXCEPT ![k].at = "answered", ![k].ok = TRUE]
           /\ Note(0, ActionOf(h, 0, 1), "done")
        \/ /\ clicks' = [clicks EXCEPT ![k].at = "answered"]
           /\ UNCHANGED <<server, log>>
  /\ UNCHANGED <<moves, page, panel, prompt, runs, reads>>

\* A row decided goes; a refusal, or an answer that does not come, is an error in its
\* row.  Either way no row is busy any more.
ShowDecision(k) ==
  /\ clicks[k].at = "answered"
  /\ clicks' = [clicks EXCEPT ![k] = [at |-> "gone", hold |-> NoHold, ok |-> FALSE, live |-> FALSE]]
  /\ IF ~clicks[k].live THEN UNCHANGED panel
     ELSE \E ok \in {clicks[k].ok, FALSE} :
            panel' = [panel EXCEPT !.rows = IF ok THEN @ \ {clicks[k].hold} ELSE @,
                                   !.busy = NoHold]
  /\ UNCHANGED <<moves, page, prompt, runs, reads, server, log>>

\* Another administrator takes a permission away.
Revoke(p) ==
  /\ p \in server.perms
  /\ server' = [server EXCEPT !.perms = @ \ {p}]
  /\ UNCHANGED <<moves, page, panel, prompt, runs, clicks, reads, log>>

Next ==
  \/ \E s \in Sections : OpenSection(s)
  \/ \E i \in 1..MaxReads : AnswerRead(i) \/ ShowRead(i)
  \/ Ask \/ Plan \/ Cancel \/ Dismiss \/ Confirm
  \/ \E n \in 0..MaxPlan : \E chosen \in [1..n -> prompt.offered] : PlanArrives(chosen)
  \/ \E i \in 1..MaxPlan : Toggle(i)
  \/ \E c \in 1..MaxConfirms :
       Arrive(c) \/ Execute(c) \/ DecideHold(c) \/ ShowResults(c) \/ LoseAnswer(c)
  \/ \E k \in 1..MaxClicks : DecideRow(k) \/ ShowDecision(k) \/ (\E h \in Holds : Decide(k, h))
  \/ \E p \in Revocable : Revoke(p)

Spec == Init /\ [][Next]_vars

(***************************************************************************)
(* What must hold                                                          *)
(***************************************************************************)
\* Whatever ran for a confirmation was picked, in the plan shown, when the
\* administrator confirmed; it ran once for that confirmation, in the plan's order,
\* and nothing ran after an action that did not succeed.
OnlyConfirmedRuns ==
  \A k \in DOMAIN log.ran : log.ran[k].confirm # 0 =>
    LET e == log.ran[k]
    IN /\ e.action \in log.picked[e.confirm]
       /\ \A j \in 1..(k - 1) : log.ran[j].confirm = e.confirm =>
            log.ran[j].how = "done" /\ log.ran[j].action.at < e.action.at

(***************************************************************************)
(* What makes it hold                                                      *)
(***************************************************************************)
\* No two actions have the same place.
Placed(actions) == \A a, b \in actions : a.at = b.at => a = b

\* What is to do was picked; what was done of it came before, and succeeded.
DoneSoFar ==
  \A c \in 1..MaxConfirms :
    /\ runs[c].todo \subseteq log.picked[c] /\ Placed(runs[c].todo)
    /\ c > page.sent => runs[c].at = "idle"
    /\ \A k \in DOMAIN log.ran : log.ran[k].confirm = c =>
         /\ runs[c].at # "idle"
         /\ runs[c].at \in {"sent", "running"} =>
              log.ran[k].how = "done" /\ \A a \in runs[c].todo : log.ran[k].action.at < a.at

IInv == TypeOK /\ Placed(page.plan.actions) /\ DoneSoFar /\ OnlyConfirmedRuns

=============================================================================
