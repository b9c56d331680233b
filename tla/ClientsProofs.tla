---------------------------- MODULE ClientsProofs ----------------------------
(***************************************************************************)
(* Proofs about those of the Services whose other end is a browser (the    *)
(* admin console and the realtime channels), about the start and health of *)
(* the server behind them and about the voice pipeline, each for every     *)
(* value of its constants.  A service's variables are v1, v2, ... in the   *)
(* order its module declares them.                                         *)
(***************************************************************************)
EXTENDS Services, FiniteSetTheorems, SequenceTheorems, TLAPS

-----------------------------------------------------------------------------
(* The admin console.  v1: moves, v2: page, v3: panel, v4: prompt,         *)
(* v5: runs, v6: clicks, v7: reads, v8: server, v9: log.                   *)

\* Only the console's steps change its variables.
LEMMA ConsoleAlone ==
  ASSUME running = "console"
  PROVE  /\ ServicesInit => Console!Init
         /\ [ServicesNext]_<<running, vars, slots>> =>
              running' = running /\ [Console!Next]_(Console!vars)
  BY DEF ServicesInit, ServicesNext, In, slots, Console!vars

\* The bounds are natural numbers.
LEMMA ConsoleBounds ==
  /\ ForConsole.MaxPlan \in Nat /\ ForConsole.MaxPlan # 0 /\ ForConsole.MaxPrompts \in Nat
  /\ ForConsole.MaxConfirms \in Nat /\ ForConsole.MaxClicks \in Nat
  /\ ForConsole.MaxReads \in Nat /\ ForConsole.MaxMoves \in Nat
  BY ServicesAssumption DEF Console!ConsoleAssumption

\* The records of AdminConsole.
PlanShown == [no : 0..ForConsole.MaxPrompts, actions : SUBSET Console!Action]
ConsolePage ==
  [section : Console!Sections, active : Console!Panels, plan : PlanShown,
   picked : SUBSET (1..ForConsole.MaxPlan), waits : 0..ForConsole.MaxConfirms,
   refresh : 0..ForConsole.MaxReads, results : Seq(Console!Outcomes), sent : 0..ForConsole.MaxConfirms]
HoldsRead == [read : BOOLEAN, holds : SUBSET ForConsole.Holds]
ConsolePanel ==
  [data : HoldsRead, rows : SUBSET ForConsole.Holds, busy : ForConsole.Holds \cup {None}]
ConsolePrompt ==
  [at : {"none", "sent", "planned"}, of : Console!Sections,
   offered : SUBSET (ForConsole.Holds \cup {None}), count : 0..ForConsole.MaxPrompts]
ConsoleRun ==
  [at : {"idle", "sent", "running", "answered"}, decision : BOOLEAN, active : Console!Panels,
   todo : SUBSET Console!Action, perms : SUBSET Console!Perms, results : Seq(Console!Outcomes),
   ok : BOOLEAN]
ConsoleClick ==
  [at : {"idle", "sent", "answered", "gone"}, hold : ForConsole.Holds \cup {None}, ok : BOOLEAN,
   live : BOOLEAN]
ConsoleRead ==
  [at : {"idle", "sent", "answered", "gone"}, got : SUBSET ForConsole.Holds, live : BOOLEAN,
   of : Console!Panels]
ConsoleServer == [perms : SUBSET Console!Perms, pending : SUBSET ForConsole.Holds]
RanEntry ==
  [confirm : 0..ForConsole.MaxConfirms, action : Console!Action, how : Console!Outcomes]
PickedFor == [1..ForConsole.MaxConfirms -> SUBSET Console!Action]
ConsoleLog == [picked : PickedFor, ran : Seq(RanEntry)]

ConsoleTyped ==
  /\ v1 \in 0..ForConsole.MaxMoves /\ v2 \in ConsolePage /\ v3 \in ConsolePanel
  /\ v4 \in ConsolePrompt /\ v5 \in [1..ForConsole.MaxConfirms -> ConsoleRun]
  /\ v6 \in [1..ForConsole.MaxClicks -> ConsoleClick]
  /\ v7 \in [1..ForConsole.MaxReads -> ConsoleRead]
  /\ v8 \in ConsoleServer /\ v9 \in ConsoleLog

\* The type invariant, with its records named.
LEMMA ConsoleTypes ==
  (Console!TypeOK <=> ConsoleTyped) /\ (Console!TypeOK' <=> ConsoleTyped')
  BY DEF Console!TypeOK, ConsoleTyped, PlanShown, ConsolePage, HoldsRead, ConsolePanel, ConsolePrompt,
         ConsoleRun, ConsoleClick, ConsoleRead, ConsoleServer, RanEntry, PickedFor, ConsoleLog

\* The invariant holds of the page as it opens.
LEMMA ConsoleFirst == Console!Init => Console!IInv
<1> SUFFICES ASSUME Console!Init PROVE Console!IInv
  OBVIOUS
<1> DEFINE e == <<>>
<1>1. e \in Seq(Console!Outcomes) /\ e \in Seq(RanEntry) /\ DOMAIN e = {}
  OBVIOUS
<1>2. /\ v1 = 0
      /\ v2 = [section |-> "users", active |-> "roles", plan |-> Console!NoPlan, picked |-> {},
               waits |-> 0, refresh |-> 0, results |-> e, sent |-> 0]
      /\ v5 = [c \in 1..ForConsole.MaxConfirms |->
               [at |-> "idle", decision |-> FALSE, active |-> "roles", todo |-> {}, perms |-> {},
                results |-> e, ok |-> FALSE]]
      /\ v9 = [picked |-> [c \in 1..ForConsole.MaxConfirms |-> {}], ran |-> e]
  BY DEF Console!Init
<1> HIDE DEF e
<1>3. Console!NoPlan \in PlanShown /\ Console!NoPlan.actions = {}
  BY ConsoleBounds DEF Console!NoPlan, PlanShown
<1>4. v2 \in ConsolePage /\ v2.plan = Console!NoPlan /\ v1 \in 0..ForConsole.MaxMoves
  <2>1. /\ 0 \in 0..ForConsole.MaxConfirms /\ 0 \in 0..ForConsole.MaxReads
        /\ 0 \in 0..ForConsole.MaxMoves
    BY ConsoleBounds
  <2>2. v2.plan = Console!NoPlan
    BY <1>2
  <2>3. "users" \in Console!Sections /\ "roles" \in Console!Panels
    BY DEF Console!Sections, Console!Panels
  <2>4. {} \in SUBSET (1..ForConsole.MaxPlan)
    OBVIOUS
  <2>5. v2 \in ConsolePage
    BY <1>1, <1>2, <1>3, <2>1, <2>3, <2>4 DEF ConsolePage
  <2> QED BY <1>2, <2>1, <2>2, <2>5
<1>5. /\ v5 \in [1..ForConsole.MaxConfirms -> ConsoleRun]
      /\ \A c \in 1..ForConsole.MaxConfirms : v5[c].at = "idle" /\ v5[c].todo = {}
  BY <1>1, <1>2 DEF ConsoleRun, Console!Panels
<1>6. v9 \in ConsoleLog /\ v9.ran = e
  <2> DEFINE f == [c \in 1..ForConsole.MaxConfirms |-> {}]
  <2>1. f \in PickedFor
    BY DEF PickedFor
  <2>2. v9 = [picked |-> f, ran |-> e]
    BY <1>2
  <2> HIDE DEF f
  <2> QED BY <1>1, <2>1, <2>2 DEF ConsoleLog
<1>7. v3 \in ConsolePanel /\ v4 \in ConsolePrompt /\ v8 \in ConsoleServer
  BY ConsoleBounds DEF Console!Init, ConsolePanel, ConsolePrompt, ConsoleServer, HoldsRead,
                       Console!Unread, Console!Sections
<1>8. /\ v6 \in [1..ForConsole.MaxClicks -> ConsoleClick]
      /\ v7 \in [1..ForConsole.MaxReads -> ConsoleRead]
  BY DEF Console!Init, ConsoleClick, ConsoleRead, Console!Panels
<1>9. Console!TypeOK
  BY <1>4, <1>5, <1>6, <1>7, <1>8, ConsoleTypes DEF ConsoleTyped
<1>10. Console!Placed(v2.plan.actions) /\ Console!DoneSoFar /\ Console!OnlyConfirmedRuns
  <2>1. Console!Placed({})
    BY DEF Console!Placed
  <2>2. Console!Placed(v2.plan.actions)
    BY <1>3, <1>4, <2>1
  <2>3. Console!DoneSoFar
    BY <1>1, <1>5, <1>6, <2>1 DEF Console!DoneSoFar
  <2>4. Console!OnlyConfirmedRuns
    BY <1>1, <1>6 DEF Console!OnlyConfirmedRuns
  <2> QED BY <2>2, <2>3, <2>4
<1> QED BY <1>9, <1>10 DEF Console!IInv

\* Neither a confirmation nor what runs for one.
LEMMA ConsoleAside ==
  ASSUME Console!IInv, ConsoleTyped', UNCHANGED <<v5, v9>>, v2'.sent = v2.sent,
         Console!Placed(v2'.plan.actions)
  PROVE  Console!IInv'
<1>1. Console!DoneSoFar' /\ Console!OnlyConfirmedRuns'
  BY DEF Console!IInv, Console!DoneSoFar, Console!OnlyConfirmedRuns
<1>2. Console!Placed(v2.plan.actions)'
  BY DEF Console!Placed
<1> QED BY <1>1, <1>2, ConsoleTypes DEF Console!IInv

\* The page's fields.
LEMMA ConsolePageTyped ==
  ASSUME Console!IInv
  PROVE  /\ ConsoleTyped /\ v2.section \in Console!Sections
         /\ v2.active \in Console!Panels /\ v2.plan \in PlanShown
         /\ v2.plan.no \in 0..ForConsole.MaxPrompts /\ v2.plan.actions \subseteq Console!Action
         /\ v2.picked \subseteq 1..ForConsole.MaxPlan /\ v2.waits \in 0..ForConsole.MaxConfirms
         /\ v2.refresh \in 0..ForConsole.MaxReads /\ v2.results \in Seq(Console!Outcomes)
         /\ v2.sent \in 0..ForConsole.MaxConfirms
<1>1. ConsoleTyped
  BY ConsoleTypes DEF Console!IInv
<1>2. v2 \in ConsolePage
  BY <1>1 DEF ConsoleTyped
<1>3. v2.plan \in PlanShown
  BY <1>2 DEF ConsolePage
<1> QED BY <1>1, <1>2, <1>3 DEF ConsolePage, PlanShown

\* A move, or none.
LEMMA ConsoleMoves ==
  ASSUME Console!IInv, Console!Move \/ v1' = v1
  PROVE  v1' \in 0..ForConsole.MaxMoves
  BY ConsolePageTyped, ConsoleBounds DEF Console!Move, ConsoleTyped

\* The reads of the pending approvals, and those a section starts or leaves.
LEMMA ReadsTyped ==
  ASSUME Console!IInv
  PROVE  /\ v7 \in [1..ForConsole.MaxReads -> ConsoleRead]
         /\ \A i \in 1..ForConsole.MaxReads : v7[i] \in ConsoleRead /\ v7[i].got \subseteq ForConsole.Holds
         /\ Console!LeavePanel(v7) \in [1..ForConsole.MaxReads -> ConsoleRead]
         /\ \A i \in 1..ForConsole.MaxReads, p \in Console!Panels :
              Console!NewRead(i, p) \in [1..ForConsole.MaxReads -> ConsoleRead]
<1>1. v7 \in [1..ForConsole.MaxReads -> ConsoleRead]
  BY ConsolePageTyped DEF ConsoleTyped
<1>2. \A i \in 1..ForConsole.MaxReads :
        v7[i] \in ConsoleRead /\ [v7[i] EXCEPT !.live = FALSE] \in ConsoleRead
        /\ v7[i].got \subseteq ForConsole.Holds
  BY <1>1 DEF ConsoleRead
<1>3. Console!LeavePanel(v7) \in [1..ForConsole.MaxReads -> ConsoleRead]
  BY <1>2 DEF Console!LeavePanel
<1>4. ASSUME NEW i \in 1..ForConsole.MaxReads, NEW p \in Console!Panels
      PROVE  Console!NewRead(i, p) \in [1..ForConsole.MaxReads -> ConsoleRead]
  <2> DEFINE x == [at |-> "sent", got |-> {}, live |-> TRUE, of |-> p]
  <2>1. x \in ConsoleRead
    BY DEF ConsoleRead
  <2>2. Console!NewRead(i, p) = [v7 EXCEPT ![i] = x]
    BY DEF Console!NewRead
  <2> HIDE DEF x
  <2> QED BY <1>1, <2>1, <2>2
<1> QED BY <1>1, <1>2, <1>3, <1>4

\* The administrator opens a section.
LEMMA ConsoleOpens ==
  ASSUME Console!IInv, NEW s \in Console!Sections, Console!OpenSection(s)
  PROVE  Console!IInv'
<1>1. /\ v2' = [v2 EXCEPT !.section = s, !.active = s] /\ UNCHANGED <<v4, v5, v8, v9>>
      /\ v1' \in 0..ForConsole.MaxMoves
  BY ConsoleMoves DEF Console!OpenSection
<1>2. s \in Console!Panels
  BY DEF Console!Panels
<1>3. ConsoleTyped
  BY ConsolePageTyped
<1>4. v2' \in ConsolePage /\ v2'.sent = v2.sent /\ v2'.plan = v2.plan
  BY <1>1, <1>2, <1>3 DEF ConsoleTyped, ConsolePage
<1>5. v3' \in ConsolePanel
  <2>1. v3 \in ConsolePanel
    BY <1>3 DEF ConsoleTyped
  <2>2. v3.data.holds \subseteq ForConsole.Holds
    BY <2>1 DEF ConsolePanel, HoldsRead
  <2>3. \E shown \in SUBSET ForConsole.Holds : v3' = [v3 EXCEPT !.rows = shown, !.busy = None]
    BY <2>2 DEF Console!OpenSection
  <2> QED BY <2>1, <2>3 DEF ConsolePanel
<1>6. v7' \in [1..ForConsole.MaxReads -> ConsoleRead]
  <2>1. CASE v7' = Console!LeavePanel(v7)
    BY <2>1, ReadsTyped
  <2>2. ASSUME NEW i \in 1..ForConsole.MaxReads,
               v7' = [Console!LeavePanel(v7) EXCEPT ![i] = Console!NewRead(i, s)[i]]
        PROVE  v7' \in [1..ForConsole.MaxReads -> ConsoleRead]
    <3> DEFINE x == Console!NewRead(i, s)[i]
               f == Console!LeavePanel(v7)
    <3>1. x \in ConsoleRead /\ f \in [1..ForConsole.MaxReads -> ConsoleRead]
      BY <1>2, ReadsTyped
    <3>2. v7' = [f EXCEPT ![i] = x]
      BY <2>2
    <3> HIDE DEF x, f
    <3> QED BY <3>1, <3>2
  <2> QED BY <2>1, <2>2 DEF Console!OpenSection
<1>7. v6' \in [1..ForConsole.MaxClicks -> ConsoleClick]
  <2>1. \A k \in 1..ForConsole.MaxClicks : [v6[k] EXCEPT !.live = FALSE] \in ConsoleClick
    BY <1>3 DEF ConsoleTyped, ConsoleClick
  <2>2. v6' = v6 \/ v6' = [k \in 1..ForConsole.MaxClicks |-> [v6[k] EXCEPT !.live = FALSE]]
    BY DEF Console!OpenSection
  <2> QED BY <1>3, <2>1, <2>2 DEF ConsoleTyped
<1>8. ConsoleTyped'
  BY <1>1, <1>3, <1>4, <1>5, <1>6, <1>7 DEF ConsoleTyped
<1> QED BY <1>1, <1>4, <1>8, ConsoleAside DEF Console!IInv

\* Reads are answered and shown.
LEMMA ConsoleReads ==
  ASSUME Console!IInv, NEW i \in 1..ForConsole.MaxReads, Console!AnswerRead(i) \/ Console!ShowRead(i)
  PROVE  Console!IInv'
<1>1. ConsoleTyped
  BY ConsolePageTyped
<1>2. CASE Console!AnswerRead(i)
  <2>1. /\ UNCHANGED <<v1, v2, v3, v4, v5, v6, v8, v9>>
        /\ \E got \in SUBSET v8.pending : v7' = [v7 EXCEPT ![i].at = "answered", ![i].got = got]
    BY <1>2 DEF Console!AnswerRead
  <2>2. PICK got \in SUBSET ForConsole.Holds : v7' = [v7 EXCEPT ![i].at = "answered", ![i].got = got]
    BY <1>1, <2>1 DEF ConsoleTyped, ConsoleServer
  <2> DEFINE x == [v7[i] EXCEPT !.at = "answered", !.got = got]
  <2>3. x \in ConsoleRead
    BY ReadsTyped DEF ConsoleRead
  <2>4. v7' = [v7 EXCEPT ![i] = x]
    BY <2>2, ReadsTyped
  <2> HIDE DEF x
  <2>5. v7' \in [1..ForConsole.MaxReads -> ConsoleRead]
    BY <2>3, <2>4, ReadsTyped
  <2>6. ConsoleTyped'
    BY <1>1, <2>1, <2>5 DEF ConsoleTyped
  <2> QED BY <2>1, <2>6, ConsoleAside DEF Console!IInv
<1>3. CASE Console!ShowRead(i)
  <2>1. UNCHANGED <<v1, v4, v5, v6, v8, v9>>
    BY <1>3 DEF Console!ShowRead
  <2>2. v3' \in ConsolePanel
    <3>1. v3 \in ConsolePanel /\ v3.rows \subseteq ForConsole.Holds /\ v7[i].got \subseteq ForConsole.Holds
      BY <1>1, ReadsTyped DEF ConsoleTyped, ConsolePanel
    <3> DEFINE d == [read |-> TRUE, holds |-> v7[i].got]
    <3>2. d \in HoldsRead
      BY <3>1 DEF HoldsRead
    <3>3. v3' = v3 \/ \E shown \in SUBSET ForConsole.Holds : v3' = [v3 EXCEPT !.data = d, !.rows = shown]
      BY <1>3, <3>1 DEF Console!ShowRead
    <3> HIDE DEF d
    <3> QED BY <3>1, <3>2, <3>3 DEF ConsolePanel
  <2>3. v7' \in [1..ForConsole.MaxReads -> ConsoleRead]
    <3> DEFINE x == [at |-> "gone", got |-> {}, live |-> FALSE, of |-> "roles"]
    <3>1. x \in ConsoleRead
      BY DEF ConsoleRead, Console!Panels
    <3>2. v7' = [v7 EXCEPT ![i] = x]
      BY <1>3 DEF Console!ShowRead
    <3> HIDE DEF x
    <3> QED BY <3>1, <3>2, ReadsTyped
  <2>4. v2' \in ConsolePage /\ v2'.sent = v2.sent /\ v2'.plan = v2.plan
    <3>1. v2' = v2 \/ v2' = [v2 EXCEPT !.refresh = 0, !.waits = 0]
      BY <1>3 DEF Console!ShowRead
    <3>2. 0 \in 0..ForConsole.MaxConfirms /\ 0 \in 0..ForConsole.MaxReads
      BY ConsoleBounds
    <3> QED BY <1>1, <3>1, <3>2 DEF ConsoleTyped, ConsolePage
  <2>5. ConsoleTyped'
    BY <1>1, <2>1, <2>2, <2>3, <2>4 DEF ConsoleTyped
  <2> QED BY <2>1, <2>4, <2>5, ConsoleAside DEF Console!IInv
<1> QED BY <1>2, <1>3

\* The fields of a page that change.
LEMMA PageGoes ==
  ASSUME Console!IInv, ConsoleTyped, v1' \in 0..ForConsole.MaxMoves, v2' \in ConsolePage,
         v2'.sent = v2.sent, Console!Placed(v2'.plan.actions), v7' \in [1..ForConsole.MaxReads -> ConsoleRead],
         v4' \in ConsolePrompt, UNCHANGED <<v3, v5, v6, v8, v9>>
  PROVE  Console!IInv'
<1>1. ConsoleTyped'
  BY DEF ConsoleTyped
<1> QED BY <1>1, ConsoleAside

\* A plan arrives: its actions have places of their own.
LEMMA ConsolePlans ==
  ASSUME Console!IInv, NEW chosen, Console!PlanArrives(chosen)
  PROVE  Console!IInv'
<1>1. ConsoleTyped /\ v4 \in ConsolePrompt /\ v4.count \in 0..ForConsole.MaxPrompts
      /\ v4.offered \subseteq ForConsole.Holds \cup {None}
  BY ConsolePageTyped DEF ConsoleTyped, ConsolePrompt
<1>2. PICK n \in 0..ForConsole.MaxPlan : chosen \in [1..n -> v4.offered]
  BY DEF Console!PlanArrives
<1> DEFINE actions == {Console!ActionOf(chosen[i], v4.count, i) : i \in DOMAIN chosen}
           plan == [no |-> v4.count, actions |-> actions]
           picked == IF v2.plan = Console!NoPlan THEN DOMAIN chosen ELSE v2.picked
           e == <<>>
<1>3. /\ v2' = [v2 EXCEPT !.plan = plan, !.picked = picked, !.results = e]
      /\ v4' = [v4 EXCEPT !.at = "none", !.of = "users", !.offered = {}]
      /\ UNCHANGED <<v1, v3, v5, v6, v7, v8, v9>>
  BY DEF Console!PlanArrives
<1>4. ASSUME NEW i \in DOMAIN chosen
      PROVE  /\ Console!ActionOf(chosen[i], v4.count, i) \in Console!Action
             /\ Console!ActionOf(chosen[i], v4.count, i).at = i
  <2>1. chosen[i] \in ForConsole.Holds \cup {None} /\ i \in 1..ForConsole.MaxPlan
    BY <1>1, <1>2, ConsoleBounds
  <2> DEFINE t == IF chosen[i] = None THEN "change_user_role" ELSE "approve_hold"
  <2>2. t \in {"change_user_role", "approve_hold"}
    OBVIOUS
  <2>3. Console!ActionOf(chosen[i], v4.count, i)
          = [tool |-> t, hold |-> chosen[i], plan |-> v4.count, at |-> i]
    BY DEF Console!ActionOf
  <2> HIDE DEF t
  <2> QED BY <1>1, <2>1, <2>2, <2>3 DEF Console!Action
<1>5. actions \subseteq Console!Action /\ Console!Placed(actions)
  BY <1>4 DEF Console!Placed
<1>6. picked \subseteq 1..ForConsole.MaxPlan
  <2>1. DOMAIN chosen \subseteq 1..ForConsole.MaxPlan
    BY <1>2, ConsoleBounds
  <2> QED BY <2>1, ConsolePageTyped
<1>7. plan \in PlanShown /\ plan.actions = actions
  <2> HIDE DEF actions
  <2> QED BY <1>1, <1>5 DEF PlanShown
<1>8. e \in Seq(Console!Outcomes)
  OBVIOUS
<1> HIDE DEF plan, picked, e, actions
<1>9. v2' \in ConsolePage /\ v2'.sent = v2.sent /\ v2'.plan = plan
  BY <1>1, <1>3, <1>6, <1>7, <1>8 DEF ConsoleTyped, ConsolePage
<1>10. v4' \in ConsolePrompt
  BY <1>1, <1>3 DEF ConsolePrompt, Console!Sections
<1> QED BY <1>1, <1>3, <1>5, <1>7, <1>9, <1>10, PageGoes DEF ConsoleTyped

\* A command is asked for and planned.
LEMMA ConsoleAsks ==
  ASSUME Console!IInv, Console!Ask \/ Console!Plan
  PROVE  Console!IInv'
<1>1. ConsoleTyped /\ v4 \in ConsolePrompt /\ v8.pending \subseteq ForConsole.Holds
  BY ConsolePageTyped DEF ConsoleTyped, ConsoleServer
<1>2. v1' \in 0..ForConsole.MaxMoves /\ UNCHANGED <<v2, v3, v5, v6, v7, v8, v9>>
  BY ConsoleMoves DEF Console!Ask, Console!Plan
<1>3. v4' \in ConsolePrompt
  <2>1. CASE Console!Ask
    <3>1. v2.section \in Console!Sections
      BY ConsolePageTyped
    <3>2. v4.count \in 0..ForConsole.MaxPrompts /\ v4.count < ForConsole.MaxPrompts
      BY <1>1, <2>1 DEF ConsolePrompt, Console!Ask
    <3>3. v4.count + 1 \in 0..ForConsole.MaxPrompts
      BY <3>2, ConsoleBounds
    <3>4. v4' = [v4 EXCEPT !.at = "sent", !.of = v2.section, !.count = v4.count + 1]
      BY <2>1 DEF Console!Ask
    <3> QED BY <1>1, <3>1, <3>3, <3>4 DEF ConsolePrompt
  <2>2. CASE Console!Plan
    <3>1. \E offered \in SUBSET (ForConsole.Holds \cup {None}) :
            v4' = [v4 EXCEPT !.at = "planned", !.offered = offered]
      BY <1>1, <2>2 DEF Console!Plan
    <3> QED BY <1>1, <3>1 DEF ConsolePrompt
  <2> QED BY <2>1, <2>2
<1> QED BY <1>1, <1>2, <1>3, PageGoes DEF ConsoleTyped, Console!IInv

\* The page turns over: what is picked, a plan left, results shown or dismissed.
LEMMA ConsoleTurns ==
  ASSUME Console!IInv,
         \/ \E i \in 1..ForConsole.MaxPlan : Console!Toggle(i)
         \/ Console!Cancel \/ Console!Dismiss
         \/ \E c \in 1..ForConsole.MaxConfirms : Console!ShowResults(c) \/ Console!LoseAnswer(c)
  PROVE  Console!IInv'
<1>1. ConsoleTyped /\ v4 \in ConsolePrompt /\ v7 \in [1..ForConsole.MaxReads -> ConsoleRead]
      /\ v2 \in ConsolePage /\ 0 \in 0..ForConsole.MaxConfirms
  BY ConsolePageTyped, ConsoleBounds DEF ConsoleTyped
<1>2. Console!NoPlan \in PlanShown /\ Console!Placed(Console!NoPlan.actions)
  BY ConsoleBounds DEF Console!NoPlan, PlanShown, Console!Placed
<1> DEFINE e == <<>>
<1>3. e \in Seq(Console!Outcomes)
  OBVIOUS
<1>4. UNCHANGED <<v3, v4, v5, v6, v8, v9>> /\ v1' \in 0..ForConsole.MaxMoves
  BY ConsoleMoves DEF Console!Toggle, Console!Cancel, Console!Dismiss, Console!ShowResults,
                      Console!LoseAnswer
<1>5. ASSUME NEW i \in 1..ForConsole.MaxPlan, Console!Toggle(i) PROVE Console!IInv'
  <2> DEFINE picked == IF i \in v2.picked THEN v2.picked \ {i} ELSE v2.picked \cup {i}
  <2>1. v2' = [v2 EXCEPT !.picked = picked] /\ v7' = v7
    BY <1>5 DEF Console!Toggle
  <2>2. picked \subseteq 1..ForConsole.MaxPlan
    BY ConsolePageTyped
  <2> HIDE DEF picked
  <2>3. v2' \in ConsolePage /\ v2'.sent = v2.sent /\ v2'.plan = v2.plan
    BY <1>1, <2>1, <2>2 DEF ConsolePage
  <2> QED BY <1>1, <1>4, <2>1, <2>3, PageGoes DEF Console!IInv
<1>6. CASE Console!Cancel
  <2>1. v2' = [v2 EXCEPT !.plan = Console!NoPlan, !.picked = {}] /\ v7' = v7
    BY <1>6 DEF Console!Cancel
  <2>2. {} \subseteq 1..ForConsole.MaxPlan
    OBVIOUS
  <2>3. v2' \in ConsolePage /\ v2'.sent = v2.sent /\ v2'.plan = Console!NoPlan
    BY <1>1, <1>2, <2>1, <2>2 DEF ConsolePage
  <2> QED BY <1>1, <1>2, <1>4, <2>1, <2>3, PageGoes
<1>7. CASE Console!Dismiss
  <2>1. v2' = [v2 EXCEPT !.results = e] /\ v7' = v7
    BY <1>7 DEF Console!Dismiss
  <2> HIDE DEF e
  <2>3. v2' \in ConsolePage /\ v2'.sent = v2.sent /\ v2'.plan = v2.plan
    BY <1>1, <1>3, <2>1 DEF ConsolePage
  <2> QED BY <1>1, <1>4, <2>1, <2>3, PageGoes DEF Console!IInv
<1>8. ASSUME NEW c \in 1..ForConsole.MaxConfirms, Console!LoseAnswer(c) PROVE Console!IInv'
  <2>1. v2' = [v2 EXCEPT !.waits = 0] /\ v7' = v7
    BY <1>8 DEF Console!LoseAnswer
  <2>3. v2' \in ConsolePage /\ v2'.sent = v2.sent /\ v2'.plan = v2.plan
    BY <1>1, <2>1 DEF ConsolePage
  <2> QED BY <1>1, <1>4, <2>1, <2>3, PageGoes DEF Console!IInv
<1>9. ASSUME NEW c \in 1..ForConsole.MaxConfirms, Console!ShowResults(c) PROVE Console!IInv'
  <2>1. CASE v2' = [v2 EXCEPT !.waits = 0] /\ v7' = v7
    <3>1. v2' \in ConsolePage /\ v2'.sent = v2.sent /\ v2'.plan = v2.plan
      BY <1>1, <2>1 DEF ConsolePage
    <3> QED BY <1>1, <1>4, <2>1, <3>1, PageGoes DEF Console!IInv
  <2>2. ASSUME NEW i \in 1..ForConsole.MaxReads, v7' = Console!NewRead(i, v5[c].active),
               v2' = [v2 EXCEPT !.results = v5[c].results, !.plan = Console!NoPlan, !.picked = {},
                                !.refresh = i]
        PROVE  Console!IInv'
    <3>1. v5[c].active \in Console!Panels /\ v5[c].results \in Seq(Console!Outcomes)
      BY <1>1 DEF ConsoleTyped, ConsoleRun
    <3>2. v7' \in [1..ForConsole.MaxReads -> ConsoleRead]
      BY <2>2, <3>1, ReadsTyped
    <3>3. i \in 0..ForConsole.MaxReads /\ {} \subseteq 1..ForConsole.MaxPlan
      BY ConsoleBounds
    <3>4. v2' \in ConsolePage /\ v2'.sent = v2.sent /\ v2'.plan = Console!NoPlan
      BY <1>1, <1>2, <2>2, <3>1, <3>3 DEF ConsolePage
    <3> QED BY <1>1, <1>2, <1>4, <3>2, <3>4, PageGoes
  <2> QED BY <1>9, <2>1, <2>2 DEF Console!ShowResults
<1> QED BY <1>5, <1>6, <1>7, <1>8, <1>9

\* The rows of the approvals panel, and a permission taken away.
LEMMA ConsoleRows ==
  ASSUME Console!IInv,
         \/ \E k \in 1..ForConsole.MaxClicks :
              Console!ShowDecision(k) \/ \E h \in ForConsole.Holds : Console!Decide(k, h)
         \/ \E p \in ForConsole.Revocable : Console!Revoke(p)
  PROVE  Console!IInv'
<1>1. ConsoleTyped /\ v3 \in ConsolePanel /\ v6 \in [1..ForConsole.MaxClicks -> ConsoleClick]
      /\ v8 \in ConsoleServer
  BY ConsolePageTyped DEF ConsoleTyped
<1>2. UNCHANGED <<v2, v4, v5, v7, v9>> /\ v1' \in 0..ForConsole.MaxMoves
  BY ConsoleMoves DEF Console!ShowDecision, Console!Decide, Console!Revoke
<1>3. v3' \in ConsolePanel /\ v6' \in [1..ForConsole.MaxClicks -> ConsoleClick]
      /\ v8' \in ConsoleServer
  <2>1. ASSUME NEW k \in 1..ForConsole.MaxClicks, NEW h \in ForConsole.Holds, Console!Decide(k, h)
        PROVE  /\ v3' \in ConsolePanel /\ v6' \in [1..ForConsole.MaxClicks -> ConsoleClick] /\ v8' = v8
    <3> DEFINE x == [at |-> "sent", hold |-> h, ok |-> FALSE, live |-> TRUE]
    <3>1. x \in ConsoleClick
      BY DEF ConsoleClick
    <3>2. v6' = [v6 EXCEPT ![k] = x] /\ v3' = [v3 EXCEPT !.busy = h] /\ v8' = v8
      BY <2>1 DEF Console!Decide
    <3> HIDE DEF x
    <3>3. v3' \in ConsolePanel
      BY <1>1, <3>2 DEF ConsolePanel
    <3> QED BY <1>1, <3>1, <3>2, <3>3
  <2>2. ASSUME NEW k \in 1..ForConsole.MaxClicks, Console!ShowDecision(k)
        PROVE  /\ v3' \in ConsolePanel /\ v6' \in [1..ForConsole.MaxClicks -> ConsoleClick] /\ v8' = v8
    <3> DEFINE x == [at |-> "gone", hold |-> None, ok |-> FALSE, live |-> FALSE]
    <3>1. x \in ConsoleClick
      BY DEF ConsoleClick
    <3>2. v6' = [v6 EXCEPT ![k] = x] /\ v8' = v8
      BY <2>2 DEF Console!ShowDecision
    <3>3. v3' = v3 \/ \E shown \in SUBSET ForConsole.Holds : v3' = [v3 EXCEPT !.rows = shown, !.busy = None]
      <4>1. v3.rows \subseteq ForConsole.Holds
        BY <1>1 DEF ConsolePanel
      <4> QED BY <2>2, <4>1 DEF Console!ShowDecision
    <3> HIDE DEF x
    <3>4. v3' \in ConsolePanel
      BY <1>1, <3>3 DEF ConsolePanel
    <3> QED BY <1>1, <3>1, <3>2, <3>4
  <2>3. ASSUME NEW p \in ForConsole.Revocable, Console!Revoke(p)
        PROVE  v8' \in ConsoleServer /\ UNCHANGED <<v3, v6>>
    BY <1>1, <2>3 DEF Console!Revoke, ConsoleServer
  <2> QED BY <1>1, <2>1, <2>2, <2>3
<1>4. ConsoleTyped'
  BY <1>1, <1>2, <1>3 DEF ConsoleTyped
<1> QED BY <1>2, <1>4, ConsoleAside DEF Console!IInv

\* The confirmations and what ran for them.
LEMMA RunsTyped ==
  ASSUME Console!IInv
  PROVE  /\ v5 \in [1..ForConsole.MaxConfirms -> ConsoleRun]
         /\ \A c \in 1..ForConsole.MaxConfirms :
              /\ v5[c] \in ConsoleRun /\ v5[c].todo \subseteq Console!Action
              /\ v5[c].todo \subseteq v9.picked[c]
              /\ Console!Placed(v5[c].todo) /\ (c > v2.sent => v5[c].at = "idle")
         /\ v9 \in ConsoleLog /\ v9.picked \in PickedFor /\ v9.ran \in Seq(RanEntry)
         /\ Len(v9.ran) \in Nat /\ DOMAIN v9.ran = 1..Len(v9.ran)
         /\ \A k \in DOMAIN v9.ran : v9.ran[k] \in RanEntry
<1>1. v5 \in [1..ForConsole.MaxConfirms -> ConsoleRun] /\ v9 \in ConsoleLog
  BY ConsolePageTyped DEF ConsoleTyped
<1>2. \A c \in 1..ForConsole.MaxConfirms : v5[c] \in ConsoleRun /\ v5[c].todo \subseteq Console!Action
  BY <1>1 DEF ConsoleRun
<1>3. v9.picked \in PickedFor /\ v9.ran \in Seq(RanEntry)
  BY <1>1 DEF ConsoleLog
<1>4. /\ Len(v9.ran) \in Nat /\ DOMAIN v9.ran = 1..Len(v9.ran)
      /\ \A k \in DOMAIN v9.ran : v9.ran[k] \in RanEntry
  <2> DEFINE s == v9.ran
  <2>1. s \in Seq(RanEntry)
    BY <1>3
  <2> HIDE DEF s
  <2>2. Len(s) \in Nat /\ DOMAIN s = 1..Len(s) /\ \A k \in DOMAIN s : s[k] \in RanEntry
    BY <2>1
  <2> QED BY <2>2 DEF s
<1>5. \A c \in 1..ForConsole.MaxConfirms :
        /\ v5[c].todo \subseteq v9.picked[c]
        /\ Console!Placed(v5[c].todo) /\ (c > v2.sent => v5[c].at = "idle")
  BY DEF Console!IInv, Console!DoneSoFar
<1> QED BY <1>1, <1>2, <1>3, <1>4, <1>5

\* One more entry of the log.
LEMMA OneMoreRan ==
  ASSUME Console!IInv, NEW c \in 0..ForConsole.MaxConfirms, NEW a \in Console!Action,
         NEW how \in Console!Outcomes, Console!Note(c, a, how)
  PROVE  LET n == Len(v9.ran) + 1
         IN /\ v9' \in ConsoleLog /\ v9'.picked = v9.picked
            /\ DOMAIN v9'.ran = 1..n /\ n \in Nat
            /\ \A k \in DOMAIN v9.ran : k < n /\ v9'.ran[k] = v9.ran[k]
            /\ \A k \in 1..n : k # n => k \in DOMAIN v9.ran
            /\ v9'.ran[n].confirm = c /\ v9'.ran[n].action = a /\ v9'.ran[n].how = how
<1> DEFINE e == [confirm |-> c, action |-> a, how |-> how]
           s == v9.ran
           t == Append(s, e)
<1>1. e \in RanEntry /\ e.confirm = c /\ e.action = a /\ e.how = how
  BY DEF RanEntry
<1>2. s \in Seq(RanEntry)
  BY RunsTyped
<1>3. v9' = [v9 EXCEPT !.ran = t]
  BY DEF Console!Note
<1> HIDE DEF e, s
<1>4. /\ t \in Seq(RanEntry) /\ DOMAIN t = 1..(Len(s) + 1) /\ Len(s) + 1 \in Nat
      /\ \A k \in DOMAIN s : k < Len(s) + 1 /\ t[k] = s[k]
      /\ \A k \in 1..(Len(s) + 1) : k # Len(s) + 1 => k \in DOMAIN s
      /\ t[Len(s) + 1] = e
  BY <1>1, <1>2
<1> HIDE DEF t
<1>5. v9' \in ConsoleLog /\ v9'.picked = v9.picked /\ v9'.ran = t
  BY <1>3, <1>4, RunsTyped DEF ConsoleLog
<1>6. v9'.ran[Len(s) + 1] = e
  BY <1>4, <1>5
<1> QED BY <1>1, <1>4, <1>5, <1>6 DEF s

\* A confirmation goes on, and nothing runs.
LEMMA RunGoes ==
  ASSUME Console!IInv, ConsoleTyped', UNCHANGED <<v2, v9>>, NEW c \in 1..ForConsole.MaxConfirms,
         v5[c].at # "idle", v5'[c].at # "idle", v5'[c].todo \subseteq v5[c].todo,
         v5'[c].at \in {"sent", "running"} => v5[c].at \in {"sent", "running"},
         \A d \in 1..ForConsole.MaxConfirms : d # c => v5'[d] = v5[d]
  PROVE  Console!IInv'
<1>1. Console!OnlyConfirmedRuns'
  BY DEF Console!IInv, Console!OnlyConfirmedRuns
<1>2. Console!Placed(v2.plan.actions)'
  BY DEF Console!IInv, Console!Placed
<1>3. Console!DoneSoFar'
  <2> SUFFICES ASSUME NEW d \in 1..ForConsole.MaxConfirms
               PROVE  /\ v5'[d].todo \subseteq v9.picked[d] /\ Console!Placed(v5'[d].todo)
                      /\ d > v2.sent => v5'[d].at = "idle"
                      /\ \A k \in DOMAIN v9.ran : v9.ran[k].confirm = d =>
                           /\ v5'[d].at # "idle"
                           /\ v5'[d].at \in {"sent", "running"} =>
                                /\ v9.ran[k].how = "done"
                                /\ \A a \in v5'[d].todo : v9.ran[k].action.at < a.at
    BY DEF Console!DoneSoFar, Console!Placed
  <2>1. CASE d # c
    BY <2>1 DEF Console!IInv, Console!DoneSoFar
  <2>2. CASE d = c
    <3>1. v5'[d].todo \subseteq v9.picked[d] /\ Console!Placed(v5'[d].todo)
      BY <2>2, RunsTyped DEF Console!Placed
    <3>2. d > v2.sent => v5'[d].at = "idle"
      BY <2>2, RunsTyped
    <3>3. \A k \in DOMAIN v9.ran : v9.ran[k].confirm = d /\ v5[d].at \in {"sent", "running"} =>
              v9.ran[k].how = "done" /\ \A a \in v5[d].todo : v9.ran[k].action.at < a.at
      BY DEF Console!IInv, Console!DoneSoFar
    <3> QED BY <2>2, <3>1, <3>2, <3>3
  <2> QED BY <2>1, <2>2
<1> QED BY <1>1, <1>2, <1>3, ConsoleTypes DEF Console!IInv

\* An action of a confirmation runs: the first of those left.
LEMMA RunRuns ==
  ASSUME Console!IInv, ConsoleTyped', v2' = v2, NEW c \in 1..ForConsole.MaxConfirms,
         v5[c].at = "running", v5'[c].at # "idle", v5'[c].todo \subseteq v5[c].todo,
         NEW a \in v5[c].todo, NEW how \in Console!Outcomes, Console!Note(c, a, how),
         v5'[c].at \in {"sent", "running"} => how = "done" /\ \A b \in v5'[c].todo : a.at < b.at,
         \A d \in 1..ForConsole.MaxConfirms : d # c => v5'[d] = v5[d]
  PROVE  Console!IInv'
<1> DEFINE n == Len(v9.ran) + 1
<1>1. a \in Console!Action /\ a \in v9.picked[c] /\ c \in 0..ForConsole.MaxConfirms /\ c # 0
  BY RunsTyped, ConsoleBounds
<1>2. /\ v9'.picked = v9.picked /\ DOMAIN v9'.ran = 1..n /\ n \in Nat
      /\ \A k \in DOMAIN v9.ran : k < n /\ v9'.ran[k] = v9.ran[k]
      /\ \A k \in 1..n : k # n => k \in DOMAIN v9.ran
      /\ v9'.ran[n].confirm = c /\ v9'.ran[n].action = a /\ v9'.ran[n].how = how
  BY <1>1, OneMoreRan
<1> HIDE DEF n
<1>3. \A k \in DOMAIN v9.ran : v9.ran[k].confirm = c =>
        v9.ran[k].how = "done" /\ \A b \in v5[c].todo : v9.ran[k].action.at < b.at
  BY DEF Console!IInv, Console!DoneSoFar
<1>4. Console!OnlyConfirmedRuns'
  <2> SUFFICES ASSUME NEW k \in DOMAIN v9'.ran, v9'.ran[k].confirm # 0
               PROVE  /\ v9'.ran[k].action \in v9'.picked[v9'.ran[k].confirm]
                      /\ \A j \in 1..(k - 1) : v9'.ran[j].confirm = v9'.ran[k].confirm =>
                           v9'.ran[j].how = "done" /\ v9'.ran[j].action.at < v9'.ran[k].action.at
    BY DEF Console!OnlyConfirmedRuns
  <2>1. CASE k = n
    <3>1. \A j \in 1..(k - 1) : j \in DOMAIN v9.ran
      BY <1>2, <2>1
    <3> QED BY <1>1, <1>2, <1>3, <2>1, <3>1
  <2>2. CASE k # n
    <3>1. k \in DOMAIN v9.ran /\ v9'.ran[k] = v9.ran[k]
      BY <1>2, <2>2
    <3>2. \A j \in 1..(k - 1) : j \in DOMAIN v9.ran /\ v9'.ran[j] = v9.ran[j]
      BY <1>2, <3>1, RunsTyped
    <3>3. /\ v9.ran[k].action \in v9.picked[v9.ran[k].confirm]
          /\ \A j \in 1..(k - 1) : v9.ran[j].confirm = v9.ran[k].confirm =>
               v9.ran[j].how = "done" /\ v9.ran[j].action.at < v9.ran[k].action.at
      BY <3>1 DEF Console!IInv, Console!OnlyConfirmedRuns
    <3> QED BY <1>2, <3>1, <3>2, <3>3
  <2> QED BY <2>1, <2>2
<1>5. Console!DoneSoFar'
  <2> SUFFICES ASSUME NEW d \in 1..ForConsole.MaxConfirms
               PROVE  /\ v5'[d].todo \subseteq v9.picked[d] /\ Console!Placed(v5'[d].todo)
                      /\ d > v2.sent => v5'[d].at = "idle"
                      /\ \A k \in DOMAIN v9'.ran : v9'.ran[k].confirm = d =>
                           /\ v5'[d].at # "idle"
                           /\ v5'[d].at \in {"sent", "running"} =>
                                /\ v9'.ran[k].how = "done"
                                /\ \A b \in v5'[d].todo : v9'.ran[k].action.at < b.at
    BY <1>2 DEF Console!DoneSoFar, Console!Placed
  <2>1. CASE d # c
    <3>1. /\ v5'[d].todo \subseteq v9.picked[d] /\ Console!Placed(v5'[d].todo)
          /\ d > v2.sent => v5'[d].at = "idle"
      BY <2>1, RunsTyped
    <3>2. ASSUME NEW k \in DOMAIN v9'.ran, v9'.ran[k].confirm = d
          PROVE  /\ v5'[d].at # "idle"
                 /\ v5'[d].at \in {"sent", "running"} =>
                      v9'.ran[k].how = "done" /\ \A b \in v5'[d].todo : v9'.ran[k].action.at < b.at
      <4>1. k \in DOMAIN v9.ran /\ v9'.ran[k] = v9.ran[k]
        BY <1>2, <2>1, <3>2
      <4> QED BY <2>1, <3>2, <4>1 DEF Console!IInv, Console!DoneSoFar
    <3> QED BY <3>1, <3>2
  <2>2. CASE d = c
    <3>1. v5'[d].todo \subseteq v9.picked[d] /\ Console!Placed(v5'[d].todo)
      BY <2>2, RunsTyped DEF Console!Placed
    <3>2. d > v2.sent => v5'[d].at = "idle"
      BY <2>2, RunsTyped
    <3>3. ASSUME NEW k \in DOMAIN v9'.ran, v9'.ran[k].confirm = d,
                 v5'[d].at \in {"sent", "running"}
          PROVE  v9'.ran[k].how = "done" /\ \A b \in v5'[d].todo : v9'.ran[k].action.at < b.at
      <4>1. CASE k = n
        BY <1>2, <2>2, <3>3, <4>1
      <4>2. CASE k # n
        <5>1. k \in DOMAIN v9.ran /\ v9'.ran[k] = v9.ran[k]
          BY <1>2, <3>3, <4>2
        <5> QED BY <1>3, <2>2, <3>3, <5>1
      <4> QED BY <4>1, <4>2
    <3> QED BY <2>2, <3>1, <3>2, <3>3
  <2> QED BY <2>1, <2>2
<1>6. Console!Placed(v2.plan.actions)'
  BY DEF Console!IInv, Console!Placed
<1> QED BY <1>4, <1>5, <1>6, ConsoleTypes DEF Console!IInv

\* The administrator confirms: what is sent was picked of the plan shown.
LEMMA ConsoleConfirms ==
  ASSUME Console!IInv, Console!Confirm
  PROVE  Console!IInv'
<1> DEFINE c == v2.sent + 1
           chosen == Console!Selected(v2.plan, v2.picked)
<1>1. c \in 1..ForConsole.MaxConfirms /\ c \in 0..ForConsole.MaxConfirms /\ c > v2.sent
  <2>1. v2.sent < ForConsole.MaxConfirms
    BY DEF Console!Confirm
  <2> QED BY <2>1, ConsolePageTyped, ConsoleBounds
<1>2. PICK todo \in SUBSET chosen :
        v5' = [v5 EXCEPT ![c].at = "sent", ![c].active = v2.active, ![c].todo = todo,
                         ![c].decision = \E a \in todo : Console!IsDecision(a)]
  BY DEF Console!Confirm
<1>3. /\ v2' = [v2 EXCEPT !.waits = c, !.sent = c] /\ UNCHANGED <<v3, v4, v6, v7, v8>>
      /\ v9' = [v9 EXCEPT !.picked[c] = chosen]
      /\ v1' \in 0..ForConsole.MaxMoves
  BY ConsoleMoves DEF Console!Confirm, Console!Selected
<1>4. chosen \subseteq v2.plan.actions /\ chosen \subseteq Console!Action /\ Console!Placed(chosen)
  BY ConsolePageTyped DEF Console!Selected, Console!IInv, Console!Placed
<1>5. todo \subseteq Console!Action /\ Console!Placed(todo)
  BY <1>4 DEF Console!Placed
<1> DEFINE decides == \E a \in todo : Console!IsDecision(a)
           x == [v5[c] EXCEPT !.at = "sent", !.active = v2.active, !.todo = todo, !.decision = decides]
<1>6. decides \in BOOLEAN
  OBVIOUS
<1>7. v5' = [v5 EXCEPT ![c] = x]
  BY <1>2
<1> HIDE DEF c, chosen, decides
<1>8. x \in ConsoleRun /\ x.at = "sent" /\ x.todo = todo
  BY <1>1, <1>5, <1>6, RunsTyped, ConsolePageTyped DEF ConsoleRun
<1> HIDE DEF x
<1>9. /\ v5' \in [1..ForConsole.MaxConfirms -> ConsoleRun] /\ v5'[c].at = "sent" /\ v5'[c].todo = todo
      /\ \A d \in 1..ForConsole.MaxConfirms : d # c => v5'[d] = v5[d]
  BY <1>1, <1>7, <1>8, RunsTyped
<1>10. v2' \in ConsolePage /\ v2'.sent = c /\ v2'.plan = v2.plan
  <2>1. v2 \in ConsolePage
    BY ConsolePageTyped DEF ConsoleTyped
  <2> QED BY <1>1, <1>3, <2>1 DEF ConsolePage
<1>11. /\ v9' \in ConsoleLog /\ v9'.ran = v9.ran /\ v9'.picked[c] = chosen
       /\ \A d \in 1..ForConsole.MaxConfirms : d # c => v9'.picked[d] = v9.picked[d]
  <2> DEFINE f == v9.picked
             g == [f EXCEPT ![c] = chosen]
  <2>1. f \in PickedFor /\ v9 \in ConsoleLog
    BY RunsTyped
  <2>2. v9' = [v9 EXCEPT !.picked = g]
    BY <1>3
  <2> HIDE DEF f
  <2>3. g \in PickedFor /\ g[c] = chosen /\ \A d \in 1..ForConsole.MaxConfirms : d # c => g[d] = f[d]
    BY <1>1, <1>4, <2>1 DEF PickedFor
  <2> HIDE DEF g
  <2>4. v9' \in ConsoleLog /\ v9'.ran = v9.ran /\ v9'.picked = g
    BY <2>1, <2>2, <2>3 DEF ConsoleLog
  <2> QED BY <2>3, <2>4 DEF f
<1>12. ConsoleTyped'
  <2>1. ConsoleTyped
    BY ConsolePageTyped
  <2> QED BY <1>3, <1>9, <1>10, <1>11, <2>1 DEF ConsoleTyped
\* Nothing has run for this confirmation.
<1>13. \A k \in DOMAIN v9.ran : v9.ran[k].confirm # c
  BY <1>1, RunsTyped DEF Console!IInv, Console!DoneSoFar
<1>14. Console!OnlyConfirmedRuns'
  <2> SUFFICES ASSUME NEW k \in DOMAIN v9.ran, v9.ran[k].confirm # 0
               PROVE  /\ v9.ran[k].action \in v9'.picked[v9.ran[k].confirm]
                      /\ \A j \in 1..(k - 1) : v9.ran[j].confirm = v9.ran[k].confirm =>
                           v9.ran[j].how = "done" /\ v9.ran[j].action.at < v9.ran[k].action.at
    BY <1>11 DEF Console!OnlyConfirmedRuns
  <2> DEFINE d == v9.ran[k].confirm
  <2>1. d \in 1..ForConsole.MaxConfirms
    <3>1. v9.ran[k] \in RanEntry
      BY RunsTyped
    <3>2. d \in 0..ForConsole.MaxConfirms
      BY <3>1 DEF RanEntry
    <3> QED BY <3>2, ConsoleBounds
  <2>2. d # c
    BY <1>13
  <2>3. v9'.picked[d] = v9.picked[d]
    BY <1>11, <2>1, <2>2
  <2> QED BY <2>3 DEF Console!IInv, Console!OnlyConfirmedRuns
<1>15. Console!DoneSoFar'
  <2> SUFFICES ASSUME NEW d \in 1..ForConsole.MaxConfirms
               PROVE  /\ v5'[d].todo \subseteq v9'.picked[d] /\ Console!Placed(v5'[d].todo)
                      /\ d > c => v5'[d].at = "idle"
                      /\ \A k \in DOMAIN v9.ran : v9.ran[k].confirm = d =>
                           /\ v5'[d].at # "idle"
                           /\ v5'[d].at \in {"sent", "running"} =>
                                /\ v9.ran[k].how = "done"
                                /\ \A a \in v5'[d].todo : v9.ran[k].action.at < a.at
    BY <1>10, <1>11 DEF Console!DoneSoFar, Console!Placed
  <2>1. CASE d = c
    BY <1>1, <1>5, <1>9, <1>11, <1>13, <2>1
  <2>2. CASE d # c
    <3>1. v5'[d] = v5[d] /\ v9'.picked[d] = v9.picked[d]
      BY <1>9, <1>11, <2>2
    <3>2. d > c => v5[d].at = "idle"
      <4>1. d > c => d > v2.sent
        BY <1>1, ConsolePageTyped
      <4> QED BY <4>1, RunsTyped
    <3>3. \A k \in DOMAIN v9.ran : v9.ran[k].confirm = d =>
            /\ v5[d].at # "idle"
            /\ v5[d].at \in {"sent", "running"} =>
                 v9.ran[k].how = "done" /\ \A a \in v5[d].todo : v9.ran[k].action.at < a.at
      BY DEF Console!IInv, Console!DoneSoFar
    <3> QED BY <3>1, <3>2, <3>3, RunsTyped
  <2> QED BY <2>1, <2>2
<1>16. Console!Placed(v2.plan.actions)'
  BY <1>10 DEF Console!IInv, Console!Placed
<1> QED BY <1>12, <1>14, <1>15, <1>16, ConsoleTypes DEF Console!IInv

\* A request arrives at its route.
LEMMA ConsoleArrives ==
  ASSUME Console!IInv, NEW c \in 1..ForConsole.MaxConfirms, Console!Arrive(c)
  PROVE  Console!IInv'
<1>1. UNCHANGED <<v1, v2, v3, v4, v6, v7, v8, v9>> /\ v5[c].at = "sent" /\ ConsoleTyped
      /\ v8.perms \subseteq Console!Perms
  <2>1. ConsoleTyped
    BY ConsolePageTyped
  <2> QED BY <2>1 DEF Console!Arrive, ConsoleTyped, ConsoleServer
<1>2. PICK x \in ConsoleRun : /\ v5' = [v5 EXCEPT ![c] = x] /\ x.todo \subseteq v5[c].todo
                              /\ x.at \in {"running", "answered"}
  <2>1. CASE v5' = [v5 EXCEPT ![c].at = "running", ![c].perms = v8.perms]
    <3> DEFINE x == [v5[c] EXCEPT !.at = "running", !.perms = v8.perms]
    <3>1. x \in ConsoleRun /\ x.todo = v5[c].todo /\ x.at = "running"
      BY <1>1, RunsTyped DEF ConsoleRun
    <3>2. v5' = [v5 EXCEPT ![c] = x]
      BY <2>1
    <3> HIDE DEF x
    <3> QED BY <3>1, <3>2
  <2>2. CASE Console!Refuse(c)
    <3> DEFINE x == [v5[c] EXCEPT !.at = "answered", !.ok = FALSE, !.todo = {}]
    <3>1. x \in ConsoleRun /\ x.todo = {} /\ x.at = "answered"
      BY RunsTyped DEF ConsoleRun
    <3>2. v5' = [v5 EXCEPT ![c] = x]
      BY <2>2 DEF Console!Refuse
    <3> HIDE DEF x
    <3> QED BY <3>1, <3>2
  <2> QED BY <2>1, <2>2 DEF Console!Arrive
<1>3. /\ v5' \in [1..ForConsole.MaxConfirms -> ConsoleRun] /\ v5'[c] = x
      /\ \A d \in 1..ForConsole.MaxConfirms : d # c => v5'[d] = v5[d]
  BY <1>2, RunsTyped
<1>4. ConsoleTyped'
  BY <1>1, <1>3 DEF ConsoleTyped
<1> QED BY <1>1, <1>2, <1>3, <1>4, RunGoes

\* The executor runs the first action left; without success it is the last.
LEMMA ConsoleExecutes ==
  ASSUME Console!IInv, NEW c \in 1..ForConsole.MaxConfirms, Console!Execute(c)
  PROVE  Console!IInv'
<1>1. v5[c].at = "running" /\ UNCHANGED <<v1, v2, v3, v4, v6, v7, v8>> /\ ConsoleTyped
  BY ConsolePageTyped DEF Console!Execute
<1> DEFINE more(a) == v5[c].todo \ {a}
<1>2. PICK a \in v5[c].todo, how \in Console!Outcomes :
        /\ Console!Leads(a, v5[c].todo) /\ Console!Note(c, a, how)
        /\ v5' = [v5 EXCEPT ![c].results = Append(@, how), ![c].ok = TRUE,
                            ![c].todo = IF how = "done" THEN more(a) ELSE {},
                            ![c].at = IF how = "done" /\ more(a) # {} THEN @ ELSE "answered"]
  BY DEF Console!Execute, Console!Outcomes
<1> DEFINE rest == IF how = "done" THEN more(a) ELSE {}
           at == IF how = "done" /\ more(a) # {} THEN "running" ELSE "answered"
           told == Append(v5[c].results, how)
           x == [v5[c] EXCEPT !.results = told, !.ok = TRUE, !.todo = rest, !.at = at]
<1>3. v5' = [v5 EXCEPT ![c] = x]
  BY <1>1, <1>2, RunsTyped
<1>4. rest \subseteq v5[c].todo /\ at \in {"running", "answered"}
      /\ (at = "running" => how = "done" /\ \A b \in rest : a.at < b.at)
  <2>1. at \in {"running", "answered"} /\ rest \subseteq v5[c].todo /\ (at = "running" => how = "done")
    OBVIOUS
  <2>2. \A b \in more(a) : a.at < b.at
    <3>1. ASSUME NEW b \in more(a) PROVE a.at < b.at
      <4>1. b \in v5[c].todo /\ b # a /\ a \in Console!Action /\ b \in Console!Action
        BY RunsTyped
      <4>2. a.at \in Nat /\ b.at \in Nat
        BY <4>1, ConsoleBounds DEF Console!Action
      <4>3. a.at <= b.at
        BY <1>2, <4>1 DEF Console!Leads
      <4>4. a.at # b.at
        BY <4>1, RunsTyped DEF Console!Placed
      <4> QED BY <4>2, <4>3, <4>4
    <3> QED BY <3>1
  <2> QED BY <2>1, <2>2
<1>5. told \in Seq(Console!Outcomes)
  <2>1. v5[c].results \in Seq(Console!Outcomes)
    BY RunsTyped DEF ConsoleRun
  <2> QED BY <1>2, <2>1
<1> HIDE DEF told, rest, at, more
<1>6. x \in ConsoleRun /\ x.at = at /\ x.todo = rest
  BY <1>4, <1>5, RunsTyped DEF ConsoleRun
<1> HIDE DEF x
<1>7. /\ v5' \in [1..ForConsole.MaxConfirms -> ConsoleRun] /\ v5'[c] = x
      /\ \A d \in 1..ForConsole.MaxConfirms : d # c => v5'[d] = v5[d]
  BY <1>3, <1>6, RunsTyped
<1>8. v9' \in ConsoleLog
  BY <1>2, OneMoreRan, RunsTyped, ConsoleBounds
<1>9. ConsoleTyped'
  BY <1>1, <1>7, <1>8 DEF ConsoleTyped
<1> QED BY <1>1, <1>2, <1>4, <1>6, <1>7, <1>9, RunRuns

\* The decision route decides a hold, or answers with an error.
LEMMA ConsoleHolds ==
  ASSUME Console!IInv, NEW c \in 1..ForConsole.MaxConfirms, Console!DecideHold(c)
  PROVE  Console!IInv'
<1>1. v5[c].at = "running" /\ UNCHANGED <<v1, v2, v3, v4, v6, v7>> /\ ConsoleTyped
  BY ConsolePageTyped DEF Console!DecideHold
<1> DEFINE told(how) == <<how>>
           x(how) == [v5[c] EXCEPT !.at = "answered", !.ok = TRUE, !.todo = {}, !.results = told(how)]
<1>2. \A how \in Console!Outcomes : told(how) \in Seq(Console!Outcomes)
  OBVIOUS
<1>3. PICK a \in v5[c].todo, how \in Console!Outcomes :
        /\ v5' = [v5 EXCEPT ![c] = x(how)]
        /\ \/ /\ v8' = [v8 EXCEPT !.pending = @ \ {a.hold}] /\ Console!Note(c, a, how)
           \/ UNCHANGED <<v8, v9>>
  BY DEF Console!DecideHold, Console!Outcomes
<1> HIDE DEF told
<1>4. x(how) \in ConsoleRun /\ x(how).at = "answered" /\ x(how).todo = {}
  BY <1>2, RunsTyped DEF ConsoleRun
<1> HIDE DEF x
<1>5. /\ v5' \in [1..ForConsole.MaxConfirms -> ConsoleRun] /\ v5'[c] = x(how)
      /\ \A d \in 1..ForConsole.MaxConfirms : d # c => v5'[d] = v5[d]
  BY <1>3, <1>4, RunsTyped
<1>6. CASE v8' = [v8 EXCEPT !.pending = @ \ {a.hold}] /\ Console!Note(c, a, how)
  <2>1. v8' \in ConsoleServer
    BY <1>1, <1>6 DEF ConsoleTyped, ConsoleServer
  <2>2. v9' \in ConsoleLog
    BY <1>6, OneMoreRan, RunsTyped, ConsoleBounds
  <2>3. ConsoleTyped'
    BY <1>1, <1>5, <2>1, <2>2 DEF ConsoleTyped
  <2> QED BY <1>1, <1>4, <1>5, <1>6, <2>3, RunRuns
<1>7. CASE UNCHANGED <<v8, v9>>
  <2>1. ConsoleTyped'
    BY <1>1, <1>5, <1>7 DEF ConsoleTyped
  <2> QED BY <1>1, <1>4, <1>5, <1>7, <2>1, RunGoes
<1> QED BY <1>3, <1>6, <1>7

\* A decision on a row is of no confirmation.
LEMMA ConsoleRowDecides ==
  ASSUME Console!IInv, NEW k \in 1..ForConsole.MaxClicks, Console!DecideRow(k)
  PROVE  Console!IInv'
<1> DEFINE h == v6[k].hold
           a == Console!ActionOf(h, 0, 1)
<1>1. /\ UNCHANGED <<v1, v2, v3, v4, v5, v7>> /\ ConsoleTyped
      /\ v6 \in [1..ForConsole.MaxClicks -> ConsoleClick] /\ v8 \in ConsoleServer
  <2>1. ConsoleTyped
    BY ConsolePageTyped
  <2> QED BY <2>1 DEF Console!DecideRow, ConsoleTyped
<1>2. v6' \in [1..ForConsole.MaxClicks -> ConsoleClick]
  <2> DEFINE x == [v6[k] EXCEPT !.at = "answered", !.ok = TRUE]
             y == [v6[k] EXCEPT !.at = "answered"]
  <2>1. x \in ConsoleClick /\ y \in ConsoleClick
    BY <1>1 DEF ConsoleClick
  <2>2. v6' = [v6 EXCEPT ![k] = x] \/ v6' = [v6 EXCEPT ![k] = y]
    BY DEF Console!DecideRow
  <2> HIDE DEF x, y
  <2> QED BY <1>1, <2>1, <2>2
<1>3. \/ h \in v8.pending /\ v8' = [v8 EXCEPT !.pending = @ \ {h}] /\ Console!Note(0, a, "done")
      \/ UNCHANGED <<v8, v9>>
  BY DEF Console!DecideRow
<1>4. CASE h \in v8.pending /\ v8' = [v8 EXCEPT !.pending = @ \ {h}] /\ Console!Note(0, a, "done")
  <2>1. h \in ForConsole.Holds
    BY <1>1, <1>4 DEF ConsoleServer
  <2>2. a \in Console!Action
    <3> DEFINE t == IF h = None THEN "change_user_role" ELSE "approve_hold"
    <3>1. t \in {"change_user_role", "approve_hold"} /\ 0 \in 0..ForConsole.MaxPrompts
          /\ 1 \in 1..ForConsole.MaxPlan
      BY ConsoleBounds
    <3>2. a = [tool |-> t, hold |-> h, plan |-> 0, at |-> 1]
      BY DEF Console!ActionOf
    <3> HIDE DEF t, h
    <3> QED BY <2>1, <3>1, <3>2 DEF Console!Action
  <2> DEFINE n == Len(v9.ran) + 1
  <2> HIDE DEF a
  <2>3. /\ v9' \in ConsoleLog /\ v9'.picked = v9.picked /\ DOMAIN v9'.ran = 1..n /\ n \in Nat
        /\ \A i \in DOMAIN v9.ran : i < n /\ v9'.ran[i] = v9.ran[i]
        /\ \A i \in 1..n : i # n => i \in DOMAIN v9.ran
        /\ v9'.ran[n].confirm = 0
    <3>1. 0 \in 0..ForConsole.MaxConfirms /\ "done" \in Console!Outcomes
      BY ConsoleBounds DEF Console!Outcomes
    <3> QED BY <1>4, <2>2, <3>1, OneMoreRan
  <2> HIDE DEF n
  <2>4. v8' \in ConsoleServer
    BY <1>1, <1>4 DEF ConsoleServer
  <2>5. ConsoleTyped'
    BY <1>1, <1>2, <2>3, <2>4 DEF ConsoleTyped
  <2>6. Console!OnlyConfirmedRuns'
    <3> SUFFICES ASSUME NEW i \in DOMAIN v9'.ran, v9'.ran[i].confirm # 0
                 PROVE  /\ v9'.ran[i].action \in v9'.picked[v9'.ran[i].confirm]
                        /\ \A j \in 1..(i - 1) : v9'.ran[j].confirm = v9'.ran[i].confirm =>
                             v9'.ran[j].how = "done" /\ v9'.ran[j].action.at < v9'.ran[i].action.at
      BY DEF Console!OnlyConfirmedRuns
    <3>1. i \in DOMAIN v9.ran /\ v9'.ran[i] = v9.ran[i]
      BY <2>3
    <3>2. \A j \in 1..(i - 1) : j \in DOMAIN v9.ran /\ v9'.ran[j] = v9.ran[j]
      BY <2>3, <3>1, RunsTyped
    <3>3. /\ v9.ran[i].action \in v9.picked[v9.ran[i].confirm]
          /\ \A j \in 1..(i - 1) : v9.ran[j].confirm = v9.ran[i].confirm =>
               v9.ran[j].how = "done" /\ v9.ran[j].action.at < v9.ran[i].action.at
      BY <3>1 DEF Console!IInv, Console!OnlyConfirmedRuns
    <3> QED BY <2>3, <3>1, <3>2, <3>3
  <2>7. Console!DoneSoFar'
    <3>1. \A i \in DOMAIN v9'.ran : v9'.ran[i].confirm # 0 =>
            i \in DOMAIN v9.ran /\ v9'.ran[i] = v9.ran[i]
      BY <2>3
    <3>2. \A d \in 1..ForConsole.MaxConfirms : \A i \in DOMAIN v9'.ran : v9'.ran[i].confirm = d =>
            /\ v5[d].at # "idle"
            /\ v5[d].at \in {"sent", "running"} =>
                 v9'.ran[i].how = "done" /\ \A b \in v5[d].todo : v9'.ran[i].action.at < b.at
      BY <3>1 DEF Console!IInv, Console!DoneSoFar
    <3>3. \A d \in 1..ForConsole.MaxConfirms :
            /\ v5[d].todo \subseteq v9'.picked[d] /\ Console!Placed(v5[d].todo)
            /\ d > v2.sent => v5[d].at = "idle"
      BY <2>3, RunsTyped
    <3> QED BY <1>1, <3>2, <3>3 DEF Console!DoneSoFar, Console!Placed
  <2>8. Console!Placed(v2.plan.actions)'
    BY <1>1 DEF Console!IInv, Console!Placed
  <2> QED BY <2>5, <2>6, <2>7, <2>8, ConsoleTypes DEF Console!IInv
<1>5. CASE UNCHANGED <<v8, v9>>
  <2>1. ConsoleTyped'
    BY <1>1, <1>2, <1>5 DEF ConsoleTyped
  <2> QED BY <1>1, <1>5, <2>1, ConsoleAside DEF Console!IInv
<1> QED BY <1>3, <1>4, <1>5

\* Every step keeps the invariant.
LEMMA ConsoleInductive ==
  ASSUME Console!IInv, [Console!Next]_(Console!vars)
  PROVE  Console!IInv'
<1>1. CASE UNCHANGED Console!vars
  <2>1. UNCHANGED <<v1, v2, v3, v4, v5, v6, v7, v8, v9>>
    BY <1>1 DEF Console!vars
  <2>2. ConsoleTyped'
    BY <2>1, ConsolePageTyped DEF ConsoleTyped
  <2> QED BY <2>1, <2>2, ConsoleAside DEF Console!IInv
<1>2. ASSUME NEW s \in Console!Sections, Console!OpenSection(s) PROVE Console!IInv'
  BY <1>2, ConsoleOpens
<1>3. ASSUME NEW i \in 1..ForConsole.MaxReads, Console!AnswerRead(i) \/ Console!ShowRead(i)
      PROVE  Console!IInv'
  BY <1>3, ConsoleReads
<1>4. CASE Console!Ask \/ Console!Plan
  BY <1>4, ConsoleAsks
<1>5. CASE \/ \E i \in 1..ForConsole.MaxPlan : Console!Toggle(i)
           \/ Console!Cancel \/ Console!Dismiss
           \/ \E c \in 1..ForConsole.MaxConfirms : Console!ShowResults(c) \/ Console!LoseAnswer(c)
  BY <1>5, ConsoleTurns
<1>6. ASSUME NEW chosen, Console!PlanArrives(chosen) PROVE Console!IInv'
  BY <1>6, ConsolePlans
<1>7. CASE Console!Confirm
  BY <1>7, ConsoleConfirms
<1>8. ASSUME NEW c \in 1..ForConsole.MaxConfirms,
             Console!Arrive(c) \/ Console!Execute(c) \/ Console!DecideHold(c)
      PROVE  Console!IInv'
  BY <1>8, ConsoleArrives, ConsoleExecutes, ConsoleHolds
<1>9. ASSUME NEW k \in 1..ForConsole.MaxClicks, Console!DecideRow(k) PROVE Console!IInv'
  BY <1>9, ConsoleRowDecides
<1>10. CASE \/ \E k \in 1..ForConsole.MaxClicks :
                 Console!ShowDecision(k) \/ \E h \in ForConsole.Holds : Console!Decide(k, h)
            \/ \E p \in ForConsole.Revocable : Console!Revoke(p)
  BY <1>10, ConsoleRows
<1> QED BY <1>1, <1>2, <1>3, <1>4, <1>5, <1>6, <1>7, <1>8, <1>9, <1>10 DEF Console!Next

\* Whatever the server ran for a confirmation was picked in the plan shown when the
\* administrator confirmed, and ran once for it, in the plan's order, up to the first
\* action that did not succeed.
THEOREM OnlyWhatWasConfirmed == Services => []OnlyConfirmedRuns
<1> DEFINE Kept == running = "console" => Console!IInv
<1>1. ServicesInit => Kept
  BY ConsoleAlone, ConsoleFirst
<1>2. Kept /\ [ServicesNext]_<<running, vars, slots>> => Kept'
  <2> SUFFICES ASSUME Kept, [ServicesNext]_<<running, vars, slots>>, running' = "console"
               PROVE  Console!IInv'
    OBVIOUS
  <2>1. running = "console"
    BY DEF ServicesNext, In
  <2> QED BY <2>1, ConsoleAlone, ConsoleInductive
<1>3. Kept => OnlyConfirmedRuns
  BY DEF OnlyConfirmedRuns, Console!IInv
<1> QED BY <1>1, <1>2, <1>3, PTL DEF Services

-----------------------------------------------------------------------------
(* Realtime channels.  v1: state, v2: channels, v3: clients, v4: links,    *)
(* v5: writers, v6: removals, v7: leaving, v8: heard, v9: calls,           *)
(* v10: sent, v11: orphaned.                                               *)

\* Only the channels' steps change their variables.
LEMMA RealtimeAlone ==
  ASSUME running = "realtime"
  PROVE  /\ ServicesInit => Realtime!Init
         /\ [ServicesNext]_<<running, vars, slots>> =>
              running' = running /\ [Realtime!Next]_(Realtime!vars)
  BY DEF ServicesInit, ServicesNext, In, slots, Realtime!vars

\* The bounds are natural numbers.
LEMMA RealtimeBounds ==
  /\ ForRealtime.MaxLinks \in Nat /\ ForRealtime.MaxWriters \in Nat
  /\ ForRealtime.MaxSent \in Nat /\ ForRealtime.MaxCalls \in Nat
  /\ "none" \notin ForRealtime.Names
  BY ServicesAssumption DEF Realtime!ChannelsAssumption, Realtime!NoName

\* The invariant holds of a provider without channels.
LEMMA RealtimeFirst == Realtime!Init => Realtime!IInv
<1> SUFFICES ASSUME Realtime!Init PROVE Realtime!IInv
  OBVIOUS
<1>1. Realtime!TypeOK
  BY RealtimeBounds DEF Realtime!Init, Realtime!TypeOK, Realtime!NoName
<1>2. Realtime!RefersToMade /\ Realtime!FewerThanCalls
  BY RealtimeBounds DEF Realtime!Init, Realtime!RefersToMade, Realtime!FewerThanCalls
<1>3. Realtime!ClosingIsLeft /\ Realtime!ErrorsAreLast
  BY DEF Realtime!Init, Realtime!ClosingIsLeft, Realtime!ErrorsAreLast
<1>4. Realtime!StreamsAreKept
  BY DEF Realtime!Init, Realtime!StreamsAreKept, Realtime!OpenIsKnown, Realtime!NothingAfterTheError
<1> QED BY <1>1, <1>2, <1>3, <1>4 DEF Realtime!IInv

\* No message comes and none is heard.
LEMMA NoMessage ==
  ASSUME Realtime!IInv, v8' = v8, Len(v4) <= Len(v4'), v4' \in Seq(Realtime!Link),
         \A o \in DOMAIN v4' :
           v4'[o].inbox = <<>> \/ (o \in DOMAIN v4 /\ v4'[o].inbox = v4[o].inbox),
         \A w \in DOMAIN v5 : w \in DOMAIN v5' /\ (v5[w].closed => v5'[w].closed)
  PROVE  Realtime!ErrorsAreLast' /\ Realtime!NothingAfterTheError'
<1>1. DOMAIN v4 \subseteq DOMAIN v4'
  BY DEF Realtime!IInv, Realtime!TypeOK
<1>2. Realtime!NothingAfterTheError'
  BY DEF Realtime!IInv, Realtime!StreamsAreKept, Realtime!NothingAfterTheError
<1>3. ASSUME NEW o \in DOMAIN v4', NEW i \in DOMAIN v4'[o].inbox
      PROVE  o \in DOMAIN v4 /\ v4'[o].inbox = v4[o].inbox
  BY <1>3
<1>4. Realtime!ErrorsAreLast'
  BY <1>1, <1>3 DEF Realtime!IInv, Realtime!ErrorsAreLast
<1> QED BY <1>2, <1>4

\* The provider's maps stay, and what joins is known, orphaned or was joined.
LEMMA MapsStay ==
  ASSUME Realtime!IInv, UNCHANGED <<v2, v3, v6, v7>>, v11 \subseteq v11',
         DOMAIN v4 \subseteq DOMAIN v4', \A o \in DOMAIN v4 : v4'[o].name = v4[o].name,
         \A o \in DOMAIN v4' : v4'[o].joined =>
           \/ o \in DOMAIN v4 /\ v4[o].joined
           \/ o \in v11'
           \/ v3[v4'[o].name] = o /\ \A r \in v6 \cup {v7} : r.link # o
  PROVE  Realtime!OpenIsKnown' /\ Realtime!ClosingIsLeft'
<1>1. Realtime!OpenIsKnown'
  BY DEF Realtime!IInv, Realtime!StreamsAreKept, Realtime!OpenIsKnown
<1>2. \A r \in v6 \cup {v7} : r.link # 0 => r.link \in DOMAIN v4
  BY RealtimeBounds DEF Realtime!IInv, Realtime!RefersToMade, Realtime!TypeOK
<1>3. Realtime!ClosingIsLeft'
  BY <1>2 DEF Realtime!IInv, Realtime!ClosingIsLeft
<1> QED BY <1>1, <1>3

\* One channel object moves.
LEMMA LinkMoves ==
  ASSUME Realtime!IInv, NEW o \in DOMAIN v4, NEW l \in Realtime!Link, v4' = [v4 EXCEPT ![o] = l],
         l.name = v4[o].name, l.inbox = <<>> \/ l.inbox = v4[o].inbox,
         l.joined => \/ v4[o].joined \/ o \in v11'
                     \/ v3[v4[o].name] = o /\ \A r \in v6 \cup {v7} : r.link # o,
         v9' \in 0..ForRealtime.MaxCalls, v9 <= v9', l.listeners <= v9',
         \A h \in ForRealtime.Handlers : l.handlers[h] <= v9',
         v11 \subseteq v11', v11' \subseteq DOMAIN v4,
         UNCHANGED <<v1, v2, v3, v5, v6, v7, v8, v10>>
  PROVE  Realtime!IInv'
<1>1. v4 \in Seq(Realtime!Link)
  BY DEF Realtime!IInv, Realtime!TypeOK
<1>2. v4' \in Seq(Realtime!Link) /\ Len(v4') = Len(v4) /\ DOMAIN v4' = DOMAIN v4
  BY <1>1
<1>3. v4'[o] = l /\ \A p \in DOMAIN v4 : p # o => v4'[p] = v4[p]
  BY <1>1
<1>4. Realtime!TypeOK'
  BY <1>2 DEF Realtime!IInv, Realtime!TypeOK
<1>5. Realtime!RefersToMade'
  BY <1>2 DEF Realtime!IInv, Realtime!RefersToMade
<1>6. Realtime!FewerThanCalls'
  <2>1. ASSUME NEW p \in DOMAIN v4, p # o, NEW h \in ForRealtime.Handlers
        PROVE  v4[p].listeners <= v9' /\ v4[p].handlers[h] <= v9'
    <3>1. v4[p] \in Realtime!Link /\ v9 \in 0..ForRealtime.MaxCalls
      BY <1>1 DEF Realtime!IInv, Realtime!TypeOK
    <3>2. v4[p].listeners \in 0..ForRealtime.MaxCalls /\ v4[p].handlers[h] \in 0..ForRealtime.MaxCalls
      BY <3>1 DEF Realtime!Link
    <3> QED BY <3>1, <3>2, RealtimeBounds DEF Realtime!IInv, Realtime!FewerThanCalls
  <2>2. ASSUME NEW p \in DOMAIN v4, p # o PROVE v4[p].listeners <= v9'
    <3>1. v4[p] \in Realtime!Link /\ v9 \in 0..ForRealtime.MaxCalls
      BY <1>1 DEF Realtime!IInv, Realtime!TypeOK
    <3>2. v4[p].listeners \in 0..ForRealtime.MaxCalls
      BY <3>1 DEF Realtime!Link
    <3> QED BY <2>2, <3>1, <3>2, RealtimeBounds DEF Realtime!IInv, Realtime!FewerThanCalls
  <2> QED BY <1>2, <1>3, <2>1, <2>2 DEF Realtime!FewerThanCalls
<1>7. Realtime!OpenIsKnown' /\ Realtime!ClosingIsLeft'
  BY <1>2, <1>3, MapsStay
<1>8. Realtime!ErrorsAreLast' /\ Realtime!NothingAfterTheError'
  <2>1. Len(v4) <= Len(v4')
    BY <1>1, <1>2
  <2> QED BY <1>2, <1>3, <2>1, NoMessage
<1> QED BY <1>4, <1>5, <1>6, <1>7, <1>8 DEF Realtime!IInv, Realtime!StreamsAreKept

\* A channel object that was made.
LEMMA LinkTyped ==
  ASSUME Realtime!IInv, NEW o \in DOMAIN v4
  PROVE  /\ v4[o] \in Realtime!Link /\ v4[o].listeners \in 0..ForRealtime.MaxCalls
         /\ v4[o].handlers \in [ForRealtime.Handlers -> 0..ForRealtime.MaxCalls]
         /\ v4[o].inbox \in Seq(Realtime!Message) /\ v9 \in 0..ForRealtime.MaxCalls
         /\ v4[o].listeners <= v9 /\ \A h \in ForRealtime.Handlers : v4[o].handlers[h] <= v9
<1>1. v4[o] \in Realtime!Link
  BY DEF Realtime!IInv, Realtime!TypeOK
<1> QED BY <1>1 DEF Realtime!Link, Realtime!IInv, Realtime!TypeOK, Realtime!FewerThanCalls

\* A call more.
LEMMA RealtimeCalls ==
  ASSUME Realtime!IInv, Realtime!Call
  PROVE  v9' \in 0..ForRealtime.MaxCalls /\ v9' = v9 + 1 /\ v9 <= v9'
  BY RealtimeBounds DEF Realtime!IInv, Realtime!TypeOK, Realtime!Call

\* A channel object that a handler subscribes to.
LEMMA LinkSubscribed ==
  ASSUME NEW l \in Realtime!Link, NEW h \in ForRealtime.Handlers, NEW n \in 0..ForRealtime.MaxCalls,
         n < ForRealtime.MaxCalls, l.listeners <= n, \A g \in ForRealtime.Handlers : l.handlers[g] <= n,
         NEW k, k = Realtime!Subscribed(l, h)
  PROVE  /\ k \in Realtime!Link /\ k.name = l.name /\ k.inbox = l.inbox
         /\ k.joined => l.joined \/ ~l.subscribed
         /\ k.listeners <= n + 1 /\ \A g \in ForRealtime.Handlers : k.handlers[g] <= n + 1
<1>1. /\ l.listeners \in 0..ForRealtime.MaxCalls
      /\ l.handlers \in [ForRealtime.Handlers -> 0..ForRealtime.MaxCalls]
      /\ l.joined \in BOOLEAN /\ l.subscribed \in BOOLEAN
  BY DEF Realtime!Link
<1> DEFINE hs == [l.handlers EXCEPT ![h] = @ + 1]
           ls == IF l.subscribed THEN l.listeners ELSE l.listeners + 1
           js == IF l.subscribed THEN l.joined ELSE TRUE
<1>2. ls \in 0..ForRealtime.MaxCalls /\ ls <= n + 1
  BY <1>1, RealtimeBounds
<1>3. l.handlers[h] + 1 \in 0..ForRealtime.MaxCalls /\ l.handlers[h] + 1 <= n + 1
  BY <1>1, RealtimeBounds
<1>4. hs \in [ForRealtime.Handlers -> 0..ForRealtime.MaxCalls]
      /\ \A g \in ForRealtime.Handlers : hs[g] <= n + 1
  BY <1>1, <1>3
<1>5. k = [l EXCEPT !.handlers = hs, !.subscribed = TRUE, !.listeners = ls, !.joined = js]
  BY DEF Realtime!Subscribed
<1>6. js \in BOOLEAN /\ (js => l.joined \/ ~l.subscribed)
  BY <1>1
<1> HIDE DEF hs, ls, js
<1> QED BY <1>2, <1>4, <1>5, <1>6 DEF Realtime!Link

\* A channel object that is left or unsubscribed.
LEMMA LinkLeft ==
  ASSUME NEW l \in Realtime!Link
  PROVE  /\ Realtime!Left(l) \in Realtime!Link /\ Realtime!Left(l).name = l.name
         /\ ~Realtime!Left(l).joined /\ Realtime!Left(l).inbox = <<>>
         /\ Realtime!Left(l).listeners = l.listeners /\ Realtime!Left(l).handlers = l.handlers
         /\ Realtime!Unsubscribed(l) \in Realtime!Link /\ Realtime!Unsubscribed(l).name = l.name
         /\ ~Realtime!Unsubscribed(l).joined /\ Realtime!Unsubscribed(l).inbox = <<>>
         /\ Realtime!Unsubscribed(l).listeners = l.listeners
         /\ Realtime!Unsubscribed(l).handlers = [h \in ForRealtime.Handlers |-> 0]
<1> DEFINE k == Realtime!Left(l)
           m == Realtime!Unsubscribed(l)
           e == <<>>
<1>1. /\ k \in Realtime!Link /\ k.name = l.name /\ ~k.joined /\ k.inbox = <<>>
      /\ k.listeners = l.listeners /\ k.handlers = l.handlers
  <2>1. e \in Seq(Realtime!Message)
    OBVIOUS
  <2>2. k = [l EXCEPT !.joined = FALSE, !.present = FALSE, !.inbox = e]
    BY DEF Realtime!Left
  <2>3. e = <<>>
    OBVIOUS
  <2> HIDE DEF k, e
  <2>4. /\ k \in Realtime!Link /\ k.name = l.name /\ ~k.joined /\ k.inbox = e
        /\ k.listeners = l.listeners /\ k.handlers = l.handlers
    BY <2>1, <2>2 DEF Realtime!Link
  <2> QED BY <2>3, <2>4
<1>2. m = [k EXCEPT !.handlers = Realtime!NoHandlers, !.subscribed = FALSE]
  BY DEF Realtime!Unsubscribed
<1>3. Realtime!NoHandlers \in [ForRealtime.Handlers -> 0..ForRealtime.MaxCalls]
  BY RealtimeBounds DEF Realtime!NoHandlers
<1> HIDE DEF k, m
<1>4. /\ m \in Realtime!Link /\ m.name = k.name /\ m.joined = k.joined /\ m.inbox = k.inbox
      /\ m.listeners = k.listeners /\ m.handlers = Realtime!NoHandlers
  BY <1>1, <1>2, <1>3 DEF Realtime!Link
<1> QED BY <1>1, <1>4 DEF k, m, Realtime!NoHandlers

\* Steps that change one channel object.
LEMMA RealtimeLinks ==
  ASSUME Realtime!IInv, NEW o \in DOMAIN v4,
         \/ \E h \in ForRealtime.Handlers : Realtime!Subscribe(o, h) \/ Realtime!GiveUp(o, h)
         \/ Realtime!Unsubscribe(o) \/ \E there \in BOOLEAN : Realtime!Present(o, there)
  PROVE  Realtime!IInv'
<1>1. v4[o] \in Realtime!Link
  BY LinkTyped
<1>2. v11 \subseteq DOMAIN v4 /\ v9 \in 0..ForRealtime.MaxCalls /\ v9 <= v9
  BY RealtimeBounds DEF Realtime!IInv, Realtime!TypeOK
<1>3. ASSUME NEW h \in ForRealtime.Handlers, Realtime!Subscribe(o, h) PROVE Realtime!IInv'
  <2> DEFINE l == Realtime!Subscribed(v4[o], h)
  <2>1. v9' \in 0..ForRealtime.MaxCalls /\ v9' = v9 + 1 /\ v9 <= v9' /\ v9 < ForRealtime.MaxCalls
    BY <1>3, RealtimeCalls DEF Realtime!Subscribe, Realtime!Call
  <2>2. /\ l \in Realtime!Link /\ l.name = v4[o].name /\ l.inbox = v4[o].inbox
        /\ l.joined => v4[o].joined \/ ~v4[o].subscribed
        /\ l.listeners <= v9 + 1 /\ \A g \in ForRealtime.Handlers : l.handlers[g] <= v9 + 1
    BY <1>1, <1>2, <2>1, LinkSubscribed, LinkTyped
  <2>3. v4' = [v4 EXCEPT ![o] = l]
    BY <1>3 DEF Realtime!Subscribe
  <2>4. /\ v11' = (IF ~Realtime!Held(o) /\ ~v4[o].subscribed THEN v11 \cup {o} ELSE v11)
        /\ UNCHANGED <<v1, v2, v3, v5, v6, v7, v8, v10>>
    BY <1>3 DEF Realtime!Subscribe
  <2>5. Realtime!Held(o) => v3[v4[o].name] = o /\ \A r \in v6 \cup {v7} : r.link # o
    BY DEF Realtime!Held
  <2> HIDE DEF l
  <2> QED BY <1>2, <2>1, <2>2, <2>3, <2>4, <2>5, LinkMoves
<1>4. ASSUME NEW h \in ForRealtime.Handlers, Realtime!GiveUp(o, h) PROVE Realtime!IInv'
  <2> DEFINE hs == [v4[o].handlers EXCEPT ![h] = 0]
             l == [v4[o] EXCEPT !.handlers = hs]
  <2>1. hs \in [ForRealtime.Handlers -> 0..ForRealtime.MaxCalls]
        /\ \A g \in ForRealtime.Handlers : hs[g] <= v9
    BY <1>2, LinkTyped, RealtimeBounds
  <2>2. v4' = [v4 EXCEPT ![o] = l] /\ UNCHANGED <<v1, v2, v3, v5, v6, v7, v8, v9, v10, v11>>
    BY <1>4 DEF Realtime!GiveUp
  <2> HIDE DEF hs
  <2>3. /\ l \in Realtime!Link /\ l.name = v4[o].name /\ l.inbox = v4[o].inbox
        /\ l.joined = v4[o].joined /\ l.listeners <= v9 /\ l.handlers = hs
    BY <1>1, <2>1, LinkTyped DEF Realtime!Link
  <2> HIDE DEF l
  <2> QED BY <1>2, <2>1, <2>2, <2>3, LinkMoves
<1>5. CASE Realtime!Unsubscribe(o)
  <2> DEFINE l == Realtime!Unsubscribed(v4[o])
  <2>1. v9' \in 0..ForRealtime.MaxCalls /\ v9' = v9 + 1 /\ v9 <= v9'
    BY <1>5, RealtimeCalls DEF Realtime!Unsubscribe
  <2>2. /\ l \in Realtime!Link /\ l.name = v4[o].name /\ l.inbox = <<>> /\ ~l.joined
        /\ l.listeners = v4[o].listeners /\ l.handlers = [h \in ForRealtime.Handlers |-> 0]
    BY <1>1, LinkLeft
  <2>3. v4' = [v4 EXCEPT ![o] = l] /\ UNCHANGED <<v1, v2, v3, v5, v6, v7, v8, v10, v11>>
    BY <1>5 DEF Realtime!Unsubscribe
  <2> HIDE DEF l
  <2>4. l.listeners <= v9' /\ \A h \in ForRealtime.Handlers : l.handlers[h] <= v9'
    BY <1>2, <2>1, <2>2, LinkTyped, RealtimeBounds
  <2> QED BY <1>2, <2>1, <2>2, <2>3, <2>4, LinkMoves
<1>6. ASSUME NEW there \in BOOLEAN, Realtime!Present(o, there) PROVE Realtime!IInv'
  <2> DEFINE l == [v4[o] EXCEPT !.present = there]
  <2>1. v9' \in 0..ForRealtime.MaxCalls /\ v9' = v9 + 1 /\ v9 <= v9'
    BY <1>6, RealtimeCalls DEF Realtime!Present
  <2>2. v4' = [v4 EXCEPT ![o] = l] /\ UNCHANGED <<v1, v2, v3, v5, v6, v7, v8, v10, v11>>
    BY <1>6 DEF Realtime!Present
  <2>3. /\ l \in Realtime!Link /\ l.name = v4[o].name /\ l.inbox = v4[o].inbox
        /\ l.joined = v4[o].joined /\ l.listeners = v4[o].listeners /\ l.handlers = v4[o].handlers
    BY <1>1, LinkTyped DEF Realtime!Link
  <2> HIDE DEF l
  <2>4. l.listeners <= v9' /\ \A h \in ForRealtime.Handlers : l.handlers[h] <= v9'
    BY <1>2, <2>1, <2>3, LinkTyped, RealtimeBounds
  <2> QED BY <1>2, <2>1, <2>2, <2>3, <2>4, LinkMoves
<1> QED BY <1>3, <1>4, <1>5, <1>6

\* A stream writer.
WriterRow == [on : 1..ForRealtime.MaxLinks, closed : BOOLEAN]

\* What the invariant says of the provider's maps, the channels and the writers.
LEMMA RealtimeRows ==
  ASSUME Realtime!IInv
  PROVE  /\ v4 \in Seq(Realtime!Link) /\ Len(v4) \in Nat /\ DOMAIN v4 = 1..Len(v4)
         /\ Len(v4) <= ForRealtime.MaxLinks
         /\ v2 \in [ForRealtime.Names -> 0..ForRealtime.MaxLinks]
         /\ v3 \in [ForRealtime.Names -> 0..ForRealtime.MaxLinks]
         /\ v5 \in Seq(WriterRow) /\ Len(v5) \in Nat /\ Len(v5) <= ForRealtime.MaxWriters
         /\ \A w \in DOMAIN v5 : v5[w] \in WriterRow /\ v5[w].on \in 1..Len(v4)
         /\ v11 \subseteq DOMAIN v4
<1>1. v4 \in Seq(Realtime!Link) /\ v5 \in Seq(WriterRow)
  BY DEF Realtime!IInv, Realtime!TypeOK, WriterRow
<1>2. \A w \in DOMAIN v5 : v5[w] \in WriterRow
  BY <1>1
<1>3. Len(v4) \in Nat /\ DOMAIN v4 = 1..Len(v4) /\ Len(v5) \in Nat
  BY <1>1
<1>4. \A w \in DOMAIN v5 : v5[w].on \in 1..Len(v4)
  <2>1. \A w \in DOMAIN v5 : v5[w].on \in 1..ForRealtime.MaxLinks
    BY <1>2 DEF WriterRow
  <2> QED BY <1>3, <2>1, RealtimeBounds DEF Realtime!IInv, Realtime!RefersToMade
<1> QED BY <1>1, <1>2, <1>3, <1>4 DEF Realtime!IInv, Realtime!TypeOK, Realtime!RefersToMade

\* A channel is opened under a name that has none, for a writer or not.
LEMMA LinkOpened ==
  ASSUME Realtime!IInv, NEW n \in ForRealtime.Names, v2[n] = 0, Len(v4) + 1 <= ForRealtime.MaxLinks,
         NEW l \in Realtime!Link, l.name = n, l.inbox = <<>>, v9' \in 0..ForRealtime.MaxCalls,
         v9 <= v9', l.listeners <= v9', \A h \in ForRealtime.Handlers : l.handlers[h] <= v9',
         v4' \in Seq(Realtime!Link), Len(v4') = Len(v4) + 1, v4'[Len(v4) + 1] = l,
         \A o \in DOMAIN v4 : v4'[o] = v4[o],
         v2' = [v2 EXCEPT ![n] = Len(v4) + 1], v3' = [v3 EXCEPT ![n] = Len(v4) + 1],
         \/ v5' = v5
         \/ /\ Len(v5) < ForRealtime.MaxWriters
            /\ v5' = Append(v5, [on |-> Len(v4) + 1, closed |-> FALSE]),
         UNCHANGED <<v1, v6, v7, v8, v10, v11>>
  PROVE  Realtime!IInv'
<1> DEFINE new == Len(v4) + 1
<1>1. /\ v4 \in Seq(Realtime!Link) /\ Len(v4) \in Nat /\ new \in 1..ForRealtime.MaxLinks
      /\ DOMAIN v4 = 1..Len(v4) /\ DOMAIN v4' = 1..new /\ Len(v4) <= new
      /\ new \notin DOMAIN v4 /\ DOMAIN v4 \subseteq DOMAIN v4'
      /\ DOMAIN v4' = DOMAIN v4 \cup {new} /\ new \in Nat
  <2>1. Len(v4) \in Nat /\ v4 \in Seq(Realtime!Link) /\ DOMAIN v4 = 1..Len(v4)
    BY RealtimeRows
  <2>2. DOMAIN v4' = 1..new
    BY <2>1
  <2> QED BY <2>1, <2>2, RealtimeBounds
<1>2. /\ v5' \in Seq(WriterRow) /\ Len(v5') <= ForRealtime.MaxWriters
      /\ \A w \in DOMAIN v5 : w \in DOMAIN v5' /\ v5'[w] = v5[w]
      /\ \A w \in DOMAIN v5' : w \in DOMAIN v5 \/ v5'[w].on = new
  <2>0. v5 \in Seq(WriterRow) /\ Len(v5) \in Nat /\ Len(v5) <= ForRealtime.MaxWriters
    BY RealtimeRows
  <2>1. CASE v5' = v5
    BY <2>0, <2>1
  <2>2. CASE /\ Len(v5) < ForRealtime.MaxWriters
             /\ v5' = Append(v5, [on |-> Len(v4) + 1, closed |-> FALSE])
    <3> DEFINE x == [on |-> Len(v4) + 1, closed |-> FALSE]
    <3>1. x \in WriterRow /\ x.on = new
      BY <1>1 DEF WriterRow
    <3>2. v5' = Append(v5, x)
      BY <2>2
    <3> HIDE DEF x, new
    <3> QED BY <2>0, <2>2, <3>1, <3>2, RealtimeBounds
  <2> QED BY <2>1, <2>2
<1>3. /\ v2'[n] = new /\ \A m \in ForRealtime.Names : m # n => v2'[m] = v2[m]
      /\ v3'[n] = new /\ \A m \in ForRealtime.Names : m # n => v3'[m] = v3[m]
      /\ v2' \in [ForRealtime.Names -> 0..ForRealtime.MaxLinks]
      /\ v3' \in [ForRealtime.Names -> 0..ForRealtime.MaxLinks]
  BY <1>1, RealtimeRows, RealtimeBounds
<1>4. v4'[new] = l
  OBVIOUS
<1> HIDE DEF new
<1>5. Realtime!TypeOK'
  <2>1. v11 \subseteq DOMAIN v4' /\ Len(v4') <= ForRealtime.MaxLinks
    BY <1>1, RealtimeRows DEF new
  <2> QED BY <1>2, <1>3, <2>1 DEF Realtime!IInv, Realtime!TypeOK, WriterRow
<1>6. Realtime!RefersToMade'
  <2>1. Len(v4') = new
    BY DEF new
  <2>2. \A m \in ForRealtime.Names : v2'[m] <= new /\ v3'[m] <= new
    BY <1>1, <1>3, RealtimeRows, RealtimeBounds DEF Realtime!IInv, Realtime!RefersToMade
  <2>3. \A w \in DOMAIN v5' : v5'[w].on <= new
    <3>1. \A w \in DOMAIN v5 : v5[w].on \in 1..Len(v4)
      BY RealtimeRows
    <3> QED BY <1>1, <1>2, <3>1
  <2>4. \A r \in v6 : r.link <= new
    <3>1. \A r \in v6 : r.link \in 1..ForRealtime.MaxLinks
      BY DEF Realtime!IInv, Realtime!TypeOK
    <3> QED BY <1>1, <3>1, RealtimeBounds DEF Realtime!IInv, Realtime!RefersToMade
  <2>5. v7.link <= new
    <3>1. v7.link \in 0..ForRealtime.MaxLinks
      BY DEF Realtime!IInv, Realtime!TypeOK
    <3> QED BY <1>1, <3>1, RealtimeBounds DEF Realtime!IInv, Realtime!RefersToMade
  <2> QED BY <1>2, <2>1, <2>2, <2>3, <2>4, <2>5 DEF Realtime!IInv, Realtime!RefersToMade
<1>7. Realtime!FewerThanCalls'
  <2>1. ASSUME NEW o \in DOMAIN v4
        PROVE  v4[o].listeners <= v9' /\ \A h \in ForRealtime.Handlers : v4[o].handlers[h] <= v9'
    BY LinkTyped, RealtimeBounds
  <2> QED BY <1>1, <1>4, <2>1 DEF Realtime!FewerThanCalls
<1>8. Realtime!OpenIsKnown'
  <2>1. ASSUME NEW o \in DOMAIN v4, v4[o].joined PROVE v3'[v4[o].name] = o \/ o \in v11
    <3>1. v4[o].name \in ForRealtime.Names
      BY LinkTyped DEF Realtime!Link
    <3>2. v3[v4[o].name] = o \/ o \in v11
      BY <2>1 DEF Realtime!IInv, Realtime!StreamsAreKept, Realtime!OpenIsKnown
    <3>3. CASE v4[o].name = n /\ v3[n] = o
      <4> DEFINE x == [name |-> n, link |-> o]
      <4>1. x \in v6 /\ o # 0 /\ x.link = o
        BY <1>1, <3>3 DEF Realtime!IInv, Realtime!ClosingIsLeft
      <4> HIDE DEF x
      <4> QED BY <2>1, <4>1 DEF Realtime!IInv, Realtime!ClosingIsLeft
    <3> QED BY <1>3, <3>1, <3>2, <3>3
  <2> QED BY <1>1, <1>3, <1>4, <2>1 DEF Realtime!OpenIsKnown
<1>9. Realtime!ClosingIsLeft'
  <2>1. \A r \in v6 \cup {v7} : r.link # 0 => r.link \in DOMAIN v4
    BY <1>1, RealtimeBounds DEF Realtime!IInv, Realtime!RefersToMade, Realtime!TypeOK
  <2>2. \A m \in ForRealtime.Names :
          v2'[m] = 0 /\ v3'[m] # 0 => [name |-> m, link |-> v3'[m]] \in v6
    BY <1>1, <1>3 DEF Realtime!IInv, Realtime!ClosingIsLeft
  <2> QED BY <2>1, <2>2 DEF Realtime!IInv, Realtime!ClosingIsLeft
<1>10. Realtime!ErrorsAreLast' /\ Realtime!NothingAfterTheError'
  <2>1. Len(v4) <= Len(v4')
    BY <1>1 DEF new
  <2>2. \A o \in DOMAIN v4' : v4'[o].inbox = <<>> \/ (o \in DOMAIN v4 /\ v4'[o].inbox = v4[o].inbox)
    BY <1>1, <1>4
  <2> QED BY <1>2, <2>1, <2>2, NoMessage
<1> QED BY <1>5, <1>6, <1>7, <1>8, <1>9, <1>10 DEF Realtime!IInv, Realtime!StreamsAreKept

\* A channel just made.
LEMMA LinkNew ==
  ASSUME NEW n \in ForRealtime.Names, NEW l, l = Realtime!NewLink(n)
  PROVE  /\ l \in Realtime!Link /\ l.name = n /\ l.inbox = <<>> /\ ~l.joined /\ l.listeners = 0
         /\ \A h \in ForRealtime.Handlers : l.handlers[h] = 0
<1> DEFINE e == <<>>
           hs == Realtime!NoHandlers
<1>1. e \in Seq(Realtime!Message)
  OBVIOUS
<1>2. hs \in [ForRealtime.Handlers -> 0..ForRealtime.MaxCalls]
      /\ \A h \in ForRealtime.Handlers : hs[h] = 0
  BY RealtimeBounds DEF Realtime!NoHandlers
<1>3. l = [name |-> n, subscribed |-> FALSE, handlers |-> hs, listeners |-> 0,
           joined |-> FALSE, present |-> FALSE, inbox |-> e]
  BY DEF Realtime!NewLink
<1> HIDE DEF e, hs
<1>4. 0 \in 0..ForRealtime.MaxCalls
  BY RealtimeBounds
<1>5. l \in Realtime!Link /\ l.name = n /\ ~l.joined /\ l.listeners = 0 /\ l.inbox = e /\ l.handlers = hs
  BY <1>1, <1>2, <1>3, <1>4 DEF Realtime!Link
<1> QED BY <1>2, <1>5 DEF e

\* A handler subscribes to a name, over a channel known or a new one.
LEMMA RealtimeSubscribes ==
  ASSUME Realtime!IInv, NEW n \in ForRealtime.Names, NEW h \in ForRealtime.Handlers,
         Realtime!SubscribeStream(n, h)
  PROVE  Realtime!IInv'
<1>1. /\ v9' \in 0..ForRealtime.MaxCalls /\ v9' = v9 + 1 /\ v9 <= v9' /\ v9 < ForRealtime.MaxCalls
      /\ v9 \in 0..ForRealtime.MaxCalls
  BY RealtimeCalls, RealtimeBounds
     DEF Realtime!SubscribeStream, Realtime!Call, Realtime!IInv, Realtime!TypeOK
<1>2. /\ v4 \in Seq(Realtime!Link) /\ v2 \in [ForRealtime.Names -> 0..ForRealtime.MaxLinks]
      /\ v11 \subseteq DOMAIN v4 /\ Len(v4) \in Nat
  BY DEF Realtime!IInv, Realtime!TypeOK
<1>3. UNCHANGED <<v1, v5, v6, v7, v8, v10>>
  BY DEF Realtime!SubscribeStream
<1>4. CASE v2[n] # 0
  <2> DEFINE o == v2[n]
             l == Realtime!Subscribed(v4[o], h)
  <2>1. o \in DOMAIN v4
    BY <1>2, <1>4, RealtimeBounds DEF Realtime!IInv, Realtime!RefersToMade
  <2>2. /\ l \in Realtime!Link /\ l.name = v4[o].name /\ l.inbox = v4[o].inbox
        /\ l.joined => v4[o].joined \/ ~v4[o].subscribed
        /\ l.listeners <= v9 + 1 /\ \A g \in ForRealtime.Handlers : l.handlers[g] <= v9 + 1
    BY <1>1, <2>1, LinkSubscribed, LinkTyped
  <2>3. v4' = [v4 EXCEPT ![o] = l] /\ v3' = v3 /\ v2' = [v2 EXCEPT ![n] = o]
    BY <1>4 DEF Realtime!SubscribeStream, Realtime!Claim, Realtime!Current, Realtime!Opened
  <2>4. v2' = v2
    BY <1>2, <2>3
  <2>5. v11' = (IF ~Realtime!Held(o) /\ ~v4[o].subscribed THEN v11 \cup {o} ELSE v11)
    BY <1>4 DEF Realtime!SubscribeStream
  <2>6. Realtime!Held(o) => v3[v4[o].name] = o /\ \A r \in v6 \cup {v7} : r.link # o
    BY DEF Realtime!Held
  <2>7. v4' = [v4 EXCEPT ![o] = l] /\ v3' = v3
    BY <2>3
  <2> HIDE DEF l, o
  <2> QED BY <1>1, <1>2, <1>3, <2>1, <2>2, <2>4, <2>5, <2>6, <2>7, LinkMoves
<1>5. CASE v2[n] = 0
  <2> DEFINE k == Realtime!NewLink(n)
             l == Realtime!Subscribed(k, h)
             new == Len(v4) + 1
  <2>1. /\ k \in Realtime!Link /\ k.name = n /\ k.inbox = <<>> /\ k.listeners = 0
        /\ \A g \in ForRealtime.Handlers : k.handlers[g] = 0
    BY LinkNew
  <2>2. /\ v4' = [Append(v4, k) EXCEPT ![new] = Realtime!Subscribed(@, h)]
        /\ v3' = [v3 EXCEPT ![n] = new] /\ v2' = [v2 EXCEPT ![n] = new] /\ v11' = v11
        /\ new <= ForRealtime.MaxLinks
    BY <1>5 DEF Realtime!SubscribeStream, Realtime!Claim, Realtime!Current, Realtime!Opened
  <2> HIDE DEF k
  <2>3. 0 <= v9 /\ v9 \in 0..ForRealtime.MaxCalls
    BY <1>1, RealtimeBounds
  <2>4. /\ l \in Realtime!Link /\ l.name = n /\ l.inbox = <<>>
        /\ l.listeners <= v9 + 1 /\ \A g \in ForRealtime.Handlers : l.handlers[g] <= v9 + 1
    BY <1>1, <2>1, <2>3, LinkSubscribed
  <2>5. Append(v4, k) \in Seq(Realtime!Link) /\ Append(v4, k)[new] = k
    BY <1>2, <2>1
  <2>6. v4' = [Append(v4, k) EXCEPT ![new] = l]
    BY <2>2, <2>5
  <2> HIDE DEF l
  <2>7. /\ v4' \in Seq(Realtime!Link) /\ Len(v4') = Len(v4) + 1 /\ v4'[Len(v4) + 1] = l
        /\ \A o \in DOMAIN v4 : v4'[o] = v4[o]
    <3> DEFINE s == Append(v4, k)
    <3>1. Len(s) = new /\ \A o \in DOMAIN v4 : s[o] = v4[o] /\ o \in DOMAIN s /\ o # new
      BY <1>2, <2>1
    <3>2. s \in Seq(Realtime!Link) /\ v4' = [s EXCEPT ![new] = l] /\ l \in Realtime!Link
      BY <2>4, <2>5, <2>6
    <3>3. new \in DOMAIN s
      BY <1>2, <3>1, <3>2
    <3> HIDE DEF s
    <3>4. v4' \in Seq(Realtime!Link) /\ Len(v4') = Len(s)
      BY <3>2, <3>3
    <3>5. DOMAIN s = DOMAIN v4' /\ v4'[new] = l /\ \A o \in DOMAIN v4 : v4'[o] = v4[o]
      BY <3>1, <3>2, <3>3
    <3> QED BY <3>1, <3>4, <3>5
  <2> QED BY <1>1, <1>3, <1>5, <2>2, <2>4, <2>7, LinkOpened
<1> QED BY <1>4, <1>5

\* The channels stay; the writers grow and close.
LEMMA LinksStay ==
  ASSUME Realtime!IInv, UNCHANGED <<v2, v3, v4, v6, v7, v8, v9, v10, v11>>,
         v1' \in {"disconnected", "connected"}, v5' \in Seq(WriterRow),
         Len(v5') <= ForRealtime.MaxWriters, \A w \in DOMAIN v5' : v5'[w].on <= Len(v4),
         \A w \in DOMAIN v5 : w \in DOMAIN v5' /\ (v5[w].closed => v5'[w].closed)
  PROVE  Realtime!IInv'
<1>1. Realtime!TypeOK' /\ Realtime!RefersToMade' /\ Realtime!FewerThanCalls' /\ Realtime!ClosingIsLeft'
  BY DEF Realtime!IInv, Realtime!TypeOK, WriterRow, Realtime!RefersToMade, Realtime!FewerThanCalls,
         Realtime!ClosingIsLeft
<1>2. Realtime!ErrorsAreLast' /\ Realtime!StreamsAreKept'
  BY DEF Realtime!IInv, Realtime!ErrorsAreLast, Realtime!StreamsAreKept, Realtime!OpenIsKnown,
         Realtime!NothingAfterTheError
<1> QED BY <1>1, <1>2 DEF Realtime!IInv

\* A writer that closes.
LEMMA WriterCloses ==
  ASSUME Realtime!IInv, NEW w \in DOMAIN v5, v5' = [v5 EXCEPT ![w].closed = TRUE]
  PROVE  /\ v5' \in Seq(WriterRow) /\ Len(v5') <= ForRealtime.MaxWriters /\ DOMAIN v5' = DOMAIN v5
         /\ \A x \in DOMAIN v5 : v5'[x].on = v5[x].on /\ (v5[x].closed => v5'[x].closed)
         /\ \A x \in DOMAIN v5' : v5'[x].on <= Len(v4) /\ v5'[w].closed
<1> DEFINE c == [v5[w] EXCEPT !.closed = TRUE]
<1>1. v5 \in Seq(WriterRow) /\ Len(v5) <= ForRealtime.MaxWriters /\ v5[w] \in WriterRow
      /\ \A x \in DOMAIN v5 : v5[x].on \in 1..Len(v4)
  BY RealtimeRows
<1>2. c \in WriterRow /\ c.on = v5[w].on /\ c.closed
  BY <1>1 DEF WriterRow
<1>3. v5' = [v5 EXCEPT ![w] = c]
  OBVIOUS
<1> HIDE DEF c
<1>4. v5' \in Seq(WriterRow) /\ Len(v5') = Len(v5) /\ DOMAIN v5' = DOMAIN v5
  <2>1. v5 \in Seq(WriterRow) /\ c \in WriterRow
    BY <1>1, <1>2
  <2>2. w \in 1..Len(v5)
    BY <2>1
  <2>3. [v5 EXCEPT ![w] = c] \in Seq(WriterRow) /\ Len([v5 EXCEPT ![w] = c]) = Len(v5)
    BY <2>1, <2>2, ExceptSeq
  <2> QED BY <1>3, <2>1, <2>3
<1>5. v5'[w] = c /\ \A x \in DOMAIN v5 : x # w => v5'[x] = v5[x]
  BY <1>1, <1>3
<1>6. \A x \in DOMAIN v5 : v5[x].on <= Len(v4)
  BY <1>1, RealtimeRows
<1> QED BY <1>1, <1>2, <1>4, <1>5, <1>6

\* Connecting, opening a stream, closing a writer.
LEMMA RealtimeWriters ==
  ASSUME Realtime!IInv,
         \/ \E w \in DOMAIN v5 : Realtime!Close(w)
         \/ \E n \in ForRealtime.Names : Realtime!CreateStream(n)
         \/ Realtime!Connect
  PROVE  Realtime!IInv'
<1>1. v1 \in {"disconnected", "connected"}
  BY DEF Realtime!IInv, Realtime!TypeOK
<1>2. ASSUME NEW w \in DOMAIN v5, Realtime!Close(w) PROVE Realtime!IInv'
  <2>1. v5' = [v5 EXCEPT ![w].closed = TRUE] /\ UNCHANGED <<v1, v2, v3, v4, v6, v7, v8, v9, v10, v11>>
    BY <1>2 DEF Realtime!Close
  <2> QED BY <1>1, <2>1, WriterCloses, LinksStay
<1>3. CASE Realtime!Connect
  <2>1. v1' = "connected" /\ UNCHANGED <<v2, v3, v4, v5, v6, v7, v8, v9, v10, v11>>
    BY <1>3 DEF Realtime!Connect
  <2>2. \A w \in DOMAIN v5 : v5[w].on <= Len(v4)
    BY RealtimeRows
  <2> QED BY <2>1, <2>2, RealtimeRows, LinksStay
<1>4. ASSUME NEW n \in ForRealtime.Names, Realtime!CreateStream(n) PROVE Realtime!IInv'
  <2>1. /\ Len(v5) < ForRealtime.MaxWriters /\ Realtime!Claim(n) /\ v4' = Realtime!Opened(n)
        /\ v5' = Append(v5, [on |-> Realtime!Current(n), closed |-> FALSE])
        /\ UNCHANGED <<v1, v6, v7, v8, v9, v10, v11>>
    BY <1>4 DEF Realtime!CreateStream
  <2>2. CASE v2[n] # 0
    <3> DEFINE x == [on |-> v2[n], closed |-> FALSE]
    <3>1. v5' = Append(v5, x) /\ v4' = v4 /\ v3' = v3 /\ v2' = [v2 EXCEPT ![n] = v2[n]]
      BY <2>1, <2>2 DEF Realtime!Claim, Realtime!Opened, Realtime!Current
    <3>2. v2' = v2
      BY <3>1, RealtimeRows
    <3>3. v2[n] \in 1..ForRealtime.MaxLinks /\ v2[n] <= Len(v4)
      BY <2>2, RealtimeRows, RealtimeBounds DEF Realtime!IInv, Realtime!RefersToMade
    <3>4. x \in WriterRow /\ x.on <= Len(v4)
      BY <3>3 DEF WriterRow
    <3>5. v5 \in Seq(WriterRow) /\ \A w \in DOMAIN v5 : v5[w].on <= Len(v4)
      BY RealtimeRows
    <3>6. v5' = Append(v5, x)
      BY <3>1
    <3> HIDE DEF x
    <3>7. /\ v5' \in Seq(WriterRow) /\ Len(v5') = Len(v5) + 1 /\ v5'[Len(v5) + 1] = x
          /\ DOMAIN v5' = DOMAIN v5 \cup {Len(v5) + 1}
          /\ \A w \in DOMAIN v5 : w \in DOMAIN v5' /\ v5'[w] = v5[w]
      BY <3>4, <3>5, <3>6
    <3>8. Len(v5') <= ForRealtime.MaxWriters
      BY <2>1, <3>7, RealtimeRows, RealtimeBounds
    <3>9. \A w \in DOMAIN v5' : v5'[w].on <= Len(v4)
      BY <3>4, <3>5, <3>7
    <3> QED BY <1>1, <2>1, <3>1, <3>2, <3>7, <3>8, <3>9, LinksStay
  <2>3. CASE v2[n] = 0
    <3> DEFINE l == Realtime!NewLink(n)
               new == Len(v4) + 1
    <3>1. /\ l \in Realtime!Link /\ l.name = n /\ l.inbox = <<>> /\ l.listeners = 0
          /\ \A h \in ForRealtime.Handlers : l.handlers[h] = 0
      BY LinkNew
    <3>2. /\ v4' = Append(v4, l) /\ v3' = [v3 EXCEPT ![n] = new] /\ v2' = [v2 EXCEPT ![n] = new]
          /\ new <= ForRealtime.MaxLinks /\ v5' = Append(v5, [on |-> new, closed |-> FALSE])
      BY <2>1, <2>3 DEF Realtime!Claim, Realtime!Opened, Realtime!Current
    <3> HIDE DEF l
    <3>3. v9 \in 0..ForRealtime.MaxCalls /\ v9 <= v9 /\ 0 <= v9
      BY RealtimeBounds DEF Realtime!IInv, Realtime!TypeOK
    <3>4. /\ v4' \in Seq(Realtime!Link) /\ Len(v4') = Len(v4) + 1 /\ v4'[Len(v4) + 1] = l
          /\ \A o \in DOMAIN v4 : v4'[o] = v4[o]
      BY <3>1, <3>2, RealtimeRows
    <3> QED BY <2>1, <2>3, <3>1, <3>2, <3>3, <3>4, LinkOpened
  <2> QED BY <2>2, <2>3
<1> QED BY <1>2, <1>3, <1>4

\* A message comes after those of an inbox.
LEMMA InboxGrows ==
  ASSUME NEW l \in Realtime!Link, NEW m \in Realtime!Message, NEW k,
         k = [l EXCEPT !.inbox = Append(@, m)]
  PROVE  /\ k \in Realtime!Link /\ k.name = l.name /\ k.joined = l.joined
         /\ k.listeners = l.listeners /\ k.handlers = l.handlers /\ k.inbox = Append(l.inbox, m)
<1> DEFINE e == Append(l.inbox, m)
<1>1. l.inbox \in Seq(Realtime!Message)
  BY DEF Realtime!Link
<1>2. e \in Seq(Realtime!Message)
  BY <1>1
<1>3. k = [l EXCEPT !.inbox = e]
  OBVIOUS
<1> HIDE DEF e
<1>4. /\ k \in Realtime!Link /\ k.name = l.name /\ k.joined = l.joined
      /\ k.listeners = l.listeners /\ k.handlers = l.handlers /\ k.inbox = e
  BY <1>2, <1>3 DEF Realtime!Link
<1> QED BY <1>4 DEF e

\* The channels keep all but their inboxes.
LEMMA InboxesMove ==
  ASSUME Realtime!IInv, v4' \in Seq(Realtime!Link), Len(v4') = Len(v4),
         \A o \in DOMAIN v4 :
           /\ v4'[o].name = v4[o].name /\ v4'[o].joined = v4[o].joined
           /\ v4'[o].listeners = v4[o].listeners /\ v4'[o].handlers = v4[o].handlers,
         v5' \in Seq(WriterRow), DOMAIN v5' = DOMAIN v5, \A x \in DOMAIN v5' : v5'[x].on <= Len(v4),
         Len(v5') <= ForRealtime.MaxWriters,
         v8' \in [ForRealtime.Handlers -> Seq([link : 1..ForRealtime.MaxLinks,
                                               writer : 1..ForRealtime.MaxWriters,
                                               type : Realtime!MessageType])],
         v10' \in 0..ForRealtime.MaxSent, UNCHANGED <<v1, v2, v3, v6, v7, v9, v11>>
  PROVE  /\ Realtime!TypeOK' /\ Realtime!RefersToMade' /\ Realtime!FewerThanCalls'
         /\ Realtime!OpenIsKnown' /\ Realtime!ClosingIsLeft'
<1>1. DOMAIN v4' = DOMAIN v4
  BY RealtimeRows
<1>2. Realtime!TypeOK'
  BY <1>1 DEF Realtime!IInv, Realtime!TypeOK, WriterRow
<1>3. Realtime!RefersToMade'
  BY DEF Realtime!IInv, Realtime!RefersToMade
<1>4. Realtime!FewerThanCalls'
  BY <1>1 DEF Realtime!IInv, Realtime!FewerThanCalls
<1>5. Realtime!OpenIsKnown' /\ Realtime!ClosingIsLeft'
  BY <1>1, MapsStay
<1> QED BY <1>2, <1>3, <1>4, <1>5

\* A writer sends: the chunk, or the error that ends its stream.
LEMMA RealtimeSends ==
  ASSUME Realtime!IInv, NEW w \in DOMAIN v5,
         Realtime!Abort(w) \/ \E type \in Realtime!MessageType : Realtime!WriteChunk(w, type)
  PROVE  Realtime!IInv'
<1>1. PICK type \in Realtime!MessageType :
        /\ Realtime!Broadcast(w, type) /\ UNCHANGED <<v1, v2, v3, v6, v7, v8, v9, v11>>
        /\ \/ type # "stream-error" /\ ~v5[w].closed /\ v5' = v5
           \/ type = "stream-error" /\ v5' = [v5 EXCEPT ![w].closed = TRUE]
  <2>1. CASE Realtime!Abort(w)
    BY <2>1 DEF Realtime!Abort, Realtime!MessageType
  <2>2. ASSUME NEW type \in Realtime!MessageType, Realtime!WriteChunk(w, type)
        PROVE  /\ Realtime!Broadcast(w, type) /\ UNCHANGED <<v1, v2, v3, v6, v7, v8, v9, v11>>
               /\ type # "stream-error" /\ ~v5[w].closed /\ v5' = v5
    BY <2>2 DEF Realtime!WriteChunk
  <2> QED BY <2>1, <2>2
<1> DEFINE m == [writer |-> w, type |-> type]
           from == v4[v5[w].on].name
<1>2. m \in Realtime!Message /\ m.writer = w /\ m.type = type
  <2>1. w \in 1..ForRealtime.MaxWriters
    BY RealtimeRows, RealtimeBounds
  <2> QED BY <2>1 DEF Realtime!Message
<1>3. v10' \in 0..ForRealtime.MaxSent
  BY <1>1, RealtimeBounds DEF Realtime!Broadcast, Realtime!IInv, Realtime!TypeOK
<1>4. \/ v4' = v4
      \/ v4' = [o \in DOMAIN v4 |->
                  IF v4[o].name = from /\ v4[o].joined
                  THEN [v4[o] EXCEPT !.inbox = Append(@, m)] ELSE v4[o]]
  BY <1>1 DEF Realtime!Broadcast
<1> HIDE DEF m, from
<1>5. /\ v5' \in Seq(WriterRow) /\ DOMAIN v5' = DOMAIN v5 /\ Len(v5') <= ForRealtime.MaxWriters
      /\ \A x \in DOMAIN v5' : v5'[x].on <= Len(v4)
      /\ \A x \in DOMAIN v5 : v5[x].closed => v5'[x].closed
      /\ type = "stream-error" => v5'[w].closed
  <2>1. CASE v5' = v5 /\ type # "stream-error"
    BY <2>1, RealtimeRows
  <2>2. CASE v5' = [v5 EXCEPT ![w].closed = TRUE]
    BY <2>2, WriterCloses
  <2> QED BY <1>1, <2>1, <2>2
<1>6. /\ DOMAIN v4' = DOMAIN v4 /\ v4' \in Seq(Realtime!Link) /\ Len(v4') = Len(v4)
      /\ \A o \in DOMAIN v4 :
           /\ v4'[o] \in Realtime!Link
           /\ v4'[o].name = v4[o].name /\ v4'[o].joined = v4[o].joined
           /\ v4'[o].listeners = v4[o].listeners /\ v4'[o].handlers = v4[o].handlers
           /\ v4'[o].inbox = v4[o].inbox \/ v4'[o].inbox = Append(v4[o].inbox, m)
  <2>1. CASE v4' = v4
    BY <2>1, RealtimeRows
  <2>2. CASE v4' = [o \in DOMAIN v4 |->
                      IF v4[o].name = from /\ v4[o].joined
                      THEN [v4[o] EXCEPT !.inbox = Append(@, m)] ELSE v4[o]]
    <3>1. ASSUME NEW o \in DOMAIN v4
          PROVE  /\ v4'[o] \in Realtime!Link
                 /\ v4'[o].name = v4[o].name /\ v4'[o].joined = v4[o].joined
                 /\ v4'[o].listeners = v4[o].listeners /\ v4'[o].handlers = v4[o].handlers
                 /\ v4'[o].inbox = v4[o].inbox \/ v4'[o].inbox = Append(v4[o].inbox, m)
      <4>1. v4[o] \in Realtime!Link
        BY LinkTyped
      <4>2. CASE v4'[o] = v4[o]
        BY <4>1, <4>2
      <4>3. CASE v4'[o] = [v4[o] EXCEPT !.inbox = Append(@, m)]
        BY <1>2, <4>1, <4>3, InboxGrows
      <4> QED BY <2>2, <4>2, <4>3
    <3>2. DOMAIN v4' = 1..Len(v4) /\ Len(v4) \in Nat
      BY <2>2, RealtimeRows
    <3>3. v4' = [o \in 1..Len(v4) |-> v4'[o]]
      BY <2>2, RealtimeRows
    <3>4. v4' \in Seq(Realtime!Link) /\ Len(v4') = Len(v4)
      <4>1. \A o \in 1..Len(v4) : v4'[o] \in Realtime!Link
        BY <3>1, RealtimeRows
      <4>2. v4' \in [1..Len(v4) -> Realtime!Link]
        BY <3>3, <4>1
      <4>3. v4' \in Seq(Realtime!Link)
        BY <3>2, <4>2, SeqDef
      <4> QED BY <3>2, <4>3
    <3> QED BY <3>1, <3>2, <3>4, RealtimeRows
  <2> QED BY <1>4, <2>1, <2>2
<1>7. /\ Realtime!TypeOK' /\ Realtime!RefersToMade' /\ Realtime!FewerThanCalls'
      /\ Realtime!OpenIsKnown' /\ Realtime!ClosingIsLeft'
  <2>1. v8' = v8 /\ v8 \in [ForRealtime.Handlers -> Seq([link : 1..ForRealtime.MaxLinks,
                                               writer : 1..ForRealtime.MaxWriters,
                                               type : Realtime!MessageType])]
    BY <1>1 DEF Realtime!IInv, Realtime!TypeOK
  <2> QED BY <1>1, <1>3, <1>5, <1>6, <2>1, InboxesMove
<1>8. Realtime!NothingAfterTheError'
  BY <1>1 DEF Realtime!IInv, Realtime!StreamsAreKept, Realtime!NothingAfterTheError
<1>9. ASSUME NEW o \in DOMAIN v4, NEW j \in DOMAIN v4'[o].inbox
      PROVE  \/ j \in DOMAIN v4[o].inbox /\ v4'[o].inbox[j] = v4[o].inbox[j]
             \/ j = Len(v4[o].inbox) + 1 /\ v4'[o].inbox[j] = m
  <2>1. v4[o].inbox \in Seq(Realtime!Message)
    BY LinkTyped
  <2> DEFINE s == v4[o].inbox
             t == v4'[o].inbox
  <2>2. s \in Seq(Realtime!Message) /\ (t = s \/ t = Append(s, m)) /\ j \in DOMAIN t
    BY <1>6, <1>9, <2>1
  <2> HIDE DEF s, t
  <2>3. \/ j \in DOMAIN s /\ t[j] = s[j]
        \/ j = Len(s) + 1 /\ t[j] = m
    BY <2>2
  <2> QED BY <2>3 DEF s, t
<1>10. Realtime!ErrorsAreLast'
  <2>1. ASSUME NEW o \in DOMAIN v4, NEW i \in DOMAIN v4'[o].inbox,
               v4'[o].inbox[i].type = "stream-error"
        PROVE  /\ v4'[o].inbox[i].writer \in DOMAIN v5'
               /\ v5'[v4'[o].inbox[i].writer].closed
               /\ \A j \in DOMAIN v4'[o].inbox :
                    i < j /\ v4'[o].inbox[j].writer = v4'[o].inbox[i].writer
                      => v4'[o].inbox[j].type = "stream-error"
    <3> DEFINE s == v4[o].inbox
               t == v4'[o].inbox
    <3>1. /\ s \in Seq(Realtime!Message) /\ Len(s) \in Nat /\ DOMAIN s = 1..Len(s)
          /\ \A j \in DOMAIN t : (j \in DOMAIN s /\ t[j] = s[j]) \/ (j = Len(s) + 1 /\ t[j] = m)
      <4>1. s \in Seq(Realtime!Message)
        BY LinkTyped
      <4> QED BY <1>9, <4>1
    <3>2. \A k \in DOMAIN s : s[k].type = "stream-error" =>
            /\ s[k].writer \in DOMAIN v5 /\ v5[s[k].writer].closed
            /\ \A j \in DOMAIN s : k < j /\ s[j].writer = s[k].writer => s[j].type = "stream-error"
      BY DEF Realtime!IInv, Realtime!ErrorsAreLast
    <3> HIDE DEF s
    <3>3. CASE i \in DOMAIN s /\ t[i] = s[i]
      BY <1>1, <1>2, <1>5, <2>1, <3>1, <3>2, <3>3
    <3>4. CASE i = Len(s) + 1 /\ t[i] = m
      BY <1>2, <1>5, <2>1, <3>1, <3>4
    <3> QED BY <2>1, <3>1, <3>3, <3>4
  <2>2. ASSUME NEW h \in ForRealtime.Handlers, NEW i \in DOMAIN v8[h],
               v8[h][i].type = "stream-error"
        PROVE  /\ v8[h][i].writer \in DOMAIN v5'
               /\ v5'[v8[h][i].writer].closed
               /\ v8[h][i].link \in DOMAIN v4'
               /\ \A j \in DOMAIN v4'[v8[h][i].link].inbox :
                    v4'[v8[h][i].link].inbox[j].writer = v8[h][i].writer
                      => v4'[v8[h][i].link].inbox[j].type = "stream-error"
    <3> DEFINE x == v8[h][i]
    <3>1. /\ x.writer \in DOMAIN v5 /\ v5[x.writer].closed /\ x.link \in DOMAIN v4
          /\ \A j \in DOMAIN v4[x.link].inbox :
               v4[x.link].inbox[j].writer = x.writer => v4[x.link].inbox[j].type = "stream-error"
      BY <2>2 DEF Realtime!IInv, Realtime!ErrorsAreLast
    <3> HIDE DEF x
    <3>2. \A j \in DOMAIN v4'[x.link].inbox :
            v4'[x.link].inbox[j].writer = x.writer => v4'[x.link].inbox[j].type = "stream-error"
      BY <1>1, <1>2, <1>9, <3>1
    <3>3. x.writer \in DOMAIN v5' /\ v5'[x.writer].closed /\ x.link \in DOMAIN v4'
      BY <1>5, <1>6, <3>1
    <3> QED BY <3>2, <3>3 DEF x
  <2>3. v8' = v8
    BY <1>1
  <2> QED BY <1>6, <2>1, <2>2, <2>3 DEF Realtime!ErrorsAreLast
<1> QED BY <1>7, <1>8, <1>10 DEF Realtime!IInv, Realtime!StreamsAreKept

\* What a handler has heard.
HeardNote ==
  [link : 1..ForRealtime.MaxLinks, writer : 1..ForRealtime.MaxWriters, type : Realtime!MessageType]

\* What a handler hears of one message, however often.
LEMMA HeardAgain ==
  ASSUME NEW s \in Seq(HeardNote), NEW note \in HeardNote, NEW k \in Nat,
         NEW t, t = s \o [i \in 1..k |-> note]
  PROVE  /\ t \in Seq(HeardNote)
         /\ \A j \in DOMAIN t : (j \in DOMAIN s /\ t[j] = s[j]) \/ (j \notin DOMAIN s /\ t[j] = note)
         /\ \A i, j \in DOMAIN t : i < j /\ j \in DOMAIN s => i \in DOMAIN s
<1> DEFINE again == [i \in 1..k |-> note]
<1>1. again \in Seq(HeardNote) /\ Len(again) = k /\ \A i \in 1..k : again[i] = note
  <2>1. again \in [1..k -> HeardNote]
    OBVIOUS
  <2>2. again \in Seq(HeardNote)
    BY <2>1, SeqDef
  <2>3. DOMAIN again = 1..k
    OBVIOUS
  <2> QED BY <2>2, <2>3
<1>2. t = s \o again
  OBVIOUS
<1> HIDE DEF again
<1>3. t \in Seq(HeardNote) /\ Len(t) = Len(s) + k
  BY <1>1, <1>2
<1>4. ASSUME NEW j \in DOMAIN t
      PROVE  (j \in DOMAIN s /\ t[j] = s[j]) \/ (j \notin DOMAIN s /\ t[j] = note)
  BY <1>1, <1>2, <1>3
<1> QED BY <1>3, <1>4

\* A message is delivered: what its handlers hear comes before no chunk of its stream.
LEMMA RealtimeDelivers ==
  ASSUME Realtime!IInv, NEW o \in DOMAIN v4, Realtime!Deliver(o)
  PROVE  Realtime!IInv'
<1> DEFINE p == v4[o].inbox
           m == Head(p)
           note == [link |-> o, writer |-> m.writer, type |-> m.type]
           times(h) == v4[o].listeners * v4[o].handlers[h]
           rest == Tail(p)
           l == [v4[o] EXCEPT !.inbox = rest]
<1>1. /\ v4' = [v4 EXCEPT ![o] = l]
      /\ v8' = [h \in ForRealtime.Handlers |-> v8[h] \o [i \in 1..times(h) |-> note]]
      /\ UNCHANGED <<v1, v2, v3, v5, v6, v7, v9, v10, v11>>
  BY DEF Realtime!Deliver
<1>2. /\ p \in Seq(Realtime!Message) /\ p # <<>> /\ v4[o] \in Realtime!Link
      /\ v4[o].listeners \in 0..ForRealtime.MaxCalls
      /\ v4[o].handlers \in [ForRealtime.Handlers -> 0..ForRealtime.MaxCalls]
  BY LinkTyped DEF Realtime!Deliver
<1>3. /\ m \in Realtime!Message /\ rest \in Seq(Realtime!Message) /\ m = p[1] /\ 1 \in DOMAIN p
      /\ \A j \in DOMAIN rest : j + 1 \in DOMAIN p /\ rest[j] = p[j + 1] /\ j \in Nat /\ j >= 1
  <2> HIDE DEF p
  <2> QED BY <1>2
<1>4. note \in HeardNote /\ note.link = o /\ note.writer = m.writer /\ note.type = m.type
  <2>1. o \in 1..ForRealtime.MaxLinks
    BY RealtimeRows, RealtimeBounds
  <2>2. m.writer \in 1..ForRealtime.MaxWriters /\ m.type \in Realtime!MessageType
    BY <1>3 DEF Realtime!Message
  <2> QED BY <2>1, <2>2 DEF HeardNote
<1>5. ASSUME NEW h \in ForRealtime.Handlers
      PROVE  times(h) \in Nat
  <2> DEFINE a == v4[o].listeners
             b == v4[o].handlers[h]
  <2>1. a \in Nat /\ b \in Nat
    BY <1>2, RealtimeBounds
  <2> HIDE DEF a, b
  <2>2. a * b \in Nat
    BY <2>1
  <2> QED BY <2>2 DEF a, b
<1>6. /\ l \in Realtime!Link /\ l.name = v4[o].name /\ l.joined = v4[o].joined
      /\ l.listeners = v4[o].listeners /\ l.handlers = v4[o].handlers /\ l.inbox = rest
  <2> HIDE DEF rest
  <2> QED BY <1>2, <1>3 DEF Realtime!Link
<1> HIDE DEF p, m, note, times, rest, l
<1>7. ASSUME NEW h \in ForRealtime.Handlers
      PROVE  /\ v8[h] \in Seq(HeardNote) /\ v8'[h] \in Seq(HeardNote)
             /\ \A j \in DOMAIN v8'[h] : \/ j \in DOMAIN v8[h] /\ v8'[h][j] = v8[h][j]
                                         \/ j \notin DOMAIN v8[h] /\ v8'[h][j] = note
             /\ \A i, j \in DOMAIN v8'[h] : i < j /\ j \in DOMAIN v8[h] => i \in DOMAIN v8[h]
  <2>1. v8[h] \in Seq(HeardNote)
    BY DEF Realtime!IInv, Realtime!TypeOK, HeardNote
  <2>2. v8'[h] = v8[h] \o [i \in 1..times(h) |-> note]
    BY <1>1
  <2>3. times(h) \in Nat
    BY <1>5
  <2> DEFINE s == v8[h]
             t == v8'[h]
             k == times(h)
  <2>4. s \in Seq(HeardNote) /\ k \in Nat /\ t = s \o [i \in 1..k |-> note] /\ note \in HeardNote
    BY <1>4, <2>1, <2>2, <2>3
  <2> HIDE DEF s, t, k
  <2>5. /\ t \in Seq(HeardNote)
        /\ \A j \in DOMAIN t : (j \in DOMAIN s /\ t[j] = s[j]) \/ (j \notin DOMAIN s /\ t[j] = note)
        /\ \A i, j \in DOMAIN t : i < j /\ j \in DOMAIN s => i \in DOMAIN s
    BY <2>4, HeardAgain
  <2> QED BY <2>4, <2>5 DEF s, t
<1>8. /\ v4' \in Seq(Realtime!Link) /\ Len(v4') = Len(v4) /\ DOMAIN v4' = DOMAIN v4
      /\ v4'[o] = l /\ \A q \in DOMAIN v4 : q # o => v4'[q] = v4[q]
  <2>1. v4 \in Seq(Realtime!Link)
    BY RealtimeRows
  <2>2. l \in Realtime!Link /\ o \in 1..Len(v4) /\ v4' = [v4 EXCEPT ![o] = l]
    BY <1>1, <1>6, <2>1
  <2>3. [v4 EXCEPT ![o] = l] \in Seq(Realtime!Link) /\ Len([v4 EXCEPT ![o] = l]) = Len(v4)
    BY <2>1, <2>2, ExceptSeq
  <2> QED BY <2>1, <2>2, <2>3
<1>9. /\ Realtime!TypeOK' /\ Realtime!RefersToMade' /\ Realtime!FewerThanCalls'
      /\ Realtime!OpenIsKnown' /\ Realtime!ClosingIsLeft'
  <2>1. v8' \in [ForRealtime.Handlers -> Seq(HeardNote)]
    BY <1>1, <1>7
  <2>2. v10' \in 0..ForRealtime.MaxSent
    BY <1>1 DEF Realtime!IInv, Realtime!TypeOK
  <2>3. \A x \in DOMAIN v5' : v5'[x].on <= Len(v4)
    BY <1>1, RealtimeRows
  <2> QED BY <1>1, <1>6, <1>8, <2>1, <2>2, <2>3, RealtimeRows, InboxesMove DEF HeardNote
\* What is known of an error heard before.
<1>10. ASSUME NEW h \in ForRealtime.Handlers, NEW i \in DOMAIN v8[h], v8[h][i].type = "stream-error"
       PROVE  /\ v8[h][i].writer \in DOMAIN v5 /\ v5[v8[h][i].writer].closed
              /\ v8[h][i].link \in DOMAIN v4
              /\ \A j \in DOMAIN v4[v8[h][i].link].inbox :
                   v4[v8[h][i].link].inbox[j].writer = v8[h][i].writer
                     => v4[v8[h][i].link].inbox[j].type = "stream-error"
  BY <1>10 DEF Realtime!IInv, Realtime!ErrorsAreLast
<1>11. ASSUME NEW i \in DOMAIN p, p[i].type = "stream-error"
       PROVE  /\ p[i].writer \in DOMAIN v5 /\ v5[p[i].writer].closed
              /\ \A j \in DOMAIN p : i < j /\ p[j].writer = p[i].writer => p[j].type = "stream-error"
  BY <1>11 DEF p, Realtime!IInv, Realtime!ErrorsAreLast
<1>12. Realtime!NothingAfterTheError'
  <2> SUFFICES ASSUME NEW h \in ForRealtime.Handlers, NEW i \in DOMAIN v8'[h], NEW j \in DOMAIN v8'[h],
                      i < j, v8'[h][i].type = "stream-error", v8'[h][j].link = v8'[h][i].link,
                      v8'[h][j].writer = v8'[h][i].writer
               PROVE  v8'[h][j].type = "stream-error"
    BY DEF Realtime!NothingAfterTheError
  <2>1. CASE j \in DOMAIN v8[h]
    <3>1. /\ i \in DOMAIN v8[h] /\ v8'[h][i] = v8[h][i] /\ v8'[h][j] = v8[h][j]
      BY <1>7, <2>1
    <3> QED BY <2>1, <3>1 DEF Realtime!IInv, Realtime!StreamsAreKept, Realtime!NothingAfterTheError
  <2>2. CASE j \notin DOMAIN v8[h] /\ i \in DOMAIN v8[h]
    <3>1. v8'[h][j] = note /\ v8'[h][i] = v8[h][i]
      BY <1>7, <2>2
    <3>2. v8[h][i].link = o /\ v8[h][i].writer = m.writer
      BY <1>4, <3>1
    <3>3. m.type = "stream-error"
      BY <1>3, <1>10, <2>2, <3>1, <3>2 DEF p
    <3> QED BY <1>4, <3>1, <3>3
  <2>3. CASE j \notin DOMAIN v8[h] /\ i \notin DOMAIN v8[h]
    BY <1>7, <2>3
  <2> QED BY <2>1, <2>2, <2>3
<1>13. Realtime!ErrorsAreLast'
  <2>1. ASSUME NEW q \in DOMAIN v4, NEW i \in DOMAIN v4'[q].inbox,
               v4'[q].inbox[i].type = "stream-error"
        PROVE  /\ v4'[q].inbox[i].writer \in DOMAIN v5
               /\ v5[v4'[q].inbox[i].writer].closed
               /\ \A j \in DOMAIN v4'[q].inbox :
                    i < j /\ v4'[q].inbox[j].writer = v4'[q].inbox[i].writer
                      => v4'[q].inbox[j].type = "stream-error"
    <3>1. CASE q # o
      <4>1. v4'[q] = v4[q]
        BY <1>8, <3>1
      <4> QED BY <2>1, <4>1 DEF Realtime!IInv, Realtime!ErrorsAreLast
    <3>2. CASE q = o
      <4>1. v4'[q].inbox = rest
        BY <1>6, <1>8, <3>2
      <4>2. i + 1 \in DOMAIN p /\ rest[i] = p[i + 1] /\ i \in Nat
        BY <1>3, <4>1
      <4>3. \A j \in DOMAIN rest : i < j =>
              j + 1 \in DOMAIN p /\ rest[j] = p[j + 1] /\ i + 1 < j + 1
        BY <1>3, <4>2
      <4>4. p[i + 1].type = "stream-error"
        BY <2>1, <4>1, <4>2
      <4> QED BY <1>11, <4>1, <4>2, <4>3, <4>4
    <3> QED BY <3>1, <3>2
  <2>2. ASSUME NEW h \in ForRealtime.Handlers, NEW i \in DOMAIN v8'[h],
               v8'[h][i].type = "stream-error"
        PROVE  /\ v8'[h][i].writer \in DOMAIN v5 /\ v5[v8'[h][i].writer].closed
               /\ v8'[h][i].link \in DOMAIN v4
               /\ \A j \in DOMAIN v4'[v8'[h][i].link].inbox :
                    v4'[v8'[h][i].link].inbox[j].writer = v8'[h][i].writer
                      => v4'[v8'[h][i].link].inbox[j].type = "stream-error"
    <3> DEFINE x == v8'[h][i]
    <3>1. /\ x.writer \in DOMAIN v5 /\ v5[x.writer].closed /\ x.link \in DOMAIN v4
          /\ x.link # o => \A j \in DOMAIN v4[x.link].inbox :
               v4[x.link].inbox[j].writer = x.writer => v4[x.link].inbox[j].type = "stream-error"
          /\ x.link = o => \A j \in DOMAIN p :
               1 < j /\ p[j].writer = x.writer => p[j].type = "stream-error"
      <4>1. CASE i \in DOMAIN v8[h] /\ x = v8[h][i]
        BY <1>10, <2>2, <4>1 DEF p
      <4>2. CASE x = note
        <5>1. m.type = "stream-error" /\ x.writer = m.writer /\ x.link = o
          BY <1>4, <2>2, <4>2
        <5>2. /\ m.writer \in DOMAIN v5 /\ v5[m.writer].closed
              /\ \A j \in DOMAIN p : 1 < j /\ p[j].writer = m.writer => p[j].type = "stream-error"
          BY <1>3, <1>11, <5>1
        <5> HIDE DEF x
        <5> QED BY <5>1, <5>2
      <4> QED BY <1>7, <4>1, <4>2
    <3> HIDE DEF x
    <3>2. CASE x.link # o
      <4>1. v4'[x.link] = v4[x.link]
        BY <1>8, <3>1, <3>2
      <4>2. \A j \in DOMAIN v4'[x.link].inbox :
              v4'[x.link].inbox[j].writer = x.writer => v4'[x.link].inbox[j].type = "stream-error"
        BY <3>1, <3>2, <4>1
      <4> QED BY <3>1, <4>2 DEF x
    <3>3. CASE x.link = o
      <4>1. v4'[x.link].inbox = rest
        BY <1>6, <1>8, <3>3
      <4>2. \A j \in DOMAIN rest : j + 1 \in DOMAIN p /\ rest[j] = p[j + 1] /\ 1 < j + 1
        BY <1>3
      <4>3. \A j \in DOMAIN rest : rest[j].writer = x.writer => rest[j].type = "stream-error"
        BY <3>1, <3>3, <4>2
      <4>4. \A j \in DOMAIN v4'[x.link].inbox :
              v4'[x.link].inbox[j].writer = x.writer => v4'[x.link].inbox[j].type = "stream-error"
        BY <4>1, <4>3
      <4> QED BY <3>1, <4>4 DEF x
    <3> QED BY <3>2, <3>3
  <2>3. v5' = v5 /\ DOMAIN v4' = DOMAIN v4
    BY <1>1, <1>8
  <2> QED BY <2>1, <2>2, <2>3 DEF Realtime!ErrorsAreLast
<1> QED BY <1>9, <1>12, <1>13 DEF Realtime!IInv, Realtime!StreamsAreKept

\* The maps name channels that were made.
LEMMA MapsRefer ==
  ASSUME Realtime!IInv, NEW n \in ForRealtime.Names
  PROVE  /\ v2[n] \in 0..Len(v4) /\ v3[n] \in 0..Len(v4) /\ Len(v4) \in Nat
         /\ DOMAIN v4 = 1..Len(v4)
<1>1. v2[n] <= Len(v4) /\ v3[n] <= Len(v4)
  BY DEF Realtime!IInv, Realtime!RefersToMade
<1>2. v2[n] \in 0..ForRealtime.MaxLinks /\ v3[n] \in 0..ForRealtime.MaxLinks
  BY RealtimeRows
<1> QED BY <1>1, <1>2, RealtimeRows, RealtimeBounds

\* What closing changes: the maps and what waits, and channels that are left.
LEMMA LinksLeave ==
  ASSUME Realtime!IInv, v1' \in {"disconnected", "connected"},
         v2' \in [ForRealtime.Names -> 0..ForRealtime.MaxLinks],
         v3' \in [ForRealtime.Names -> 0..ForRealtime.MaxLinks],
         \A n \in ForRealtime.Names : v2'[n] \in {0, v2[n]} /\ v3'[n] \in {0, v3[n]},
         v4' \in Seq(Realtime!Link), Len(v4') = Len(v4),
         \A o \in DOMAIN v4 :
           /\ v4'[o].name = v4[o].name /\ v4'[o].listeners = v4[o].listeners
           /\ v4'[o].handlers \in {v4[o].handlers, [h \in ForRealtime.Handlers |-> 0]}
           /\ v4'[o].inbox \in {<<>>, v4[o].inbox} /\ (v4'[o].joined => v4[o].joined),
         v6' \subseteq [name : ForRealtime.Names, link : 1..ForRealtime.MaxLinks],
         \A r \in v6' : r.link <= Len(v4),
         v7' \in [name : ForRealtime.Names \cup {"none"}, link : 0..ForRealtime.MaxLinks],
         v7'.link <= Len(v4), v7'.name # "none" => v7'.link # 0,
         v9' \in 0..ForRealtime.MaxCalls, v9 <= v9', v11 \subseteq v11', v11' \subseteq DOMAIN v4,
         UNCHANGED <<v5, v8, v10>>, Realtime!OpenIsKnown', Realtime!ClosingIsLeft'
  PROVE  Realtime!IInv'
<1>1. DOMAIN v4' = DOMAIN v4
  BY RealtimeRows
<1>2. Realtime!TypeOK'
  BY <1>1 DEF Realtime!IInv, Realtime!TypeOK, Realtime!NoName
<1>3. Realtime!RefersToMade'
  <2>1. \A n \in ForRealtime.Names : v2'[n] <= Len(v4) /\ v3'[n] <= Len(v4)
    BY MapsRefer
  <2> QED BY <2>1 DEF Realtime!IInv, Realtime!RefersToMade, Realtime!NoName
<1>4. Realtime!FewerThanCalls'
  <2>1. ASSUME NEW o \in DOMAIN v4
        PROVE  v4'[o].listeners <= v9' /\ \A h \in ForRealtime.Handlers : v4'[o].handlers[h] <= v9'
    <3>1. v4[o].listeners <= v9' /\ \A h \in ForRealtime.Handlers : v4[o].handlers[h] <= v9'
      BY LinkTyped, RealtimeBounds
    <3>2. 0 <= v9'
      BY RealtimeBounds
    <3> QED BY <3>1, <3>2
  <2> QED BY <1>1, <2>1 DEF Realtime!FewerThanCalls
<1>5. Realtime!ErrorsAreLast' /\ Realtime!NothingAfterTheError'
  <2>1. Len(v4) <= Len(v4')
    BY RealtimeRows
  <2>2. \A o \in DOMAIN v4' : v4'[o].inbox = <<>> \/ (o \in DOMAIN v4 /\ v4'[o].inbox = v4[o].inbox)
    BY <1>1
  <2> QED BY <2>1, <2>2, NoMessage
<1> QED BY <1>2, <1>3, <1>4, <1>5 DEF Realtime!IInv, Realtime!StreamsAreKept

\* An entry is dropped: its channel was left, or is orphaned from now on.
LEMMA EntryForgotten ==
  ASSUME Realtime!IInv, NEW n \in ForRealtime.Names, NEW k \in 1..ForRealtime.MaxLinks,
         k <= Len(v4), Realtime!Forget(n, k), v4[k].joined => k \in v11
  PROVE  /\ v3' = [v3 EXCEPT ![n] = 0] /\ v11 \subseteq v11' /\ v11' \subseteq DOMAIN v4
         /\ \A o \in DOMAIN v4 : v4[o].joined => v3'[v4[o].name] = o \/ o \in v11'
<1>1. /\ v3' = [v3 EXCEPT ![n] = 0] /\ v3 \in [ForRealtime.Names -> 0..ForRealtime.MaxLinks]
      /\ v11' = (IF v3[n] \notin {0, k} THEN v11 \cup {v3[n]} ELSE v11)
  BY RealtimeRows DEF Realtime!Forget
<1>2. v11' \subseteq DOMAIN v4
  <2>1. v3[n] # 0 => v3[n] \in DOMAIN v4
    <3> DEFINE x == v3[n]
    <3>1. x \in 0..Len(v4) /\ Len(v4) \in Nat /\ DOMAIN v4 = 1..Len(v4)
      BY MapsRefer
    <3> HIDE DEF x
    <3>2. x # 0 => x \in DOMAIN v4
      BY <3>1
    <3> QED BY <3>2 DEF x
  <2>2. v11 \subseteq DOMAIN v4
    BY RealtimeRows
  <2>3. v11' = v11 \/ (v3[n] # 0 /\ v11' = v11 \cup {v3[n]})
    BY <1>1
  <2> QED BY <2>1, <2>2, <2>3
<1>3. ASSUME NEW o \in DOMAIN v4, v4[o].joined PROVE v3'[v4[o].name] = o \/ o \in v11'
  <2>1. v4[o].name \in ForRealtime.Names /\ o # 0
    <3>1. v4[o] \in Realtime!Link
      BY LinkTyped
    <3>2. o # 0
      BY RealtimeRows
    <3> QED BY <3>1, <3>2 DEF Realtime!Link
  <2>2. v3[v4[o].name] = o \/ o \in v11
    BY <1>3 DEF Realtime!IInv, Realtime!StreamsAreKept, Realtime!OpenIsKnown
  <2>3. CASE v4[o].name = n /\ v3[n] = o
    <3>1. o = k => o \in v11
      BY <1>3
    <3> QED BY <1>1, <2>1, <2>3, <3>1
  <2> QED BY <1>1, <2>1, <2>2, <2>3
<1> QED BY <1>1, <1>2, <1>3

\* The next entry is closed, or all of them are.
LEMMA RealtimeCloses ==
  ASSUME Realtime!IInv, Realtime!CloseNext(v3'), v3' \in [ForRealtime.Names -> 0..ForRealtime.MaxLinks],
         \A n \in ForRealtime.Names : v3'[n] \in {0, v3[n]},
         \A o \in DOMAIN v4 : v4[o].joined => v3'[v4[o].name] = o \/ o \in v11',
         v11 \subseteq v11', v11' \subseteq DOMAIN v4, v9' \in 0..ForRealtime.MaxCalls, v9 <= v9',
         UNCHANGED <<v5, v6, v8, v10>>
  PROVE  Realtime!IInv'
<1>1. /\ v1 \in {"disconnected", "connected"}
      /\ v6 \subseteq [name : ForRealtime.Names, link : 1..ForRealtime.MaxLinks]
      /\ \A r \in v6 : r.link <= Len(v4)
  BY DEF Realtime!IInv, Realtime!TypeOK, Realtime!RefersToMade
<1>2. \A n \in ForRealtime.Names : v3'[n] \in 0..Len(v4)
  BY MapsRefer
<1>3. \A r \in v6 : r.link \in DOMAIN v4 /\ r.link # 0 /\ (v4[r.link].joined => r.link \in v11)
  <2>1. \A r \in v6 : r.link \in 1..ForRealtime.MaxLinks
    BY <1>1
  <2>2. \A r \in v6 : r.link # 0 /\ r.link \in DOMAIN v4
    BY <1>1, <2>1, RealtimeRows, RealtimeBounds
  <2> QED BY <2>2 DEF Realtime!IInv, Realtime!ClosingIsLeft
<1>4. \A n \in ForRealtime.Names : v2[n] = 0 /\ v3'[n] # 0 => [name |-> n, link |-> v3'[n]] \in v6
  BY DEF Realtime!IInv, Realtime!ClosingIsLeft
<1>5. CASE \E n \in ForRealtime.Names :
             /\ v3'[n] # 0 /\ v7' = [name |-> n, link |-> v3'[n]]
             /\ v4' = [v4 EXCEPT ![v3'[n]] = Realtime!Left(@)] /\ UNCHANGED <<v2, v1>>
  <2> PICK n \in ForRealtime.Names :
             /\ v3'[n] # 0 /\ v7' = [name |-> n, link |-> v3'[n]]
             /\ v4' = [v4 EXCEPT ![v3'[n]] = Realtime!Left(@)] /\ UNCHANGED <<v2, v1>>
    BY <1>5
  <2> DEFINE k == v3'[n]
             l == Realtime!Left(v4[k])
             x == [name |-> n, link |-> k]
  <2>1. k \in DOMAIN v4 /\ k \in 1..ForRealtime.MaxLinks /\ k <= Len(v4) /\ k \in 1..Len(v4) /\ k # 0
    BY <1>2, MapsRefer, RealtimeRows, RealtimeBounds
  <2>2. /\ v4' = [v4 EXCEPT ![k] = l] /\ v7' = x /\ x.name = n /\ x.link = k
        /\ x \in [name : ForRealtime.Names \cup {"none"}, link : 0..ForRealtime.MaxLinks]
    BY <2>1
  <2>3. /\ l \in Realtime!Link /\ l.name = v4[k].name /\ ~l.joined /\ l.inbox = <<>>
        /\ l.listeners = v4[k].listeners /\ l.handlers = v4[k].handlers
    BY <2>1, LinkTyped, LinkLeft
  <2> HIDE DEF k, l, x
  <2>4. v4' \in Seq(Realtime!Link) /\ Len(v4') = Len(v4)
    <3>1. v4 \in Seq(Realtime!Link)
      BY RealtimeRows
    <3>2. [v4 EXCEPT ![k] = l] \in Seq(Realtime!Link) /\ Len([v4 EXCEPT ![k] = l]) = Len(v4)
      BY <2>1, <2>3, <3>1, ExceptSeq
    <3> QED BY <2>2, <3>2
  <2>5. v4'[k] = l /\ \A o \in DOMAIN v4 : o # k => v4'[o] = v4[o]
    BY <2>1, <2>2, RealtimeRows
  <2>6. \A o \in DOMAIN v4 :
           /\ v4'[o].name = v4[o].name /\ v4'[o].listeners = v4[o].listeners
           /\ v4'[o].handlers \in {v4[o].handlers, [h \in ForRealtime.Handlers |-> 0]}
           /\ v4'[o].inbox \in {<<>>, v4[o].inbox} /\ (v4'[o].joined => v4[o].joined)
    BY <2>3, <2>5
  <2>7. DOMAIN v4' = DOMAIN v4
    BY <2>4, RealtimeRows
  <2>8. Realtime!OpenIsKnown'
    BY <2>6, <2>7 DEF Realtime!OpenIsKnown
  <2>9. Realtime!ClosingIsLeft'
    <3>1. \A r \in v6 : v4'[r.link].joined => r.link \in v11'
      BY <1>3, <2>6
    <3>2. \A m \in ForRealtime.Names : v2'[m] = 0 /\ v3'[m] # 0 => [name |-> m, link |-> v3'[m]] \in v6'
      BY <1>4
    <3> QED BY <2>2, <2>3, <2>5, <3>1, <3>2 DEF Realtime!ClosingIsLeft
  <2>10. \A m \in ForRealtime.Names : v2'[m] \in {0, v2[m]} /\ v3'[m] \in {0, v3[m]}
    OBVIOUS
  <2>11. v2' \in [ForRealtime.Names -> 0..ForRealtime.MaxLinks]
    BY RealtimeRows
  <2>12. v6' \subseteq [name : ForRealtime.Names, link : 1..ForRealtime.MaxLinks]
         /\ (\A r \in v6' : r.link <= Len(v4)) /\ v1' \in {"disconnected", "connected"}
    BY <1>1
  <2>13. /\ v7' \in [name : ForRealtime.Names \cup {"none"}, link : 0..ForRealtime.MaxLinks]
         /\ v7'.link <= Len(v4) /\ v7'.link # 0
    BY <2>1, <2>2
  <2> QED BY <2>4, <2>6, <2>8, <2>9, <2>10, <2>11, <2>12, <2>13, LinksLeave
<1>6. CASE /\ \A n \in ForRealtime.Names : v3'[n] = 0
           /\ v7' = [name |-> "none", link |-> 0]
           /\ v2' = [n \in ForRealtime.Names |-> 0] /\ v1' = "disconnected" /\ v4' = v4
  <2> DEFINE x == [name |-> "none", link |-> 0]
  <2>1. /\ x \in [name : ForRealtime.Names \cup {"none"}, link : 0..ForRealtime.MaxLinks]
        /\ x.name = "none" /\ x.link = 0 /\ v7' = x
    BY <1>6, RealtimeBounds
  <2> HIDE DEF x
  <2>2. Realtime!OpenIsKnown' /\ Realtime!ClosingIsLeft'
    BY <1>3, <1>6, <2>1 DEF Realtime!OpenIsKnown, Realtime!ClosingIsLeft
  <2>3. v2' \in [ForRealtime.Names -> 0..ForRealtime.MaxLinks]
        /\ \A n \in ForRealtime.Names : v2'[n] = 0
    BY <1>6, RealtimeBounds
  <2>4. v7'.link <= Len(v4) /\ v7'.name = "none"
    BY <2>1, RealtimeRows
  <2> QED BY <1>1, <1>6, <2>1, <2>2, <2>3, <2>4, RealtimeRows, LinksLeave
<1> QED BY <1>5, <1>6 DEF Realtime!CloseNext, Realtime!NoName

\* The provider disconnects, channel by channel.
LEMMA RealtimeDisconnects ==
  ASSUME Realtime!IInv, Realtime!Disconnect \/ Realtime!DisconnectAnswered
  PROVE  Realtime!IInv'
<1>1. CASE Realtime!Disconnect
  <2>1. /\ Realtime!CloseNext(v3) /\ v3' = v3 /\ UNCHANGED <<v5, v6, v8, v10, v11>>
        /\ v9' \in 0..ForRealtime.MaxCalls /\ v9 <= v9'
    BY <1>1, RealtimeCalls DEF Realtime!Disconnect
  <2>2. Realtime!CloseNext(v3')
    BY <2>1 DEF Realtime!CloseNext
  <2>3. \A o \in DOMAIN v4 : v4[o].joined => v3'[v4[o].name] = o \/ o \in v11'
    BY <2>1 DEF Realtime!IInv, Realtime!StreamsAreKept, Realtime!OpenIsKnown
  <2> QED BY <2>1, <2>2, <2>3, RealtimeRows, RealtimeCloses
<1>2. CASE Realtime!DisconnectAnswered
  <2>1. /\ v7.name # "none" /\ Realtime!Forget(v7.name, v7.link) /\ Realtime!CloseNext(v3')
        /\ UNCHANGED <<v5, v6, v8, v9, v10>>
    BY <1>2 DEF Realtime!DisconnectAnswered, Realtime!NoName
  <2> DEFINE n == v7.name
             k == v7.link
  <2>2. /\ n \in ForRealtime.Names /\ k \in 1..ForRealtime.MaxLinks /\ k <= Len(v4)
        /\ v4[k].joined => k \in v11
    <3>1. v7 \in [name : ForRealtime.Names \cup {"none"}, link : 0..ForRealtime.MaxLinks]
      BY DEF Realtime!IInv, Realtime!TypeOK, Realtime!NoName
    <3>2. n \in ForRealtime.Names /\ k \in 0..ForRealtime.MaxLinks
      BY <2>1, <3>1
    <3>3. k <= Len(v4) /\ k # 0
      BY <2>1 DEF Realtime!IInv, Realtime!RefersToMade, Realtime!NoName
    <3> QED BY <3>2, <3>3, RealtimeBounds DEF Realtime!IInv, Realtime!ClosingIsLeft
  <2>3. Realtime!Forget(n, k)
    BY <2>1
  <2> HIDE DEF n, k
  <2>4. /\ v3' = [v3 EXCEPT ![n] = 0] /\ v11 \subseteq v11' /\ v11' \subseteq DOMAIN v4
        /\ \A o \in DOMAIN v4 : v4[o].joined => v3'[v4[o].name] = o \/ o \in v11'
    BY <2>2, <2>3, EntryForgotten
  <2>5. /\ v3' \in [ForRealtime.Names -> 0..ForRealtime.MaxLinks]
        /\ \A m \in ForRealtime.Names : v3'[m] \in {0, v3[m]}
    <3>1. v3 \in [ForRealtime.Names -> 0..ForRealtime.MaxLinks] /\ v3' = [v3 EXCEPT ![n] = 0]
      BY <2>4, RealtimeRows
    <3>2. 0 \in 0..ForRealtime.MaxLinks
      BY RealtimeBounds
    <3> QED BY <3>1, <3>2
  <2>6. v9' \in 0..ForRealtime.MaxCalls /\ v9 <= v9'
    BY <2>1, RealtimeBounds DEF Realtime!IInv, Realtime!TypeOK
  <2> QED BY <2>1, <2>4, <2>5, <2>6, RealtimeCloses
<1> QED BY <1>1, <1>2

\* A channel is removed: the entry goes when the removal is answered.
LEMMA RealtimeRemoves ==
  ASSUME Realtime!IInv, NEW n \in ForRealtime.Names, Realtime!RemoveChannel(n)
  PROVE  Realtime!IInv'
<1>1. /\ v9' \in 0..ForRealtime.MaxCalls /\ v9 <= v9' /\ v2' = [v2 EXCEPT ![n] = 0]
      /\ v4' = [o \in DOMAIN v4 |->
                 CASE o = v2[n] -> Realtime!Unsubscribed(v4[o])
                   [] o # v2[n] /\ o = v3[n] -> Realtime!Left(v4[o])
                   [] OTHER -> v4[o]]
      /\ v6' = (IF v3[n] = 0 THEN v6 ELSE v6 \cup {[name |-> n, link |-> v3[n]]})
      /\ UNCHANGED <<v1, v3, v5, v7, v8, v10, v11>>
  BY RealtimeCalls DEF Realtime!RemoveChannel
<1>2. ASSUME NEW o \in DOMAIN v4
      PROVE  /\ v4'[o] \in Realtime!Link
             /\ v4'[o].name = v4[o].name /\ v4'[o].listeners = v4[o].listeners
             /\ v4'[o].handlers \in {v4[o].handlers, [h \in ForRealtime.Handlers |-> 0]}
             /\ v4'[o].inbox \in {<<>>, v4[o].inbox} /\ (v4'[o].joined => v4[o].joined)
             /\ o \in {v2[n], v3[n]} => ~v4'[o].joined
  <2>1. v4[o] \in Realtime!Link
    BY LinkTyped
  <2>2. CASE o = v2[n]
    <3>1. v4'[o] = Realtime!Unsubscribed(v4[o])
      BY <1>1, <2>2
    <3> QED BY <2>1, <3>1, LinkLeft
  <2>3. CASE o # v2[n] /\ o = v3[n]
    <3>1. v4'[o] = Realtime!Left(v4[o])
      BY <1>1, <2>3
    <3> QED BY <2>1, <2>3, <3>1, LinkLeft
  <2>4. CASE o # v2[n] /\ o # v3[n]
    <3>1. v4'[o] = v4[o]
      BY <1>1, <2>4
    <3> QED BY <2>1, <2>4, <3>1
  <2> QED BY <2>2, <2>3, <2>4
<1>3. v4' \in Seq(Realtime!Link) /\ Len(v4') = Len(v4) /\ DOMAIN v4' = DOMAIN v4
  <2>1. DOMAIN v4' = 1..Len(v4) /\ Len(v4) \in Nat /\ DOMAIN v4 = 1..Len(v4)
    BY <1>1, RealtimeRows
  <2>2. v4' = [o \in 1..Len(v4) |-> v4'[o]]
    BY <1>1, <2>1
  <2>3. \A o \in 1..Len(v4) : v4'[o] \in Realtime!Link
    BY <1>2, <2>1
  <2>4. v4' \in [1..Len(v4) -> Realtime!Link]
    BY <2>2, <2>3
  <2>5. v4' \in Seq(Realtime!Link)
    BY <2>1, <2>4, SeqDef
  <2> QED BY <2>1, <2>5
<1>4. /\ v1 \in {"disconnected", "connected"}
      /\ v6 \subseteq [name : ForRealtime.Names, link : 1..ForRealtime.MaxLinks]
      /\ v7 \in [name : ForRealtime.Names \cup {"none"}, link : 0..ForRealtime.MaxLinks]
      /\ v7.link <= Len(v4) /\ (v7.name # "none" => v7.link # 0)
      /\ \A r \in v6 : r.link <= Len(v4)
  BY DEF Realtime!IInv, Realtime!TypeOK, Realtime!RefersToMade, Realtime!NoName
<1> DEFINE x == [name |-> n, link |-> v3[n]]
<1>5. /\ x.name = n /\ x.link = v3[n] /\ v3[n] \in 0..Len(v4)
      /\ v3[n] # 0 => /\ x \in [name : ForRealtime.Names, link : 1..ForRealtime.MaxLinks]
                      /\ v3[n] \in DOMAIN v4
  <2> DEFINE k == v3[n]
  <2>1. k \in 0..Len(v4) /\ Len(v4) \in Nat /\ DOMAIN v4 = 1..Len(v4) /\ Len(v4) <= ForRealtime.MaxLinks
    BY MapsRefer, RealtimeRows
  <2> HIDE DEF k
  <2>2. k # 0 => k \in DOMAIN v4 /\ k \in 1..ForRealtime.MaxLinks
    BY <2>1, RealtimeBounds
  <2> QED BY <2>1, <2>2 DEF k
<1>6. v6' = v6 \/ (v3[n] # 0 /\ v6' = v6 \cup {x})
  BY <1>1
<1> HIDE DEF x
<1>7. /\ v6' \subseteq [name : ForRealtime.Names, link : 1..ForRealtime.MaxLinks]
      /\ \A r \in v6' : r.link <= Len(v4)
  BY <1>4, <1>5, <1>6, RealtimeRows
<1>8. /\ v2' \in [ForRealtime.Names -> 0..ForRealtime.MaxLinks]
      /\ \A m \in ForRealtime.Names : v2'[m] \in {0, v2[m]} /\ (m # n => v2'[m] = v2[m])
  <2>1. v2 \in [ForRealtime.Names -> 0..ForRealtime.MaxLinks] /\ v2' = [v2 EXCEPT ![n] = 0]
    BY <1>1, RealtimeRows
  <2>2. 0 \in 0..ForRealtime.MaxLinks
    BY RealtimeBounds
  <2> QED BY <2>1, <2>2
<1>9. Realtime!OpenIsKnown'
  BY <1>1, <1>2, <1>3 DEF Realtime!OpenIsKnown, Realtime!IInv, Realtime!StreamsAreKept
<1>10. Realtime!ClosingIsLeft'
  <2>1. \A r \in v6 \cup {v7} : r.link # 0 => r.link \in DOMAIN v4 /\ (v4[r.link].joined => r.link \in v11)
    <3>1. \A r \in v6 \cup {v7} : r.link # 0 => r.link \in DOMAIN v4
      <4>1. \A r \in v6 \cup {v7} : r.link \in 0..ForRealtime.MaxLinks /\ r.link <= Len(v4)
        BY <1>4
      <4> QED BY <4>1, RealtimeRows, RealtimeBounds
    <3> QED BY <3>1 DEF Realtime!IInv, Realtime!ClosingIsLeft
  <2>2. \A r \in v6 \cup {v7} : r.link # 0 /\ v4'[r.link].joined => r.link \in v11
    BY <1>2, <2>1
  <2>3. v3[n] # 0 => ~v4'[v3[n]].joined
    BY <1>2, <1>5
  <2>4. \A r \in v6' \cup {v7'} : r.link # 0 /\ v4'[r.link].joined => r.link \in v11'
    BY <1>1, <1>5, <1>6, <2>2, <2>3
  <2>5. ASSUME NEW m \in ForRealtime.Names, v2'[m] = 0, v3[m] # 0
        PROVE  [name |-> m, link |-> v3[m]] \in v6'
    <3>1. CASE m = n
      BY <1>6, <2>5, <3>1, <1>1
    <3>2. CASE m # n
      <4>1. [name |-> m, link |-> v3[m]] \in v6
        BY <1>8, <2>5, <3>2 DEF Realtime!IInv, Realtime!ClosingIsLeft
      <4> QED BY <1>6, <4>1
    <3> QED BY <3>1, <3>2
  <2> QED BY <1>1, <2>4, <2>5 DEF Realtime!ClosingIsLeft
<1> QED BY <1>1, <1>2, <1>3, <1>4, <1>7, <1>8, <1>9, <1>10, RealtimeRows, LinksLeave

\* A removal is answered.
LEMMA RemovalAnswers ==
  ASSUME Realtime!IInv, NEW r \in v6, Realtime!RemovalAnswered(r)
  PROVE  Realtime!IInv'
<1> DEFINE n == r.name
           k == r.link
<1>1. /\ v6' = v6 \ {r} /\ Realtime!Forget(n, k) /\ UNCHANGED <<v1, v2, v4, v5, v7, v8, v9, v10>>
  BY DEF Realtime!RemovalAnswered
<1>2. /\ v1 \in {"disconnected", "connected"} /\ v9 \in 0..ForRealtime.MaxCalls
      /\ v6 \subseteq [name : ForRealtime.Names, link : 1..ForRealtime.MaxLinks]
      /\ v7 \in [name : ForRealtime.Names \cup {"none"}, link : 0..ForRealtime.MaxLinks]
      /\ v7.link <= Len(v4) /\ (v7.name # "none" => v7.link # 0)
      /\ \A q \in v6 : q.link <= Len(v4)
  BY DEF Realtime!IInv, Realtime!TypeOK, Realtime!RefersToMade, Realtime!NoName
<1>3. /\ n \in ForRealtime.Names /\ k \in 1..ForRealtime.MaxLinks /\ k <= Len(v4)
      /\ v4[k].joined => k \in v11
  <2>1. n \in ForRealtime.Names /\ k \in 1..ForRealtime.MaxLinks /\ k # 0
    BY <1>2
  <2> QED BY <1>2, <2>1 DEF Realtime!IInv, Realtime!ClosingIsLeft
<1>4. \A m \in ForRealtime.Names : m # n /\ v3[m] # 0 /\ v2[m] = 0 => [name |-> m, link |-> v3[m]] \in v6'
  <2>1. ASSUME NEW m \in ForRealtime.Names, m # n, v3[m] # 0, v2[m] = 0
        PROVE  [name |-> m, link |-> v3[m]] \in v6'
    <3> DEFINE x == [name |-> m, link |-> v3[m]]
    <3>1. x \in v6 /\ x.name = m
      BY <2>1 DEF Realtime!IInv, Realtime!ClosingIsLeft
    <3>2. r.name # m
      BY <2>1
    <3> HIDE DEF x
    <3>3. x \in v6'
      BY <1>1, <3>1, <3>2
    <3> QED BY <3>3 DEF x
  <2> QED BY <2>1
<1> HIDE DEF n, k
<1>5. /\ v3' = [v3 EXCEPT ![n] = 0] /\ v11 \subseteq v11' /\ v11' \subseteq DOMAIN v4
      /\ \A o \in DOMAIN v4 : v4[o].joined => v3'[v4[o].name] = o \/ o \in v11'
  BY <1>1, <1>3, EntryForgotten
<1>6. /\ v3' \in [ForRealtime.Names -> 0..ForRealtime.MaxLinks] /\ v3'[n] = 0
      /\ \A m \in ForRealtime.Names : v3'[m] \in {0, v3[m]} /\ (m # n => v3'[m] = v3[m])
  <2>1. v3 \in [ForRealtime.Names -> 0..ForRealtime.MaxLinks] /\ v3' = [v3 EXCEPT ![n] = 0]
    BY <1>5, RealtimeRows
  <2>2. 0 \in 0..ForRealtime.MaxLinks
    BY RealtimeBounds
  <2> QED BY <1>3, <2>1, <2>2
<1>7. Realtime!OpenIsKnown'
  BY <1>1, <1>5 DEF Realtime!OpenIsKnown
<1>8. Realtime!ClosingIsLeft'
  <2>1. \A q \in v6' \cup {v7'} : q.link # 0 /\ v4'[q.link].joined => q.link \in v11'
    BY <1>1, <1>5 DEF Realtime!IInv, Realtime!ClosingIsLeft
  <2>2. \A m \in ForRealtime.Names : v2'[m] = 0 /\ v3'[m] # 0 => [name |-> m, link |-> v3'[m]] \in v6'
    BY <1>1, <1>4, <1>6
  <2> QED BY <2>1, <2>2 DEF Realtime!ClosingIsLeft
<1>9. v9 <= v9' /\ v9' \in 0..ForRealtime.MaxCalls /\ v2' = v2 /\ v4' = v4 /\ v7' = v7
      /\ v6' \subseteq v6 /\ v1' = v1
  BY <1>1, <1>2, RealtimeBounds
<1>10. \A m \in ForRealtime.Names : v2'[m] \in {0, v2[m]}
  BY <1>9
<1> QED BY <1>1, <1>2, <1>5, <1>6, <1>7, <1>8, <1>9, <1>10, RealtimeRows, LinksLeave

\* Every step keeps the invariant.
LEMMA RealtimeInductive ==
  ASSUME Realtime!IInv, [Realtime!Next]_(Realtime!vars)
  PROVE  Realtime!IInv'
<1>1. CASE UNCHANGED Realtime!vars
  <2>1. UNCHANGED <<v1, v2, v3, v4, v5, v6, v7, v8, v9, v10, v11>>
    BY <1>1 DEF Realtime!vars
  <2>2. v1 \in {"disconnected", "connected"} /\ \A w \in DOMAIN v5 : v5[w].on <= Len(v4)
    <3>1. \A w \in DOMAIN v5 : v5[w].on <= Len(v4)
      BY RealtimeRows
    <3> QED BY <3>1 DEF Realtime!IInv, Realtime!TypeOK
  <2>3. v5 \in Seq(WriterRow) /\ Len(v5) <= ForRealtime.MaxWriters
    BY RealtimeRows
  <2> QED BY <2>1, <2>2, <2>3, LinksStay
<1>2. ASSUME NEW n \in ForRealtime.Names,
             \/ Realtime!RemoveChannel(n) \/ Realtime!CreateStream(n)
             \/ \E h \in ForRealtime.Handlers : Realtime!SubscribeStream(n, h)
      PROVE  Realtime!IInv'
  BY <1>2, RealtimeRemoves, RealtimeWriters, RealtimeSubscribes
<1>3. ASSUME NEW o \in DOMAIN v4,
             \/ \E h \in ForRealtime.Handlers : Realtime!Subscribe(o, h) \/ Realtime!GiveUp(o, h)
             \/ Realtime!Unsubscribe(o) \/ \E there \in BOOLEAN : Realtime!Present(o, there)
             \/ Realtime!Deliver(o)
      PROVE  Realtime!IInv'
  BY <1>3, RealtimeLinks, RealtimeDelivers
<1>4. ASSUME NEW r \in v6, Realtime!RemovalAnswered(r) PROVE Realtime!IInv'
  BY <1>4, RemovalAnswers
<1>5. CASE Realtime!Disconnect \/ Realtime!DisconnectAnswered \/ Realtime!Connect
  BY <1>5, RealtimeDisconnects, RealtimeWriters
<1>6. ASSUME NEW w \in DOMAIN v5,
             \/ Realtime!Close(w) \/ Realtime!Abort(w)
             \/ \E type \in Realtime!MessageType : Realtime!WriteChunk(w, type)
      PROVE  Realtime!IInv'
  BY <1>6, RealtimeWriters, RealtimeSends
<1> QED BY <1>1, <1>2, <1>3, <1>4, <1>5, <1>6 DEF Realtime!Next

\* A channel that the client has joined is one the provider will close, but for those
\* orphaned by a removal; and over one channel no chunk of a stream is heard after
\* the stream's error.
THEOREM StreamsEndAtTheirError == Services => []StreamsAreKept
<1> DEFINE Kept == running = "realtime" => Realtime!IInv
<1>1. ServicesInit => Kept
  BY RealtimeAlone, RealtimeFirst
<1>2. Kept /\ [ServicesNext]_<<running, vars, slots>> => Kept'
  <2> SUFFICES ASSUME Kept, [ServicesNext]_<<running, vars, slots>>, running' = "realtime"
               PROVE  Realtime!IInv'
    OBVIOUS
  <2>1. running = "realtime"
    BY DEF ServicesNext, In
  <2> QED BY <2>1, RealtimeAlone, RealtimeInductive
<1>3. Kept => StreamsAreKept
  BY DEF StreamsAreKept, Realtime!IInv
<1> QED BY <1>1, <1>2, <1>3, PTL DEF Services

-----------------------------------------------------------------------------
(* The start of a server.  v1: env, v2: phase, v3: initialized, v4: slots,  *)
(* v5: ready, v6: now, v7: probe, v8: check, v9: calls.                     *)

\* Only the server's steps change its variables.
LEMMA ServingAlone ==
  ASSUME running = "startup"
  PROVE  /\ ServicesInit => Serving!Init
         /\ [ServicesNext]_<<running, vars, slots>> =>
              running' = running /\ [Serving!Next]_(Serving!vars)
  BY DEF ServicesInit, ServicesNext, In, slots, Serving!vars

\* The bounds are natural numbers, and None is no provider, store or result.
ProbeResult == [healthy : BOOLEAN, at : 0..ForServing.MaxTime]
LEMMA ServingBounds ==
  /\ ForServing.TTL \in Nat /\ ForServing.TTL # 0 /\ ForServing.MaxTime \in Nat
  /\ None \notin {"cognito", "mock", "acrcloud", "supabase", "upstash", "memory"}
  /\ None \notin ProbeResult
  BY ServicesAssumption DEF Serving!StartupAssumption, ProbeResult

\* What a slot may hold, and the slots by their names.
Holdable == {None, "cognito", "mock", "acrcloud", "supabase", "upstash", "memory"}
HealthCheck ==
  [at : {"idle", "waiting", "answered"}, asked : 0..ForServing.MaxTime, healthy : BOOLEAN,
   measured : 0..ForServing.MaxTime]
ProbeState == [last : ProbeResult \cup {None}, out : BOOLEAN]

ServingTyped(s1, s2, s3, s4, s5, s6, s7, s8, s9) ==
  /\ s1 \in ForServing.Environments /\ s2 \in {"starting", "serving", "aborted"}
  /\ s3 \in BOOLEAN /\ s5 \in BOOLEAN
  /\ s4 \in [Serving!Slots -> Holdable] /\ s6 \in 0..ForServing.MaxTime
  /\ s7 \in ProbeState /\ s8 \in [Calls -> HealthCheck] /\ s9 \in Nat

LEMMA ServingTypes ==
  /\ Serving!TypeOK <=> ServingTyped(v1, v2, v3, v4, v5, v6, v7, v8, v9)
  /\ Serving!TypeOK' <=> ServingTyped(v1', v2', v3', v4', v5', v6', v7', v8', v9')
<1>1. {None, "cognito", "mock", "acrcloud"} \cup Serving!Limiters = Holdable
  BY DEF Serving!Limiters, Holdable
<1> QED BY <1>1 DEF Serving!TypeOK, ServingTyped, HealthCheck, ProbeState, ProbeResult

LEMMA SlotNames ==
  /\ DOMAIN Serving!Order = 1..14 /\ Len(Serving!Order) = 14
  /\ \A s \in Serving!Slots : \E i \in 1..14 : Serving!Order[i] = s
  /\ {"AUTH_PROVIDER", "RATE_LIMIT_STORE"} \subseteq Serving!Slots
  /\ Serving!Stores \subseteq Serving!Slots
<1>1. DOMAIN Serving!Order = 1..14 /\ Len(Serving!Order) = 14
  BY DEF Serving!Order
<1>2. Serving!Order[1] = "AUTH_PROVIDER" /\ Serving!Order[12] = "RATE_LIMIT_STORE"
  BY DEF Serving!Order
<1> QED BY <1>1, <1>2 DEF Serving!Slots, Serving!Stores

\* The names of a store's slots differ from the others'.
LEMMA StoreNames ==
  \A s \in Serving!Stores : s \notin {"AUTH_PROVIDER", "SONG_ID_PROVIDER", "RATE_LIMIT_STORE"}
  BY DEF Serving!Stores

-----------------------------------------------------------------------------
(* What fills a slot *)

\* What is to fill it is one of those, or it is refused.
LEMMA FilledTyped ==
  ASSUME NEW e, NEW s \in Serving!Slots, NEW held \in Holdable
  PROVE  Serving!Filled(e, s, held) \in Holdable \cup {"refused"}
<1>1. Serving!AuthSlot(e, held) \in Holdable
  BY DEF Serving!AuthSlot, Holdable
<1>2. Serving!SongIdSlot(e) \in Holdable
  BY DEF Serving!SongIdSlot, Holdable
<1>3. \A type : Serving!CreateLimiter(e, type) \in Holdable \cup {"refused"}
  BY DEF Serving!CreateLimiter, Serving!Refused, Holdable
<1>4. Serving!LimiterSlot(e, held) \in Holdable \cup {"refused"}
  BY <1>3 DEF Serving!LimiterSlot, Serving!Refused
<1>5. Serving!StoreSlot(e, s, held) \in Holdable \cup {"refused"}
  BY DEF Serving!StoreSlot, Serving!FromSupabase, Serving!Remembered, Serving!Refused, Holdable
<1> QED BY <1>1, <1>2, <1>4, <1>5 DEF Serving!Filled

InMemory == Serving!IsHarness("E2E_IN_MEMORY_STORES")
DoubledAuth == Serving!IsHarness("E2E_TEST_DOUBLE_AUTH")
Shared == {"supabase", "upstash"}

\* In production only a harness may keep anything in memory.
LEMMA MemoryIsHarness ==
  ASSUME v1.production, Serving!MemoryIsAllowed(v1)
  PROVE  InMemory
  BY DEF Serving!MemoryIsAllowed, Serving!HarnessAllowed, InMemory, Serving!IsHarness

\* A store that is not refused is shared.
LEMMA StoreIsShared ==
  ASSUME v1.production, NEW s \in Serving!Stores, NEW held \in Holdable,
         Serving!Filled(v1, s, held) # "refused"
  PROVE  Serving!Filled(v1, s, held) \in Shared \/ InMemory
<1>1. Serving!Filled(v1, s, held) = Serving!StoreSlot(v1, s, held)
  BY StoreNames DEF Serving!Filled
<1> QED BY <1>1, MemoryIsHarness DEF Serving!StoreSlot, Serving!FromSupabase, Serving!Refused, Shared

\* The declared settings have accepted shapes.
LEMMA ShapesHold ==
  ASSUME Serving!ContractHolds(v1)
  PROVE  /\ Serving!Resolve(v1, "AUTH_PROVIDER") \in {"cognito", "mock", None}
         /\ Serving!Resolve(v1, "RATE_LIMIT_STORE") \in {"supabase", "upstash", "memory", None}
<1>1. /\ {"AUTH_PROVIDER", "RATE_LIMIT_STORE"} \subseteq DOMAIN Serving!Shape
      /\ Serving!Shape["AUTH_PROVIDER"] = {"cognito", "mock"}
      /\ Serving!Shape["RATE_LIMIT_STORE"] = {"supabase", "upstash", "memory"}
  BY DEF Serving!Shape, Serving!Limiters
<1> QED BY <1>1 DEF Serving!ContractHolds, Serving!WellShaped

\* The limiter that is not refused is shared.
LEMMA LimiterIsShared ==
  ASSUME v1.production, Serving!ContractHolds(v1), NEW held \in Holdable,
         Serving!Filled(v1, "RATE_LIMIT_STORE", held) # "refused"
  PROVE  Serving!Filled(v1, "RATE_LIMIT_STORE", held) \in Shared \/ InMemory
<1>1. Serving!Filled(v1, "RATE_LIMIT_STORE", held) = Serving!LimiterSlot(v1, held)
  BY DEF Serving!Filled
<1>2. Serving!LimiterType(v1) \in {"supabase", "upstash", "memory"}
  BY ShapesHold, ServingBounds DEF Serving!LimiterType
<1>3. CASE Serving!LimiterType(v1) = "memory"
  BY <1>1, <1>3, MemoryIsHarness DEF Serving!LimiterSlot, Serving!Refused
<1>4. CASE Serving!LimiterType(v1) \in Shared
  BY <1>1, <1>4 DEF Serving!LimiterSlot, Serving!Limiters, Serving!CreateLimiter, Serving!Refused, Shared
<1> QED BY <1>2, <1>3, <1>4 DEF Shared

\* The sign-in is real, or a harness doubles it.
LEMMA AuthIsReal ==
  ASSUME v1.production, Serving!ContractHolds(v1), NEW held \in Holdable,
         held \in {None, "cognito"} \/ DoubledAuth
  PROVE  /\ Serving!Filled(v1, "AUTH_PROVIDER", held) # None
         /\ Serving!Filled(v1, "AUTH_PROVIDER", held) \in {None, "cognito"} \/ DoubledAuth
<1>1. Serving!Filled(v1, "AUTH_PROVIDER", held) = Serving!AuthSlot(v1, held)
  BY DEF Serving!Filled
<1>2. Serving!AuthSlot(v1, held) # None
  BY ServingBounds DEF Serving!AuthSlot
<1>3. ASSUME Serving!DoublesAuth(v1) PROVE DoubledAuth
  BY <1>3 DEF Serving!ContractHolds, Serving!HarnessAllowed, DoubledAuth, Serving!IsHarness
<1>4. ASSUME ~Serving!DoublesAuth(v1), held \in {None, "cognito"}
      PROVE  Serving!AuthSlot(v1, held) = "cognito"
  <2>1. Serving!Resolve(v1, "AUTH_PROVIDER") = "cognito" /\ Serving!Resolve(v1, "COGNITO_IDS") # None
    BY <1>4, ShapesHold DEF Serving!DoublesAuth, Serving!ContractHolds
  <2> QED BY <1>4, <2>1 DEF Serving!AuthSlot
<1> QED BY <1>1, <1>2, <1>3, <1>4

-----------------------------------------------------------------------------
(* The start *)

\* What initProviders leaves: each slot as it was or filled, under the contract in
\* production; and when nothing was refused, all of them are filled.
Fills(s) ==
  /\ v1.production => Serving!ContractHolds(v1)
  /\ Serving!Filled(v1, s, v4[s]) # "refused"
  /\ Serving!InitProviders(v1, v4).slots[s] = Serving!Filled(v1, s, v4[s])

LEMMA SlotsAreFilled ==
  ASSUME v4 \in [Serving!Slots -> Holdable]
  PROVE  /\ Serving!InitProviders(v1, v4).slots \in [Serving!Slots -> Holdable]
         /\ Serving!InitProviders(v1, v4).refused \in BOOLEAN
         /\ \A s \in Serving!Slots :
              Serving!InitProviders(v1, v4).slots[s] = v4[s] \/ Fills(s)
         /\ ~Serving!InitProviders(v1, v4).refused => \A s \in Serving!Slots : Fills(s)
<1> DEFINE new == [s \in Serving!Slots |-> Serving!Filled(v1, s, v4[s])]
           Reached(i) == /\ v1.production => Serving!ContractHolds(v1)
                         /\ \A j \in 1..i : new[Serving!Order[j]] # "refused"
           after == [s \in Serving!Slots |->
                       IF \E i \in DOMAIN Serving!Order : Serving!Order[i] = s /\ Reached(i)
                       THEN new[s] ELSE v4[s]]
<1>1. Serving!InitProviders(v1, v4) = [slots |-> after, refused |-> ~Reached(14)]
  BY SlotNames DEF Serving!InitProviders, Serving!Refused
<1>2. \A s \in Serving!Slots : new[s] = Serving!Filled(v1, s, v4[s])
  OBVIOUS
<1>3. \A i \in 1..14 : Reached(i) => new[Serving!Order[i]] # "refused"
  OBVIOUS
<1>4. Reached(14) => \A i \in 1..14 : Reached(i)
  OBVIOUS
<1>5. \A i : Reached(i) => (v1.production => Serving!ContractHolds(v1))
  OBVIOUS
<1>6. Reached(14) \in BOOLEAN
  OBVIOUS
<1>7. \A s \in Serving!Slots :
        after[s] = IF \E i \in DOMAIN Serving!Order : Serving!Order[i] = s /\ Reached(i)
                   THEN new[s] ELSE v4[s]
  OBVIOUS
<1>8. DOMAIN after = Serving!Slots /\ after = [s \in Serving!Slots |-> after[s]]
  OBVIOUS
<1> HIDE DEF new, Reached, after
<1>9. ASSUME NEW s \in Serving!Slots, NEW i \in 1..14, Serving!Order[i] = s, Reached(i)
      PROVE  after[s] = Serving!Filled(v1, s, v4[s]) /\ Fills(s)
  <2>1. after[s] = Serving!Filled(v1, s, v4[s]) /\ new[s] # "refused"
    BY <1>2, <1>3, <1>7, <1>9, SlotNames
  <2> QED BY <1>1, <1>2, <1>5, <1>9, <2>1 DEF Fills
<1>10. ASSUME NEW s \in Serving!Slots PROVE after[s] = v4[s] \/ Fills(s)
  BY <1>7, <1>9, SlotNames
<1>11. ASSUME NEW s \in Serving!Slots PROVE after[s] \in Holdable
  <2>1. v4[s] \in Holdable
    OBVIOUS
  <2>2. Fills(s) => after[s] \in Holdable
    BY <1>1, <2>1, FilledTyped DEF Fills
  <2> QED BY <1>10, <2>1, <2>2
<1>12. after \in [Serving!Slots -> Holdable]
  BY <1>8, <1>11
<1>13. Reached(14) => \A s \in Serving!Slots : Fills(s)
  BY <1>4, <1>9, SlotNames
<1>14. Serving!InitProviders(v1, v4).slots = after
  BY <1>1
<1>15. Serving!InitProviders(v1, v4).refused \in BOOLEAN
  BY <1>1, <1>6
<1>16. ~Serving!InitProviders(v1, v4).refused => Reached(14)
  <2>1. Serving!InitProviders(v1, v4).refused = ~Reached(14)
    BY <1>1
  <2> QED BY <2>1
<1> QED BY <1>10, <1>12, <1>13, <1>14, <1>15, <1>16

\* A production process's slots after that.
LEMMA FilledUnderContract ==
  ASSUME v4 \in [Serving!Slots -> Holdable], v1.production,
         v4["AUTH_PROVIDER"] \in {None, "cognito"} \/ DoubledAuth
  PROVE  /\ Serving!InitProviders(v1, v4).slots["AUTH_PROVIDER"] \in {None, "cognito"}
              \/ DoubledAuth
         /\ ~Serving!InitProviders(v1, v4).refused =>
              /\ Serving!InitProviders(v1, v4).slots["AUTH_PROVIDER"] # None
              /\ \A s \in Serving!Stores \cup {"RATE_LIMIT_STORE"} :
                   Serving!InitProviders(v1, v4).slots[s] \in Shared \/ InMemory
<1> DEFINE r == Serving!InitProviders(v1, v4)
<1>1. v4["AUTH_PROVIDER"] \in Holdable /\ v4["RATE_LIMIT_STORE"] \in Holdable
  BY SlotNames
<1>2. Fills("AUTH_PROVIDER") =>
        /\ r.slots["AUTH_PROVIDER"] # None
        /\ r.slots["AUTH_PROVIDER"] \in {None, "cognito"} \/ DoubledAuth
  BY <1>1, AuthIsReal DEF Fills
<1>3. r.slots["AUTH_PROVIDER"] \in {None, "cognito"} \/ DoubledAuth
  BY <1>2, SlotsAreFilled, SlotNames
<1>4. Fills("RATE_LIMIT_STORE") => r.slots["RATE_LIMIT_STORE"] \in Shared \/ InMemory
  BY <1>1, LimiterIsShared DEF Fills
<1>5. ASSUME NEW s \in Serving!Stores, Fills(s) PROVE r.slots[s] \in Shared \/ InMemory
  <2>1. v4[s] \in Holdable
    BY SlotNames
  <2> QED BY <1>5, <2>1, StoreIsShared DEF Fills
<1>6. ~r.refused => \A s \in Serving!Slots : Fills(s)
  BY SlotsAreFilled
<1> HIDE DEF r
<1>7. ASSUME ~r.refused
      PROVE  /\ r.slots["AUTH_PROVIDER"] # None
             /\ \A s \in Serving!Stores \cup {"RATE_LIMIT_STORE"} :
                  r.slots[s] \in Shared \/ InMemory
  BY <1>2, <1>4, <1>5, <1>6, <1>7, SlotNames
<1> QED BY <1>3, <1>7 DEF r

\* The invariant's parts, in the module's variables.
Ready(s2, s3, s4, s5) ==
  v1.production =>
    /\ s4["AUTH_PROVIDER"] \in {None, "cognito"} \/ DoubledAuth
    /\ s3 => /\ s4["AUTH_PROVIDER"] # None
             /\ \A s \in Serving!Stores \cup {"RATE_LIMIT_STORE"} : s4[s] \in Shared \/ InMemory
    /\ s2 = "serving" => s3 /\ s5

LEMMA SlotsInParts ==
  /\ Serving!SlotsAreDurable <=> Ready(v2, v3, v4, v5)
  /\ v1' = v1 => (Serving!SlotsAreDurable' <=> Ready(v2', v3', v4', v5'))
  BY DEF Serving!SlotsAreDurable, Ready, Shared, InMemory, DoubledAuth, Serving!IsHarness

\* What a step that leaves the probes and the requests alone must keep.
Untouched == v1' = v1 /\ v6' = v6 /\ v7' = v7 /\ v8' = v8 /\ v9' = v9

\* A step of the start keeps the invariant when it keeps these.
LEMMA ProbesUntouched ==
  ASSUME Serving!IInv, Untouched, v2' = "starting" => ~v5', v5 => v5',
         v2' \in {"starting", "serving", "aborted"}, v3' \in BOOLEAN,
         v5' \in BOOLEAN, v4' \in [Serving!Slots -> Holdable], Ready(v2', v3', v4', v5')
  PROVE  Serving!IInv'
<1>1. Serving!TypeOK'
  <2>1. /\ v1 \in ForServing.Environments /\ v6 \in 0..ForServing.MaxTime
        /\ v7 \in ProbeState /\ v8 \in [Calls -> HealthCheck] /\ v9 \in Nat
    BY ServingTypes DEF Serving!IInv, ServingTyped
  <2> QED BY <2>1, ServingTypes DEF Untouched, ServingTyped
<1>2. Serving!SlotsAreDurable'
  BY SlotsInParts DEF Untouched
<1>3. Serving!ProbesAreSpaced'
  BY DEF Serving!IInv, Untouched, Serving!ProbesAreSpaced
<1>4. Serving!ChecksAreReady'
  BY DEF Serving!IInv, Untouched, Serving!ChecksAreReady
<1>5. Serving!HealthIsMeasured'
  BY DEF Serving!IInv, Untouched, Serving!HealthIsMeasured
<1> QED BY <1>1, <1>2, <1>3, <1>4, <1>5 DEF Serving!IInv

LEMMA InitAuthKeeps ==
  ASSUME Serving!IInv, Serving!InitAuth
  PROVE  Serving!IInv'
<1> DEFINE r == Serving!InitProviders(v1, v4)
<1>1. /\ v3' = ~r.refused /\ v4' = r.slots /\ v2' = v2 /\ v5' = v5 /\ ~v3
      /\ v1' = v1 /\ v6' = v6 /\ v7' = v7 /\ v8' = v8 /\ v9' = v9
  BY DEF Serving!InitAuth
<1>2. /\ v4 \in [Serving!Slots -> Holdable] /\ v2 \in {"starting", "serving", "aborted"}
      /\ v5 \in BOOLEAN
  BY ServingTypes DEF Serving!IInv, ServingTyped
<1>3. r.slots \in [Serving!Slots -> Holdable] /\ r.refused \in BOOLEAN
  BY <1>2, SlotsAreFilled
<1>4. Ready(v2, v3, v4, v5)
  BY SlotsInParts DEF Serving!IInv
<1>5. v1.production => v2 # "serving"
  BY <1>1, <1>4 DEF Ready
<1>6. v1.production =>
        /\ r.slots["AUTH_PROVIDER"] \in {None, "cognito"} \/ DoubledAuth
        /\ ~r.refused => /\ r.slots["AUTH_PROVIDER"] # None
                         /\ \A s \in Serving!Stores \cup {"RATE_LIMIT_STORE"} :
                              r.slots[s] \in Shared \/ InMemory
  BY <1>2, <1>4, FilledUnderContract DEF Ready
<1> HIDE DEF r
<1>7. Ready(v2', v3', v4', v5')
  BY <1>1, <1>5, <1>6 DEF Ready
<1>8. v2 = "starting" => ~v5
  BY DEF Serving!IInv, Serving!ChecksAreReady
<1> QED BY <1>1, <1>2, <1>3, <1>7, <1>8, ProbesUntouched DEF Untouched

LEMMA FirstLimitedKeeps ==
  ASSUME Serving!IInv, Serving!FirstLimited
  PROVE  Serving!IInv'
<1> DEFINE limiter == Serving!CreateLimiter(v1, Serving!LimiterType(v1))
<1>1. /\ v4["RATE_LIMIT_STORE"] = None /\ limiter # "refused"
      /\ v4' = [v4 EXCEPT !["RATE_LIMIT_STORE"] = limiter] /\ v2' = v2 /\ v3' = v3 /\ v5' = v5
      /\ v1' = v1 /\ v6' = v6 /\ v7' = v7 /\ v8' = v8 /\ v9' = v9
  BY DEF Serving!FirstLimited, Serving!Refused
<1>2. /\ v4 \in [Serving!Slots -> Holdable] /\ v2 \in {"starting", "serving", "aborted"}
      /\ v3 \in BOOLEAN /\ v5 \in BOOLEAN
  BY ServingTypes DEF Serving!IInv, ServingTyped
<1>3. limiter \in Holdable
  BY <1>1 DEF Serving!CreateLimiter, Serving!Refused, Holdable
<1>4. Ready(v2, v3, v4, v5)
  BY SlotsInParts DEF Serving!IInv
<1> HIDE DEF limiter
<1>5. v4' \in [Serving!Slots -> Holdable]
  BY <1>1, <1>2, <1>3
<1>6. \A s \in Serving!Slots : s # "RATE_LIMIT_STORE" => v4'[s] = v4[s]
  BY <1>1, <1>2
<1>7. None \notin Shared
  BY ServingBounds DEF Shared
<1>8. v1.production /\ v3 => InMemory
  BY <1>1, <1>4, <1>7 DEF Ready
<1>9. v4'["AUTH_PROVIDER"] = v4["AUTH_PROVIDER"]
  BY <1>6, SlotNames
<1>10. Ready(v2', v3', v4', v5')
  BY <1>1, <1>4, <1>8, <1>9 DEF Ready
<1>11. v2 = "starting" => ~v5
  BY DEF Serving!IInv, Serving!ChecksAreReady
<1> QED BY <1>1, <1>2, <1>5, <1>10, <1>11, ProbesUntouched DEF Untouched

LEMMA RegisterKeeps ==
  ASSUME Serving!IInv, Serving!Register
  PROVE  Serving!IInv'
<1> DEFINE r == IF v3 THEN [slots |-> v4, refused |-> FALSE] ELSE Serving!InitProviders(v1, v4)
<1>1. /\ v2 = "starting" /\ v4' = r.slots /\ v3' = ~r.refused /\ v5' = ~r.refused
      /\ v2' = IF r.refused /\ v1.production THEN "aborted" ELSE "serving"
      /\ v1' = v1 /\ v6' = v6 /\ v7' = v7 /\ v8' = v8 /\ v9' = v9
  BY DEF Serving!Register
<1>2. v4 \in [Serving!Slots -> Holdable] /\ v3 \in BOOLEAN /\ v5 \in BOOLEAN
  BY ServingTypes DEF Serving!IInv, ServingTyped
<1>3. Ready(v2, v3, v4, v5)
  BY SlotsInParts DEF Serving!IInv
<1>4. r.slots \in [Serving!Slots -> Holdable] /\ r.refused \in BOOLEAN
  BY <1>2, SlotsAreFilled
<1>5. ASSUME v1.production
      PROVE  /\ r.slots["AUTH_PROVIDER"] \in {None, "cognito"} \/ DoubledAuth
             /\ ~r.refused => /\ r.slots["AUTH_PROVIDER"] # None
                              /\ \A s \in Serving!Stores \cup {"RATE_LIMIT_STORE"} :
                                   r.slots[s] \in Shared \/ InMemory
  <2>1. CASE v3
    BY <1>3, <1>5, <2>1 DEF Ready
  <2>2. CASE ~v3
    <3>1. v4["AUTH_PROVIDER"] \in {None, "cognito"} \/ DoubledAuth
      BY <1>3, <1>5 DEF Ready
    <3> QED BY <1>2, <1>5, <2>2, <3>1, FilledUnderContract
  <2> QED BY <1>2, <2>1, <2>2
<1> HIDE DEF r
<1>6. Ready(v2', v3', v4', v5')
  BY <1>1, <1>4, <1>5 DEF Ready
<1>7. ~v5
  BY <1>1 DEF Serving!IInv, Serving!ChecksAreReady
<1> QED BY <1>1, <1>4, <1>6, <1>7, ProbesUntouched DEF Untouched

-----------------------------------------------------------------------------
(* Health *)

\* One call more costs one interval more.
LEMMA OneMoreCall ==
  ASSUME NEW n \in Int, NEW t \in Int
  PROVE  ((n + 1) - 1) * t = (n - 1) * t + t
  OBVIOUS

\* As many intervals as fit into the time.
LEMMA CallsInTime ==
  ASSUME NEW k \in Int, NEW t \in Nat \ {0}, NEW n \in Nat, k * t <= n
  PROVE  k <= n \div t
<1>1. PICK q \in Int : q = n \div t /\ n < (q + 1) * t
  OBVIOUS
<1>2. ASSUME NEW j \in Nat PROVE (q + 1 + j) * t = (q + 1) * t + j * t /\ j * t >= 0
  OBVIOUS
<1>3. ASSUME k > q PROVE FALSE
  <2>1. PICK j \in Nat : k = q + 1 + j
    <3>1. k - (q + 1) \in Nat /\ k = q + 1 + (k - (q + 1))
      BY <1>3
    <3> QED BY <3>1
  <2> QED BY <1>1, <1>2, <2>1
<1> QED BY <1>1, <1>3

LEMMA ProbeTyped ==
  ASSUME Serving!TypeOK
  PROVE  /\ v7 = [last |-> v7.last, out |-> v7.out] /\ v7.out \in BOOLEAN
         /\ v7.last # None =>
              v7.last \in ProbeResult /\ v7.last.at \in 0..ForServing.MaxTime
                /\ v7.last.healthy \in BOOLEAN
<1>1. v7 \in ProbeState
  BY ServingTypes DEF ServingTyped
<1> QED BY <1>1 DEF ProbeState, ProbeResult

\* A request's step, an answer or the clock keeps the invariant when it keeps these.
Started == v1' = v1 /\ v2' = v2 /\ v3' = v3 /\ v4' = v4 /\ v5' = v5

LEMMA StartUntouched ==
  ASSUME Serving!IInv, Started, v6' \in 0..ForServing.MaxTime, v7' \in ProbeState, v9' \in Nat,
         v8' \in [Calls -> HealthCheck], Serving!ProbesAreSpaced',
         \A d \in Calls :
           /\ v8'[d].asked <= v6' /\ (v8'[d].at = "waiting" => v5)
           /\ v8'[d].at = "answered" /\ v8'[d].healthy =>
                v5 /\ v8'[d].asked - v8'[d].measured < ForServing.TTL
  PROVE  Serving!IInv'
<1>1. Serving!TypeOK'
  BY ServingTypes DEF Serving!IInv, ServingTyped, Started
<1>2. Serving!SlotsAreDurable'
  BY SlotsInParts DEF Serving!IInv, Started
<1>3. Serving!ChecksAreReady'
  BY DEF Serving!IInv, Started, Serving!ChecksAreReady
<1>4. Serving!HealthIsMeasured'
  BY DEF Started, Serving!HealthIsMeasured
<1> QED BY <1>1, <1>2, <1>3, <1>4 DEF Serving!IInv

\* What the invariant says of the requests.
LEMMA ChecksHold ==
  ASSUME Serving!IInv, NEW d \in Calls
  PROVE  /\ v8[d] \in HealthCheck /\ v8[d].asked \in 0..ForServing.MaxTime
         /\ v8[d].asked <= v6 /\ (v8[d].at = "waiting" => v5)
         /\ v8[d].at = "answered" /\ v8[d].healthy =>
              v5 /\ v8[d].asked - v8[d].measured < ForServing.TTL
<1>1. v8 \in [Calls -> HealthCheck]
  BY ServingTypes DEF Serving!IInv, ServingTyped
<1>2. v8[d] \in HealthCheck /\ v8[d].asked \in 0..ForServing.MaxTime
  BY <1>1 DEF HealthCheck
<1> QED BY <1>2 DEF Serving!IInv, Serving!ChecksAreReady, Serving!HealthIsMeasured

LEMMA TickKeeps ==
  ASSUME Serving!IInv, Serving!Tick
  PROVE  Serving!IInv'
<1>1. v5 /\ v6 < ForServing.MaxTime /\ v6' = v6 + 1 /\ Started /\ v7' = v7 /\ v8' = v8 /\ v9' = v9
  BY DEF Serving!Tick, Started
<1>2. /\ v6 \in 0..ForServing.MaxTime /\ v7 \in ProbeState /\ v9 \in Nat
      /\ v8 \in [Calls -> HealthCheck]
  BY ServingTypes DEF Serving!IInv, ServingTyped
<1>3. v6' \in 0..ForServing.MaxTime /\ v6 <= v6'
  BY <1>1, <1>2, ServingBounds
<1>4. Serving!ProbesAreSpaced'
  <2>1. CASE v7.last = None
    BY <1>1, <2>1 DEF Serving!IInv, Serving!ProbesAreSpaced
  <2>2. CASE v7.last # None
    <3>1. PICK a \in Int : a = v7.last.at
      BY <2>2, ProbeTyped, ServingBounds DEF Serving!IInv
    <3>2. PICK c \in Int : c = (v9 - 1) * ForServing.TTL
      BY <1>2, ServingBounds
    <3>3. a <= v6 /\ c <= IF v7.out THEN v6 ELSE a
      BY <2>2, <3>1, <3>2 DEF Serving!IInv, Serving!ProbesAreSpaced
    <3>4. a <= v6' /\ c <= IF v7.out THEN v6' ELSE a
      BY <1>2, <1>3, <3>3
    <3> QED BY <1>1, <2>2, <3>1, <3>2, <3>4 DEF Serving!ProbesAreSpaced
  <2> QED BY <2>1, <2>2
<1>5. ASSUME NEW d \in Calls PROVE v8[d].asked <= v6'
  BY <1>2, <1>3, ChecksHold
<1>6. \A d \in Calls :
        /\ v8'[d].asked <= v6' /\ (v8'[d].at = "waiting" => v5)
        /\ v8'[d].at = "answered" /\ v8'[d].healthy =>
             v5 /\ v8'[d].asked - v8'[d].measured < ForServing.TTL
  BY <1>1, <1>5, ChecksHold
<1> QED BY <1>1, <1>2, <1>3, <1>4, <1>6, StartUntouched

LEMMA TimeOutKeeps ==
  ASSUME Serving!IInv, NEW c \in Calls, Serving!TimeOut(c)
  PROVE  Serving!IInv'
<1> DEFINE late == [v8[c] EXCEPT !.at = "answered", !.healthy = FALSE, !.measured = v6]
<1>1. /\ v8' = [v8 EXCEPT ![c] = late] /\ Started /\ v6' = v6 /\ v7' = v7 /\ v9' = v9
  BY DEF Serving!TimeOut, Serving!Answered, Started
<1>2. /\ v6 \in 0..ForServing.MaxTime /\ v7 \in ProbeState /\ v9 \in Nat
      /\ v8 \in [Calls -> HealthCheck]
  BY ServingTypes DEF Serving!IInv, ServingTyped
<1>3. /\ late \in HealthCheck /\ late.asked = v8[c].asked /\ ~late.healthy
      /\ late.at = "answered"
  BY <1>2, ChecksHold DEF HealthCheck
<1> HIDE DEF late
<1>4. v8' \in [Calls -> HealthCheck] /\ \A d \in Calls : v8'[d] = IF d = c THEN late ELSE v8[d]
  BY <1>1, <1>2, <1>3
<1>5. Serving!ProbesAreSpaced'
  BY <1>1 DEF Serving!IInv, Serving!ProbesAreSpaced
<1>6. ASSUME NEW d \in Calls
      PROVE  /\ v8'[d].asked <= v6' /\ (v8'[d].at = "waiting" => v5)
             /\ v8'[d].at = "answered" /\ v8'[d].healthy =>
                  v5 /\ v8'[d].asked - v8'[d].measured < ForServing.TTL
  BY <1>1, <1>3, <1>4, ChecksHold
<1> QED BY <1>1, <1>2, <1>4, <1>5, <1>6, StartUntouched

LEMMA AnswerKeeps ==
  ASSUME Serving!IInv, Serving!Answer
  PROVE  Serving!IInv'
<1>1. PICK healthy \in BOOLEAN :
        /\ v7.out /\ v7' = [last |-> [healthy |-> healthy, at |-> v6], out |-> FALSE]
        /\ v8' = [c \in Calls |-> IF v8[c].at = "waiting"
                                  THEN Serving!Answered(c, healthy, v6) ELSE v8[c]]
        /\ Started /\ v6' = v6 /\ v9' = v9
  BY DEF Serving!Answer, Started
<1>2. /\ v6 \in 0..ForServing.MaxTime /\ v9 \in Nat /\ v8 \in [Calls -> HealthCheck]
  BY ServingTypes DEF Serving!IInv, ServingTyped
<1>3. /\ v7' \in ProbeState /\ v7'.last \in ProbeResult /\ v7'.last.at = v6 /\ ~v7'.out
  BY <1>1, <1>2 DEF ProbeState, ProbeResult
<1>4. v7'.last # None
  BY <1>3, ServingBounds
<1>5. Serving!ProbesAreSpaced'
  <2>1. PICK c \in Int : c = (v9 - 1) * ForServing.TTL
    BY <1>2, ServingBounds
  <2>2. CASE v7.last = None
    <3>1. v9 = 1
      BY <1>1, <2>2 DEF Serving!IInv, Serving!ProbesAreSpaced
    <3>2. c = 0
      BY <2>1, <3>1, ServingBounds
    <3> QED BY <1>1, <1>2, <1>3, <1>4, <2>1, <3>2 DEF Serving!ProbesAreSpaced
  <2>3. CASE v7.last # None
    <3>1. c <= v6
      BY <1>1, <2>1, <2>3 DEF Serving!IInv, Serving!ProbesAreSpaced
    <3> QED BY <1>1, <1>2, <1>3, <1>4, <2>1, <3>1 DEF Serving!ProbesAreSpaced
  <2> QED BY <2>2, <2>3
<1>6. ASSUME NEW d \in Calls
      PROVE  /\ v8'[d] \in HealthCheck
             /\ v8'[d].asked <= v6' /\ (v8'[d].at = "waiting" => v5)
             /\ v8'[d].at = "answered" /\ v8'[d].healthy =>
                  v5 /\ v8'[d].asked - v8'[d].measured < ForServing.TTL
  <2>1. CASE v8[d].at # "waiting"
    BY <1>1, <2>1, ChecksHold
  <2>2. CASE v8[d].at = "waiting"
    <3>1. v8'[d] = [v8[d] EXCEPT !.at = "answered", !.healthy = healthy, !.measured = v6]
      BY <1>1, <2>2 DEF Serving!Answered
    <3>2. /\ v8'[d] \in HealthCheck /\ v8'[d].at = "answered" /\ v8'[d].asked = v8[d].asked
          /\ v8'[d].measured = v6
      BY <1>2, <3>1, ChecksHold DEF HealthCheck
    <3>3. v5 /\ v8[d].asked <= v6 /\ v8[d].asked \in 0..ForServing.MaxTime
      BY <2>2, ChecksHold
    <3>4. v8[d].asked - v6 < ForServing.TTL
      BY <1>2, <3>3, ServingBounds
    <3> QED BY <1>1, <3>2, <3>3, <3>4
  <2> QED BY <2>1, <2>2
<1>7. v8' \in [Calls -> HealthCheck]
  <2>1. v8' = [d \in Calls |-> v8'[d]]
    BY <1>1
  <2> QED BY <1>6, <2>1
<1> QED BY <1>1, <1>2, <1>3, <1>5, <1>6, <1>7, StartUntouched

LEMMA AskKeeps ==
  ASSUME Serving!IInv, NEW c \in Calls, Serving!Ask(c)
  PROVE  Serving!IInv'
<1> DEFINE begins == v5 /\ ~Serving!IsFresh /\ ~v7.out
           told == CASE ~v5 -> [Serving!Fresh EXCEPT !.at = "answered", !.asked = v6]
                     [] v5 /\ Serving!IsFresh ->
                          [at |-> "answered", asked |-> v6, healthy |-> v7.last.healthy,
                           measured |-> v7.last.at]
                     [] OTHER -> [Serving!Fresh EXCEPT !.at = "waiting", !.asked = v6]
<1>1. /\ v8' = [v8 EXCEPT ![c] = told] /\ v7' = [v7 EXCEPT !.out = @ \/ begins]
      /\ v9' = IF begins THEN v9 + 1 ELSE v9
      /\ Started /\ v6' = v6
  BY DEF Serving!Ask, Started
<1>2. /\ v6 \in 0..ForServing.MaxTime /\ v9 \in Nat /\ v8 \in [Calls -> HealthCheck]
      /\ v5 \in BOOLEAN
  BY ServingTypes DEF Serving!IInv, ServingTyped
<1>3. /\ v7 \in ProbeState /\ v7 = [last |-> v7.last, out |-> v7.out] /\ v7.out \in BOOLEAN
      /\ v7.last # None => /\ v7.last \in ProbeResult /\ v7.last.at \in 0..ForServing.MaxTime
                           /\ v7.last.healthy \in BOOLEAN
  BY ProbeTyped, ServingTypes DEF Serving!IInv, ServingTyped
<1>4. Serving!IsFresh <=> v7.last # None /\ v6 - v7.last.at < ForServing.TTL
  BY DEF Serving!IsFresh
<1>5. Serving!Fresh = [at |-> "idle", asked |-> 0, healthy |-> FALSE, measured |-> 0]
  BY DEF Serving!Fresh
<1>6. 0 \in 0..ForServing.MaxTime
  BY ServingBounds
<1>7. /\ told \in HealthCheck /\ told.asked = v6 /\ (told.at = "waiting" => v5)
      /\ told.at = "answered" /\ told.healthy =>
           v5 /\ told.asked - told.measured < ForServing.TTL
  <2>1. CASE ~v5
    BY <1>2, <1>5, <1>6, <2>1 DEF HealthCheck
  <2>2. CASE v5 /\ Serving!IsFresh
    <3>1. told = [at |-> "answered", asked |-> v6, healthy |-> v7.last.healthy,
                  measured |-> v7.last.at]
      BY <2>2
    <3> QED BY <1>2, <1>3, <1>4, <2>2, <3>1 DEF HealthCheck
  <2>3. CASE v5 /\ ~Serving!IsFresh
    BY <1>2, <1>5, <1>6, <2>3 DEF HealthCheck
  <2> QED BY <1>2, <2>1, <2>2, <2>3
<1> HIDE DEF told
<1>8. v8' \in [Calls -> HealthCheck] /\ \A d \in Calls : v8'[d] = IF d = c THEN told ELSE v8[d]
  BY <1>1, <1>2, <1>7
<1>9. ASSUME NEW d \in Calls
      PROVE  /\ v8'[d].asked <= v6' /\ (v8'[d].at = "waiting" => v5)
             /\ v8'[d].at = "answered" /\ v8'[d].healthy =>
                  v5 /\ v8'[d].asked - v8'[d].measured < ForServing.TTL
  BY <1>1, <1>2, <1>7, <1>8, ChecksHold
<1>10. /\ v7' \in ProbeState /\ v7'.last = v7.last
       /\ v7'.out = (v7.out \/ begins)
  BY <1>1, <1>3 DEF ProbeState
<1>11. v9' \in Nat
  BY <1>1, <1>2
<1>12. Serving!ProbesAreSpaced'
  <2>1. CASE ~begins
    <3>1. v7'.out = v7.out /\ v9' = v9
      BY <1>1, <1>3, <1>10, <2>1
    <3> QED BY <1>1, <1>10, <3>1 DEF Serving!IInv, Serving!ProbesAreSpaced
  <2>2. CASE begins
    <3>1. v7'.out /\ v9' = v9 + 1 /\ ~v7.out
      BY <1>1, <1>10, <2>2
    <3>2. CASE v7.last = None
      BY <1>10, <3>1, <3>2 DEF Serving!IInv, Serving!ProbesAreSpaced
    <3>3. CASE v7.last # None
      <4>1. PICK a \in Int : a = v7.last.at
        BY <1>3, <3>3
      <4>2. PICK k \in Int : k = (v9 - 1) * ForServing.TTL
        BY <1>2, ServingBounds
      <4>3. k <= a /\ a <= v6
        BY <3>1, <3>3, <4>1, <4>2 DEF Serving!IInv, Serving!ProbesAreSpaced
      <4>4. ForServing.TTL <= v6 - a
        BY <1>2, <1>4, <2>2, <3>3, <4>1, ServingBounds
      <4>5. (v9' - 1) * ForServing.TTL = k + ForServing.TTL
        <5>1. PICK n \in Int : n = v9
          BY <1>2
        <5>2. PICK t \in Int : t = ForServing.TTL
          BY ServingBounds
        <5>3. ((n + 1) - 1) * t = (n - 1) * t + t
          BY OneMoreCall
        <5> QED BY <3>1, <4>2, <5>1, <5>2, <5>3
      <4>6. (v9' - 1) * ForServing.TTL <= v6
        BY <1>2, <4>3, <4>4, <4>5, ServingBounds
      <4> QED BY <1>1, <1>10, <3>1, <3>3, <4>1, <4>3, <4>6 DEF Serving!ProbesAreSpaced
    <3> QED BY <3>2, <3>3
  <2> QED BY <2>1, <2>2
<1> HIDE DEF begins
<1> QED BY <1>1, <1>2, <1>8, <1>9, <1>10, <1>11, <1>12, StartUntouched

-----------------------------------------------------------------------------

LEMMA ServingFirst ==
  ASSUME Serving!Init
  PROVE  Serving!IInv
<1>1. /\ v1 \in ForServing.Environments /\ v2 = "starting" /\ v3 = FALSE /\ v5 = FALSE
      /\ v4 = [s \in Serving!Slots |-> None] /\ v6 = 0 /\ v9 = 0
      /\ v7 = [last |-> None, out |-> FALSE]
      /\ v8 = [d \in Calls |-> [at |-> "idle", asked |-> 0, healthy |-> FALSE, measured |-> 0]]
  BY DEF Serving!Init, Serving!Fresh
<1>2. 0 \in 0..ForServing.MaxTime
  BY ServingBounds
<1>3. Serving!TypeOK
  <2>1. v4 \in [Serving!Slots -> Holdable]
    BY <1>1 DEF Holdable
  <2>2. v7 \in ProbeState
    BY <1>1 DEF ProbeState
  <2>3. v8 \in [Calls -> HealthCheck]
    BY <1>1, <1>2 DEF HealthCheck
  <2> QED BY <1>1, <1>2, <2>1, <2>2, <2>3, ServingTypes DEF ServingTyped
<1>4. v4["AUTH_PROVIDER"] = None
  BY <1>1, SlotNames
<1>5. Serving!SlotsAreDurable
  BY <1>1, <1>4, SlotsInParts DEF Ready
<1>6. Serving!ProbesAreSpaced
  BY <1>1 DEF Serving!ProbesAreSpaced
<1>7. Serving!ChecksAreReady
  BY <1>1 DEF Serving!ChecksAreReady
<1>8. Serving!HealthIsMeasured
  BY <1>1 DEF Serving!HealthIsMeasured
<1> QED BY <1>3, <1>5, <1>6, <1>7, <1>8 DEF Serving!IInv

LEMMA ServingInductive ==
  ASSUME Serving!IInv, [Serving!Next]_(Serving!vars)
  PROVE  Serving!IInv'
<1>1. CASE UNCHANGED Serving!vars
  <2>1. Untouched /\ v2' = v2 /\ v3' = v3 /\ v4' = v4 /\ v5' = v5
    BY <1>1 DEF Serving!vars, Untouched
  <2>2. Ready(v2, v3, v4, v5)
    BY SlotsInParts DEF Serving!IInv
  <2>3. /\ v2 \in {"starting", "serving", "aborted"} /\ v3 \in BOOLEAN /\ v5 \in BOOLEAN
        /\ v4 \in [Serving!Slots -> Holdable] /\ (v2 = "starting" => ~v5)
    BY ServingTypes DEF Serving!IInv, ServingTyped, Serving!ChecksAreReady
  <2> QED BY <2>1, <2>2, <2>3, ProbesUntouched
<1>2. CASE Serving!InitAuth
  BY <1>2, InitAuthKeeps
<1>3. CASE Serving!FirstLimited
  BY <1>3, FirstLimitedKeeps
<1>4. CASE Serving!Register
  BY <1>4, RegisterKeeps
<1>5. CASE Serving!Answer
  BY <1>5, AnswerKeeps
<1>6. CASE Serving!Tick
  BY <1>6, TickKeeps
<1>7. ASSUME NEW c \in Calls, Serving!Ask(c) PROVE Serving!IInv'
  BY <1>7, AskKeeps
<1>8. ASSUME NEW c \in Calls, Serving!TimeOut(c) PROVE Serving!IInv'
  BY <1>8, TimeOutKeeps
<1> QED BY <1>1, <1>2, <1>3, <1>4, <1>5, <1>6, <1>7, <1>8 DEF Serving!Next

LEMMA ServingIsSound ==
  ASSUME Serving!IInv
  PROVE  Serving!TypeOK /\ Serving!ServerIsSound
<1>1. /\ v6 \in 0..ForServing.MaxTime /\ v9 \in Nat /\ ForServing.TTL \in Nat \ {0}
      /\ ForServing.MaxTime \in Nat
  BY ServingTypes, ServingBounds DEF Serving!IInv, ServingTyped
<1>2. Serving!CallsAreSpaced
  <2>1. PICK n \in Nat : n = v6
    BY <1>1
  <2>2. PICK q \in Nat : q = n \div ForServing.TTL
    BY <1>1
  <2>3. CASE v7.last = None
    <3>1. v9 <= 1
      BY <2>3 DEF Serving!IInv, Serving!ProbesAreSpaced
    <3> QED BY <1>1, <2>1, <2>2, <3>1 DEF Serving!CallsAreSpaced
  <2>4. CASE v7.last # None
    <3>1. PICK k \in Int : k = v9 - 1
      BY <1>1
    <3>2. PICK a \in Int : a = v7.last.at
      BY <2>4, ProbeTyped DEF Serving!IInv
    <3>3. a <= n /\ k * ForServing.TTL <= IF v7.out THEN n ELSE a
      BY <2>1, <2>4, <3>1, <3>2 DEF Serving!IInv, Serving!ProbesAreSpaced
    <3>4. k * ForServing.TTL \in Int
      BY <1>1
    <3>5. k * ForServing.TTL <= n
      BY <3>3, <3>4
    <3>6. k <= q
      BY <1>1, <2>2, <3>5, CallsInTime
    <3> QED BY <1>1, <2>1, <2>2, <3>1, <3>6 DEF Serving!CallsAreSpaced
  <2> QED BY <2>3, <2>4
<1>3. Serving!ServesDurably
  BY ServingBounds DEF Serving!IInv, Serving!SlotsAreDurable, Serving!ServesDurably
<1> QED BY <1>2, <1>3 DEF Serving!IInv, Serving!ServerIsSound

\* A production server serves from shared stores and real sign-ins only, whatever its
\* settings and whoever came before its start was over; its health probe is called at most
\* once per interval; and healthy is said only of what was measured within one (Startup).
THEOREM ServersAreSound == Services => []ServerIsSound
<1> DEFINE Kept == running = "startup" => Serving!IInv
<1>1. ServicesInit => Kept
  BY ServingAlone, ServingFirst
<1>2. Kept /\ [ServicesNext]_<<running, vars, slots>> => Kept'
  <2> SUFFICES ASSUME Kept, [ServicesNext]_<<running, vars, slots>>, running' = "startup"
               PROVE  Serving!IInv'
    OBVIOUS
  <2>1. running = "startup"
    BY DEF ServicesNext, In
  <2> QED BY <2>1, ServingAlone, ServingInductive
<1>3. Kept => ServerIsSound
  BY ServingIsSound DEF ServerIsSound
<1> QED BY <1>1, <1>2, <1>3, PTL DEF Services

-----------------------------------------------------------------------------
(* The voice pipeline.  v1: request, v2: cache, v3: answer, v4: made.      *)

\* Only the pipeline's steps change its variables.
LEMMA VoiceAlone ==
  ASSUME running = "voice"
  PROVE  /\ ServicesInit => Speech!Init
         /\ [ServicesNext]_<<running, vars, slots>> =>
              running' = running /\ [Speech!Next]_(Speech!vars)
  BY DEF ServicesInit, ServicesNext, In, slots, Speech!vars

\* The bound on requests is a natural number; what is absent is not there.
LEMMA VoiceBounds ==
  /\ None \notin ForSpeech.Said /\ None \notin Speech!Chunks
  /\ ForSpeech.MaxRetries \in Nat /\ ForSpeech.MaxRequests \in Nat
  BY ServicesAssumption DEF Speech!VoiceAssumption

\* What holds of a request at work, of an answer and of what the cache holds.
SoundRequest(q) ==
  /\ q.step \in {"text", "screen"} => q.said \in ForSpeech.Said
  /\ q.step \in {"cache", "translate", "tts", "done"} =>
       q.said \in ForSpeech.Said \ ForSpeech.Unsafe /\ q.passed
  /\ IF q.step \in {"tts", "done"}
     THEN q.translation \in Speech!Translations /\ q.translation.of = q.said
            /\ q.translation.to = q.target
     ELSE q.translation = None
  /\ q.step # "tts" => q.spoken = None
  /\ q.step = "tts" =>
       Speech!ChunkText(q.translation.text) =
         IF q.spoken = None THEN q.todo ELSE q.spoken \o q.todo

SoundAnswer(a) ==
  a.translation # None =>
    /\ a.passed /\ a.transcript \notin ForSpeech.Unsafe
    /\ a.translation \in Speech!Translations
    /\ a.translation.of = a.transcript /\ a.translation.to = a.target
    /\ a.spoken # None => a.spoken = Speech!ChunkText(a.translation.text)

SoundEntry(t, s, l) == t # None => s \notin ForSpeech.Unsafe /\ t.of = s /\ t.to = l

\* The invariant, by request, answer and entry.
LEMMA VoiceInParts ==
  /\ Speech!IInv <=>
       /\ Speech!TypeOK
       /\ \A r \in Calls : v1[r] # None => SoundRequest(v1[r])
       /\ \A r \in Calls : v3[r] # None => SoundAnswer(v3[r])
       /\ \A s \in ForSpeech.Said, l \in ForSpeech.Targets : SoundEntry(v2[<<s, l>>], s, l)
  /\ Speech!IInv' <=>
       /\ Speech!TypeOK'
       /\ \A r \in Calls : v1'[r] # None => SoundRequest(v1'[r])
       /\ \A r \in Calls : v3'[r] # None => SoundAnswer(v3'[r])
       /\ \A s \in ForSpeech.Said, l \in ForSpeech.Targets : SoundEntry(v2'[<<s, l>>], s, l)
<1>1. Speech!HoldsItsOwn <=> \A r \in Calls : v1[r] # None => SoundRequest(v1[r])
  BY Zenon DEF Speech!HoldsItsOwn, SoundRequest
<1>2. Speech!HoldsItsOwn' <=> \A r \in Calls : v1'[r] # None => SoundRequest(v1'[r])
  BY Zenon DEF Speech!HoldsItsOwn, SoundRequest
<1>3. Speech!OnlyPassedIsTranslated /\ Speech!KeepsItsOwn <=>
        /\ \A r \in Calls : v3[r] # None => SoundAnswer(v3[r])
        /\ \A s \in ForSpeech.Said, l \in ForSpeech.Targets : SoundEntry(v2[<<s, l>>], s, l)
  BY DEF Speech!OnlyPassedIsTranslated, Speech!KeepsItsOwn, SoundAnswer, SoundEntry
<1>4. Speech!OnlyPassedIsTranslated' /\ Speech!KeepsItsOwn' <=>
        /\ \A r \in Calls : v3'[r] # None => SoundAnswer(v3'[r])
        /\ \A s \in ForSpeech.Said, l \in ForSpeech.Targets : SoundEntry(v2'[<<s, l>>], s, l)
  BY DEF Speech!OnlyPassedIsTranslated, Speech!KeepsItsOwn, SoundAnswer, SoundEntry
<1> QED BY <1>1, <1>2, <1>3, <1>4 DEF Speech!IInv

\* What the cache holds is sound, and stays so while the cache does.
LEMMA CacheIsSound ==
  ASSUME Speech!IInv
  PROVE  /\ v2 \in [ForSpeech.Said \X ForSpeech.Targets -> Speech!Translations \cup {None}]
         /\ \A s \in ForSpeech.Said, l \in ForSpeech.Targets : SoundEntry(v2[<<s, l>>], s, l)
         /\ v2' = v2 =>
              \A s \in ForSpeech.Said, l \in ForSpeech.Targets : SoundEntry(v2'[<<s, l>>], s, l)
<1>1. Speech!TypeOK
  BY VoiceInParts
<1>2. ASSUME NEW s \in ForSpeech.Said, NEW l \in ForSpeech.Targets
      PROVE  SoundEntry(v2[<<s, l>>], s, l)
  BY VoiceInParts, Zenon
<1>3. v2' = v2 =>
        \A s \in ForSpeech.Said, l \in ForSpeech.Targets : SoundEntry(v2'[<<s, l>>], s, l)
  BY <1>2, Zenon
<1> QED BY <1>1, <1>2, <1>3 DEF Speech!TypeOK

\* A step of one request that leaves it sound, and the cache, keeps the invariant.
LEMMA RequestMoves ==
  ASSUME Speech!IInv, NEW r \in Calls, NEW q \in Speech!Request, SoundRequest(q),
         v1' = [v1 EXCEPT ![r] = q], v3' = v3, v4' \in 0..ForSpeech.MaxRequests,
         v2' \in [ForSpeech.Said \X ForSpeech.Targets -> Speech!Translations \cup {None}],
         \A s \in ForSpeech.Said, l \in ForSpeech.Targets : SoundEntry(v2'[<<s, l>>], s, l)
  PROVE  Speech!IInv'
<1>1. Speech!TypeOK
  BY VoiceInParts
<1>2. v1' \in [Calls -> Speech!Request \cup {None}]
  BY <1>1 DEF Speech!TypeOK
<1>3. Speech!TypeOK'
  BY <1>1, <1>2 DEF Speech!TypeOK
<1>4. ASSUME NEW d \in Calls, v1'[d] # None PROVE SoundRequest(v1'[d])
  <2>1. v1'[d] = IF d = r THEN q ELSE v1[d]
    BY <1>1 DEF Speech!TypeOK
  <2> QED BY <1>4, <2>1, VoiceInParts
<1> QED BY <1>3, <1>4, VoiceInParts

\* The usual case: nothing but the request changes.
LEMMA RequestGoes ==
  ASSUME Speech!IInv, NEW r \in Calls, NEW q \in Speech!Request, SoundRequest(q),
         v1' = [v1 EXCEPT ![r] = q], UNCHANGED <<v2, v3, v4>>
  PROVE  Speech!IInv'
<1>1. Speech!TypeOK
  BY VoiceInParts
<1>2. /\ v2' \in [ForSpeech.Said \X ForSpeech.Targets -> Speech!Translations \cup {None}]
      /\ v4' \in 0..ForSpeech.MaxRequests
  BY <1>1 DEF Speech!TypeOK
<1> QED BY <1>2, CacheIsSound, RequestMoves

\* An answer that holds a translation is that of a request past the cache that has
\* nothing left to say.
LEMMA RequestEnds ==
  ASSUME Speech!IInv, NEW r \in Calls, NEW success \in BOOLEAN, v1[r] # None,
         Speech!Finish(r, success), UNCHANGED <<v2, v4>>,
         v1[r].step = "tts" => v1[r].todo = <<>>
  PROVE  Speech!IInv'
<1>1. Speech!TypeOK
  BY VoiceInParts
<1>2. PICK q \in Speech!Request : q = v1[r]
  BY <1>1 DEF Speech!TypeOK
<1>3. SoundRequest(q)
  BY <1>2, VoiceInParts
<1> DEFINE a == [success |-> success, transcript |-> q.said, passed |-> q.passed,
                 target |-> q.target, translation |-> q.translation, spoken |-> q.spoken,
                 clip |-> q.clip]
<1>4. a \in Speech!Result
  BY DEF Speech!Request, Speech!Result
<1>5. SoundAnswer(a)
  <2>1. /\ a.translation = q.translation /\ a.passed = q.passed /\ a.transcript = q.said
        /\ a.target = q.target /\ a.spoken = q.spoken
    OBVIOUS
  <2> HIDE DEF a
  <2>2. CASE q.step \in {"tts", "done"}
    <3>1. q.spoken # None => q.spoken = Speech!ChunkText(q.translation.text)
      <4>1. CASE q.step = "tts"
        <5>1. q.todo = <<>> /\ q.spoken \in Speech!Chunks \cup {None}
          BY <1>2, <4>1 DEF Speech!Request
        <5>2. q.spoken # None => q.spoken \o <<>> = q.spoken
          BY <5>1 DEF Speech!Chunks
        <5> QED BY <1>3, <4>1, <5>1, <5>2 DEF SoundRequest
      <4>2. CASE q.step = "done"
        BY <1>3, <4>2 DEF SoundRequest
      <4> QED BY <2>2, <4>1, <4>2
    <3> QED BY <1>3, <2>1, <2>2, <3>1 DEF SoundRequest, SoundAnswer
  <2>3. CASE q.step \notin {"tts", "done"}
    BY <1>3, <2>1, <2>3 DEF SoundRequest, SoundAnswer
  <2> QED BY <2>2, <2>3
<1>6. v1' = [v1 EXCEPT ![r] = None] /\ v3' = [v3 EXCEPT ![r] = a]
  BY <1>2 DEF Speech!Finish
<1> HIDE DEF a
<1>7. Speech!TypeOK'
  BY <1>1, <1>4, <1>6 DEF Speech!TypeOK
<1>8. ASSUME NEW d \in Calls, v1'[d] # None PROVE SoundRequest(v1'[d])
  <2>1. v1'[d] = IF d = r THEN None ELSE v1[d]
    BY <1>1, <1>6 DEF Speech!TypeOK
  <2> QED BY <1>8, <2>1, VoiceInParts
<1>9. ASSUME NEW d \in Calls, v3'[d] # None PROVE SoundAnswer(v3'[d])
  <2>1. v3'[d] = IF d = r THEN a ELSE v3[d]
    BY <1>1, <1>6 DEF Speech!TypeOK
  <2> QED BY <1>5, <1>9, <2>1, VoiceInParts
<1> QED BY <1>7, <1>8, <1>9, VoiceInParts

\* A request that goes on to a step, with nothing tried of it yet.
LEMMA StepsOn ==
  ASSUME NEW r \in Calls, NEW q \in Speech!Request, NEW step \in Speech!Steps,
         v1 \in [Calls -> Speech!Request \cup {None}], v1[r] # None,
         Speech!Goes(r, step, q)
  PROVE  \E n \in Speech!Request :
           /\ v1' = [v1 EXCEPT ![r] = n]
           /\ n.step = step /\ n.said = q.said /\ n.target = q.target /\ n.passed = q.passed
           /\ n.translation = q.translation /\ n.todo = q.todo /\ n.spoken = q.spoken
<1> DEFINE n == [q EXCEPT !.step = step, !.tries = 0]
<1>1. /\ n \in Speech!Request /\ n.step = step /\ n.said = q.said /\ n.target = q.target
      /\ n.passed = q.passed /\ n.translation = q.translation /\ n.todo = q.todo
      /\ n.spoken = q.spoken
  BY DEF Speech!Request
<1>2. v1' = [v1 EXCEPT ![r] = n]
  BY DEF Speech!Goes
<1> QED BY <1>1, <1>2

\* The steps there are.
LEMMA StepNames ==
  /\ "stt" \in Speech!Steps /\ "text" \in Speech!Steps /\ "nothing" \in Speech!Steps
  /\ "convert" \in Speech!Steps /\ "clip" \in Speech!Steps /\ "probe" \in Speech!Steps
  /\ "screen" \in Speech!Steps /\ "cache" \in Speech!Steps /\ "translate" \in Speech!Steps
  /\ "tts" \in Speech!Steps /\ "done" \in Speech!Steps /\ "identify" \in Speech!Steps
  BY DEF Speech!Steps, Speech!Calling

\* A request at work: its record, and that it is sound.
LEMMA AtWork ==
  ASSUME Speech!IInv, NEW r \in Calls, v1[r] # None
  PROVE  /\ v1[r] \in Speech!Request /\ SoundRequest(v1[r])
         /\ v1 \in [Calls -> Speech!Request \cup {None}]
<1>1. Speech!TypeOK
  BY VoiceInParts
<1>2. v1 \in [Calls -> Speech!Request \cup {None}]
  BY <1>1 DEF Speech!TypeOK
<1> QED BY <1>2, VoiceInParts

LEMMA BeginKeeps ==
  ASSUME Speech!IInv, NEW r \in Calls, Speech!Begin(r)
  PROVE  Speech!IInv'
<1>1. PICK step \in {"stt", "text", "nothing", "convert", "clip", "probe"},
           s \in ForSpeech.Said, l \in ForSpeech.Targets, aloud \in BOOLEAN,
           seconds \in ForSpeech.Clips :
        v1' = [v1 EXCEPT ![r] =
          [step |-> step, said |-> IF step = "text" THEN s ELSE None, target |-> l,
           aloud |-> aloud, tries |-> 0, passed |-> FALSE, translation |-> None,
           todo |-> <<>>, spoken |-> None, clip |-> IF step = "clip" THEN seconds ELSE 0]]
  BY DEF Speech!Begin
<1> DEFINE q == [step |-> step, said |-> IF step = "text" THEN s ELSE None, target |-> l,
                 aloud |-> aloud, tries |-> 0, passed |-> FALSE, translation |-> None,
                 todo |-> <<>>, spoken |-> None,
                 clip |-> IF step = "clip" THEN seconds ELSE 0]
<1>2. v1' = [v1 EXCEPT ![r] = q] /\ v2' = v2 /\ v3' = v3 /\ v4 < ForSpeech.MaxRequests
        /\ v4' = v4 + 1
  BY <1>1 DEF Speech!Begin
<1>3. Speech!TypeOK
  BY VoiceInParts
<1>4. /\ v4' \in 0..ForSpeech.MaxRequests
      /\ v2' \in [ForSpeech.Said \X ForSpeech.Targets -> Speech!Translations \cup {None}]
  BY <1>2, <1>3, VoiceBounds DEF Speech!TypeOK
<1>5. q \in Speech!Request
  <2>1. step \in Speech!Steps
    BY <1>1, StepNames
  <2>2. <<>> \in Speech!Chunks
    BY DEF Speech!Chunks
  <2> QED BY <1>1, <2>1, <2>2 DEF Speech!Request
<1>6. SoundRequest(q)
  BY <1>1 DEF SoundRequest
<1> HIDE DEF q
<1> QED BY <1>2, <1>4, <1>5, <1>6, CacheIsSound, RequestMoves

LEMMA TryAgainKeeps ==
  ASSUME Speech!IInv, NEW r \in Calls, Speech!TryAgain(r)
  PROVE  Speech!IInv'
<1>1. /\ v1[r] # None /\ v2' = v2 /\ v3' = v3 /\ v4' = v4
      /\ v1' = [v1 EXCEPT ![r].tries = @ + 1]
  BY DEF Speech!TryAgain, Speech!At
<1>2. PICK q \in Speech!Request : q = v1[r] /\ SoundRequest(q)
  BY <1>1, AtWork
<1> DEFINE n == [q EXCEPT !.tries = @ + 1]
<1>3. /\ n \in Speech!Request /\ n.step = q.step /\ n.said = q.said /\ n.target = q.target
      /\ n.passed = q.passed /\ n.translation = q.translation /\ n.todo = q.todo
      /\ n.spoken = q.spoken
  BY DEF Speech!Request
<1>4. v1' = [v1 EXCEPT ![r] = n]
  BY <1>1, <1>2
<1> HIDE DEF n
<1>5. SoundRequest(n)
  BY <1>2, <1>3 DEF SoundRequest
<1> QED BY <1>1, <1>3, <1>4, <1>5, RequestGoes

\* A request sent to the screen holds what was said.
LEMMA TranscribeKeeps ==
  ASSUME Speech!IInv, NEW r \in Calls, Speech!Transcribe(r)
  PROVE  Speech!IInv'
<1>1. v1[r] # None /\ v1[r].step = "stt" /\ v2' = v2 /\ v4' = v4
  BY DEF Speech!Transcribe, Speech!At
<1>2. /\ v1[r] \in Speech!Request /\ SoundRequest(v1[r])
      /\ v1 \in [Calls -> Speech!Request \cup {None}]
  BY <1>1, AtWork
<1>3. ASSUME NEW s \in ForSpeech.Said, v3' = v3,
             Speech!Goes(r, "screen", [v1[r] EXCEPT !.said = s])
      PROVE  Speech!IInv'
  <2> DEFINE h == [v1[r] EXCEPT !.said = s]
  <2>1. /\ h \in Speech!Request /\ h.said = s /\ h.translation = v1[r].translation
        /\ h.spoken = v1[r].spoken
    BY <1>2 DEF Speech!Request
  <2>2. Speech!Goes(r, "screen", h)
    BY <1>3
  <2> HIDE DEF h
  <2>3. PICK n \in Speech!Request :
          /\ v1' = [v1 EXCEPT ![r] = n] /\ n.step = "screen" /\ n.said = h.said
          /\ n.translation = h.translation /\ n.spoken = h.spoken
    BY <1>1, <1>2, <2>1, <2>2, StepNames, StepsOn
  <2>4. SoundRequest(n)
    BY <1>1, <1>2, <2>1, <2>3 DEF SoundRequest
  <2> QED BY <1>1, <1>3, <2>3, <2>4, RequestGoes
<1>4. CASE Speech!Finish(r, FALSE)
  BY <1>1, <1>4, RequestEnds
<1> QED BY <1>3, <1>4 DEF Speech!Transcribe

LEMMA TakeTextKeeps ==
  ASSUME Speech!IInv, NEW r \in Calls, Speech!TakeText(r)
  PROVE  Speech!IInv'
<1>1. /\ v1[r] # None /\ v1[r].step = "text" /\ v2' = v2 /\ v3' = v3 /\ v4' = v4
      /\ Speech!Goes(r, "screen", v1[r])
  BY DEF Speech!TakeText, Speech!At
<1>2. /\ v1[r] \in Speech!Request /\ SoundRequest(v1[r])
      /\ v1 \in [Calls -> Speech!Request \cup {None}]
  BY <1>1, AtWork
<1>3. PICK n \in Speech!Request :
        /\ v1' = [v1 EXCEPT ![r] = n] /\ n.step = "screen" /\ n.said = v1[r].said
        /\ n.translation = v1[r].translation /\ n.spoken = v1[r].spoken
  BY <1>1, <1>2, StepNames, StepsOn
<1>4. SoundRequest(n)
  BY <1>1, <1>2, <1>3 DEF SoundRequest
<1> QED BY <1>1, <1>3, <1>4, RequestGoes

\* Only what the screen passes goes on.
LEMMA SafetyScreenKeeps ==
  ASSUME Speech!IInv, NEW r \in Calls, Speech!SafetyScreen(r)
  PROVE  Speech!IInv'
<1>1. v1[r] # None /\ v1[r].step = "screen" /\ v2' = v2 /\ v4' = v4
  BY DEF Speech!SafetyScreen, Speech!At
<1>2. /\ v1[r] \in Speech!Request /\ SoundRequest(v1[r])
      /\ v1 \in [Calls -> Speech!Request \cup {None}]
  BY <1>1, AtWork
<1>3. PICK answered \in BOOLEAN :
        IF Speech!Passes(v1[r].said, answered)
        THEN Speech!Goes(r, "cache", [v1[r] EXCEPT !.passed = answered]) /\ v3' = v3
        ELSE Speech!Finish(r, FALSE)
  BY DEF Speech!SafetyScreen
<1>4. CASE Speech!Passes(v1[r].said, answered)
  <2> DEFINE h == [v1[r] EXCEPT !.passed = answered]
  <2>1. /\ h \in Speech!Request /\ h.said = v1[r].said /\ h.passed = answered
        /\ h.translation = v1[r].translation /\ h.spoken = v1[r].spoken
    BY <1>2 DEF Speech!Request
  <2>2. Speech!Goes(r, "cache", h) /\ v3' = v3
    BY <1>3, <1>4
  <2> HIDE DEF h
  <2>3. PICK n \in Speech!Request :
          /\ v1' = [v1 EXCEPT ![r] = n] /\ n.step = "cache" /\ n.said = h.said
          /\ n.passed = h.passed /\ n.translation = h.translation /\ n.spoken = h.spoken
    BY <1>1, <1>2, <2>1, <2>2, StepNames, StepsOn
  <2>4. answered /\ v1[r].said \in ForSpeech.Said \ ForSpeech.Unsafe
    BY <1>1, <1>2, <1>4 DEF Speech!Passes, SoundRequest
  <2>5. SoundRequest(n)
    BY <1>1, <1>2, <2>1, <2>3, <2>4 DEF SoundRequest
  <2> QED BY <1>1, <2>2, <2>3, <2>5, RequestGoes
<1>5. CASE ~Speech!Passes(v1[r].said, answered)
  BY <1>1, <1>3, <1>5, RequestEnds
<1> QED BY <1>4, <1>5

\* A request that passed the screen speaks a translation of its own words.
LEMMA SpeakKeeps ==
  ASSUME Speech!IInv, NEW r \in Calls, NEW t \in Speech!Translations, v1[r] # None,
         v1[r].step \in {"cache", "translate"}, Speech!Speak(r, t),
         t.of = v1[r].said, t.to = v1[r].target, Speech!ChunkText(t.text) \in Speech!Chunks,
         v3' = v3, v4' = v4,
         v2' \in [ForSpeech.Said \X ForSpeech.Targets -> Speech!Translations \cup {None}],
         \A s \in ForSpeech.Said, l \in ForSpeech.Targets : SoundEntry(v2'[<<s, l>>], s, l)
  PROVE  Speech!IInv'
<1>1. /\ v1[r] \in Speech!Request /\ SoundRequest(v1[r])
      /\ v1 \in [Calls -> Speech!Request \cup {None}]
  BY AtWork
<1> DEFINE h == [v1[r] EXCEPT !.translation = t, !.todo = Speech!ChunkText(t.text)]
           step == IF v1[r].aloud THEN "tts" ELSE "done"
<1>2. /\ h \in Speech!Request /\ h.said = v1[r].said /\ h.target = v1[r].target
      /\ h.passed = v1[r].passed /\ h.translation = t /\ h.spoken = v1[r].spoken
      /\ h.todo = Speech!ChunkText(t.text)
  BY <1>1 DEF Speech!Request
<1>3. Speech!Goes(r, step, h)
  BY Zenon DEF Speech!Speak
<1>4. step \in Speech!Steps /\ step \in {"tts", "done"}
  BY StepNames
<1> HIDE DEF h, step
<1>5. PICK n \in Speech!Request :
        /\ v1' = [v1 EXCEPT ![r] = n] /\ n.step = step /\ n.said = h.said
        /\ n.target = h.target /\ n.passed = h.passed /\ n.translation = h.translation
        /\ n.todo = h.todo /\ n.spoken = h.spoken
  BY <1>1, <1>2, <1>3, <1>4, StepsOn
<1>6. /\ v1[r].said \in ForSpeech.Said \ ForSpeech.Unsafe /\ v1[r].passed
      /\ v1[r].spoken = None
  BY <1>1 DEF SoundRequest
<1>7. SoundRequest(n)
  BY <1>2, <1>4, <1>5, <1>6 DEF SoundRequest
<1>8. v4' \in 0..ForSpeech.MaxRequests
  BY VoiceInParts DEF Speech!TypeOK
<1> QED BY <1>5, <1>7, <1>8, RequestMoves

LEMMA ReadCacheKeeps ==
  ASSUME Speech!IInv, NEW r \in Calls, Speech!ReadCache(r),
         \A t \in ForSpeech.Scripts : Speech!ChunkText(t) \in Speech!Chunks
  PROVE  Speech!IInv'
<1>1. v1[r] # None /\ v1[r].step = "cache" /\ v2' = v2 /\ v4' = v4
  BY DEF Speech!ReadCache, Speech!At
<1>2. /\ v1[r] \in Speech!Request /\ SoundRequest(v1[r])
      /\ v1 \in [Calls -> Speech!Request \cup {None}]
  BY <1>1, AtWork
<1>3. CASE Speech!Cached(r) # None /\ Speech!Speak(r, Speech!Cached(r)) /\ v3' = v3
  <2>1. v1[r].said \in ForSpeech.Said /\ v1[r].target \in ForSpeech.Targets
    BY <1>1, <1>2 DEF SoundRequest, Speech!Request
  <2>2. PICK s \in ForSpeech.Said, l \in ForSpeech.Targets :
          s = v1[r].said /\ l = v1[r].target
    BY <2>1
  <2>3. Speech!Cached(r) = v2[<<s, l>>]
    BY <2>2 DEF Speech!Cached
  <2>4. SoundEntry(v2[<<s, l>>], s, l)
    BY CacheIsSound, Zenon
  <2>5. PICK t : t = Speech!Cached(r)
    OBVIOUS
  <2>6. t \in Speech!Translations
    BY <1>3, <2>3, <2>5, CacheIsSound
  <2>7. t.of = v1[r].said /\ t.to = v1[r].target
    BY <1>3, <2>2, <2>3, <2>4, <2>5 DEF SoundEntry
  <2>8. Speech!ChunkText(t.text) \in Speech!Chunks
    BY <2>6 DEF Speech!Translations
  <2>9. Speech!Speak(r, t)
    BY <1>3, <2>5
  <2> QED BY <1>1, <1>3, <2>6, <2>7, <2>8, <2>9, CacheIsSound, SpeakKeeps
<1>4. CASE Speech!Cached(r) = None /\ Speech!Goes(r, "translate", v1[r]) /\ v3' = v3
  <2>1. PICK n \in Speech!Request :
          /\ v1' = [v1 EXCEPT ![r] = n] /\ n.step = "translate" /\ n.said = v1[r].said
          /\ n.passed = v1[r].passed /\ n.translation = v1[r].translation
          /\ n.spoken = v1[r].spoken
    BY <1>1, <1>2, <1>4, StepNames, StepsOn
  <2>2. SoundRequest(n)
    BY <1>1, <1>2, <2>1 DEF SoundRequest
  <2> QED BY <1>1, <1>4, <2>1, <2>2, RequestGoes
<1>5. CASE Speech!Finish(r, TRUE)
  BY <1>1, <1>5, RequestEnds
<1> QED BY <1>3, <1>4, <1>5 DEF Speech!ReadCache

LEMMA TranslateKeeps ==
  ASSUME Speech!IInv, NEW r \in Calls, Speech!Translate(r),
         \A t \in ForSpeech.Scripts : Speech!ChunkText(t) \in Speech!Chunks
  PROVE  Speech!IInv'
<1>1. v1[r] # None /\ v1[r].step = "translate" /\ v4' = v4
  BY DEF Speech!Translate, Speech!At
<1>2. /\ v1[r] \in Speech!Request /\ SoundRequest(v1[r])
      /\ v1 \in [Calls -> Speech!Request \cup {None}]
  BY <1>1, AtWork
<1>3. ASSUME NEW script \in ForSpeech.Scripts,
             LET t == [of |-> v1[r].said, to |-> v1[r].target, text |-> script] IN
             /\ v2' \in {v2, [v2 EXCEPT ![<<t.of, t.to>>] = t]}
             /\ Speech!Speak(r, t) /\ v3' = v3
      PROVE  Speech!IInv'
  <2> DEFINE e == [of |-> v1[r].said, to |-> v1[r].target, text |-> script]
  <2>1. PICK s \in ForSpeech.Said \ ForSpeech.Unsafe, l \in ForSpeech.Targets :
          s = v1[r].said /\ l = v1[r].target
    BY <1>1, <1>2 DEF SoundRequest, Speech!Request
  <2>2. e \in Speech!Translations /\ e.of = s /\ e.to = l /\ e.text = script
    BY <2>1 DEF Speech!Translations
  <2>3. v2' \in {v2, [v2 EXCEPT ![<<e.of, e.to>>] = e]} /\ Speech!Speak(r, e) /\ v3' = v3
    BY <1>3
  <2> HIDE DEF e
  <2>4. \/ v2' = v2
        \/ v2' = [v2 EXCEPT ![<<s, l>>] = e]
    BY <2>2, <2>3
  <2>5. v2' \in [ForSpeech.Said \X ForSpeech.Targets -> Speech!Translations \cup {None}]
    BY <2>2, <2>4, CacheIsSound
  <2>6. ASSUME NEW s2 \in ForSpeech.Said, NEW l2 \in ForSpeech.Targets
        PROVE  SoundEntry(v2'[<<s2, l2>>], s2, l2)
    <3>1. SoundEntry(v2[<<s2, l2>>], s2, l2)
      BY CacheIsSound, Zenon
    <3>2. CASE v2' = v2
      BY <3>1, <3>2
    <3>3. CASE v2' = [v2 EXCEPT ![<<s, l>>] = e]
      <4>1. v2'[<<s2, l2>>] = IF s2 = s /\ l2 = l THEN e ELSE v2[<<s2, l2>>]
        BY <3>3, CacheIsSound
      <4> QED BY <2>1, <2>2, <3>1, <4>1 DEF SoundEntry
    <3> QED BY <2>4, <3>2, <3>3
  <2>7. \A s2 \in ForSpeech.Said, l2 \in ForSpeech.Targets :
          SoundEntry(v2'[<<s2, l2>>], s2, l2)
    BY <2>6, Zenon
  <2>8. Speech!ChunkText(e.text) \in Speech!Chunks
    BY <2>2
  <2> QED BY <1>1, <2>1, <2>2, <2>3, <2>5, <2>7, <2>8, SpeakKeeps
<1>4. CASE Speech!Finish(r, TRUE) /\ v2' = v2
  BY <1>1, <1>4, RequestEnds
<1> QED BY <1>3, <1>4 DEF Speech!Translate

\* The first chunk to come, put behind the others.
LEMMA NextChunk ==
  ASSUME NEW todo \in Speech!Chunks, todo # <<>>, NEW said \in Speech!Chunks
  PROVE  /\ Tail(todo) \in Speech!Chunks
         /\ Append(said, Head(todo)) \in Speech!Chunks
         /\ Append(said, Head(todo)) \o Tail(todo) = said \o todo
<1> DEFINE Text == Seq(STRING)
<1>1. todo \in Seq(Text) /\ said \in Seq(Text)
  BY DEF Speech!Chunks
<1> HIDE DEF Text
<1>2. /\ Tail(todo) \in Seq(Text) /\ Append(said, Head(todo)) \in Seq(Text)
      /\ Append(said, Head(todo)) \o Tail(todo) = said \o todo
  BY <1>1
<1> QED BY <1>2 DEF Text, Speech!Chunks

\* What is said and what is to come are the translation's chunks.
LEMMA SynthesizeChunkKeeps ==
  ASSUME Speech!IInv, NEW r \in Calls, Speech!SynthesizeChunk(r)
  PROVE  Speech!IInv'
<1>1. /\ v1[r] # None /\ v1[r].step = "tts" /\ v1[r].todo # <<>>
      /\ v2' = v2 /\ v3' = v3 /\ v4' = v4
  BY DEF Speech!SynthesizeChunk, Speech!At
<1>2. /\ v1[r] \in Speech!Request /\ SoundRequest(v1[r])
      /\ v1 \in [Calls -> Speech!Request \cup {None}]
  BY <1>1, AtWork
<1> DEFINE said == IF v1[r].spoken = None THEN <<>> ELSE v1[r].spoken
           more == Append(said, Head(v1[r].todo))
           h == [v1[r] EXCEPT !.todo = Tail(v1[r].todo), !.spoken = more]
<1>3. Speech!Goes(r, "tts", h)
  BY Zenon DEF Speech!SynthesizeChunk
<1>4. v1[r].todo \in Speech!Chunks /\ v1[r].spoken \in Speech!Chunks \cup {None}
  BY <1>2 DEF Speech!Request
<1>5. said \in Speech!Chunks
  <2>1. <<>> \in Speech!Chunks
    BY DEF Speech!Chunks
  <2> QED BY <1>4, <2>1
<1>6. Speech!ChunkText(v1[r].translation.text) = said \o v1[r].todo
  <2>1. <<>> \o v1[r].todo = v1[r].todo
    BY <1>4 DEF Speech!Chunks
  <2> QED BY <1>1, <1>2, <2>1 DEF SoundRequest
<1> HIDE DEF said
<1>7. /\ Tail(v1[r].todo) \in Speech!Chunks /\ more \in Speech!Chunks
      /\ more \o Tail(v1[r].todo) = said \o v1[r].todo
  BY <1>1, <1>4, <1>5, NextChunk
<1> HIDE DEF more
<1>8. /\ h \in Speech!Request /\ h.said = v1[r].said /\ h.target = v1[r].target
      /\ h.passed = v1[r].passed /\ h.translation = v1[r].translation
      /\ h.todo = Tail(v1[r].todo) /\ h.spoken = more
  BY <1>2, <1>7 DEF Speech!Request
<1> HIDE DEF h
<1>9. PICK n \in Speech!Request :
        /\ v1' = [v1 EXCEPT ![r] = n] /\ n.step = "tts" /\ n.said = h.said
        /\ n.target = h.target /\ n.passed = h.passed /\ n.translation = h.translation
        /\ n.todo = h.todo /\ n.spoken = h.spoken
  BY <1>1, <1>2, <1>3, <1>8, StepNames, StepsOn
<1>10. more # None
  BY <1>7, VoiceBounds
<1>11. SoundRequest(n)
  BY <1>1, <1>2, <1>6, <1>7, <1>8, <1>9, <1>10 DEF SoundRequest
<1> QED BY <1>1, <1>9, <1>11, RequestGoes

LEMMA SpeechFailsKeeps ==
  ASSUME Speech!IInv, NEW r \in Calls, Speech!SpeechFails(r)
  PROVE  Speech!IInv'
<1>1. /\ v1[r] # None /\ v1[r].step = "tts" /\ v2' = v2 /\ v3' = v3 /\ v4' = v4
  BY DEF Speech!SpeechFails, Speech!At
<1>2. /\ v1[r] \in Speech!Request /\ SoundRequest(v1[r])
      /\ v1 \in [Calls -> Speech!Request \cup {None}]
  BY <1>1, AtWork
<1> DEFINE h == [v1[r] EXCEPT !.spoken = None, !.todo = <<>>]
<1>3. Speech!Goes(r, "done", h)
  BY DEF Speech!SpeechFails
<1>4. <<>> \in Speech!Chunks
  BY DEF Speech!Chunks
<1>5. /\ h \in Speech!Request /\ h.said = v1[r].said /\ h.target = v1[r].target
      /\ h.passed = v1[r].passed /\ h.translation = v1[r].translation /\ h.spoken = None
  BY <1>2, <1>4 DEF Speech!Request
<1> HIDE DEF h
<1>6. PICK n \in Speech!Request :
        /\ v1' = [v1 EXCEPT ![r] = n] /\ n.step = "done" /\ n.said = h.said
        /\ n.target = h.target /\ n.passed = h.passed /\ n.translation = h.translation
        /\ n.spoken = h.spoken
  BY <1>1, <1>2, <1>3, <1>5, StepNames, StepsOn
<1>7. SoundRequest(n)
  BY <1>1, <1>2, <1>5, <1>6 DEF SoundRequest
<1> QED BY <1>1, <1>6, <1>7, RequestGoes

\* The steps that only end a request.
LEMMA EndsKeep ==
  ASSUME Speech!IInv, NEW r \in Calls,
         \/ Speech!NothingSaid(r) \/ Speech!Deliver(r) \/ Speech!Convert(r)
         \/ Speech!Identify(r) \/ Speech!Probe(r)
  PROVE  Speech!IInv'
<1>1. CASE Speech!NothingSaid(r)
  BY <1>1, RequestEnds DEF Speech!NothingSaid, Speech!At
<1>2. CASE Speech!Deliver(r)
  BY <1>2, RequestEnds DEF Speech!Deliver, Speech!At
<1>3. CASE Speech!Convert(r)
  BY <1>3, RequestEnds DEF Speech!Convert, Speech!At
<1>4. CASE Speech!Identify(r)
  BY <1>4, RequestEnds DEF Speech!Identify, Speech!At
<1>5. CASE Speech!Probe(r)
  <2>1. PICK provider \in Speech!Calling, outcome \in {"ok", "error", "unreachable"} :
          Speech!Finish(r, Speech!Healthy(provider, outcome))
    BY <1>5 DEF Speech!Probe
  <2>2. Speech!Healthy(provider, outcome) \in BOOLEAN
    BY DEF Speech!Healthy
  <2> QED BY <1>5, <2>1, <2>2, RequestEnds DEF Speech!Probe, Speech!At
<1> QED BY <1>1, <1>2, <1>3, <1>4, <1>5

LEMMA PrepareClipKeeps ==
  ASSUME Speech!IInv, NEW r \in Calls, Speech!PrepareClip(r)
  PROVE  Speech!IInv'
<1>1. v1[r] # None /\ v1[r].step = "clip" /\ v2' = v2 /\ v4' = v4
  BY DEF Speech!PrepareClip, Speech!At
<1>2. /\ v1[r] \in Speech!Request /\ SoundRequest(v1[r])
      /\ v1 \in [Calls -> Speech!Request \cup {None}]
  BY <1>1, AtWork
<1> DEFINE sent == IF v1[r].clip > ForSpeech.MaxClip THEN ForSpeech.MaxClip ELSE v1[r].clip
           h == [v1[r] EXCEPT !.clip = sent]
<1>3. \/ Speech!Finish(r, FALSE)
      \/ Speech!Goes(r, "identify", h) /\ v3' = v3
  BY Zenon DEF Speech!PrepareClip
<1>4. CASE Speech!Goes(r, "identify", h) /\ v3' = v3
  <2>1. sent \in ForSpeech.Clips \cup {0, ForSpeech.MaxClip}
    BY <1>2 DEF Speech!Request
  <2> HIDE DEF sent
  <2>2. /\ h \in Speech!Request /\ h.translation = v1[r].translation
        /\ h.spoken = v1[r].spoken
    BY <1>2, <2>1 DEF Speech!Request
  <2> HIDE DEF h
  <2>3. PICK n \in Speech!Request :
          /\ v1' = [v1 EXCEPT ![r] = n] /\ n.step = "identify"
          /\ n.translation = h.translation /\ n.spoken = h.spoken
    BY <1>1, <1>2, <1>4, <2>2, StepNames, StepsOn
  <2>4. SoundRequest(n)
    BY <1>1, <1>2, <2>2, <2>3 DEF SoundRequest
  <2> QED BY <1>1, <1>4, <2>3, <2>4, RequestGoes
<1>5. CASE Speech!Finish(r, FALSE)
  BY <1>1, <1>5, RequestEnds
<1> QED BY <1>3, <1>4, <1>5

LEMMA VoiceFirst ==
  ASSUME Speech!Init
  PROVE  Speech!IInv
<1>1. /\ v1 = [r \in Calls |-> None] /\ v3 = [r \in Calls |-> None] /\ v4 = 0
      /\ v2 = [k \in ForSpeech.Said \X ForSpeech.Targets |-> None]
  BY DEF Speech!Init
<1>2. Speech!TypeOK
  BY <1>1, VoiceBounds DEF Speech!TypeOK
<1>3. ASSUME NEW s \in ForSpeech.Said, NEW l \in ForSpeech.Targets
      PROVE  SoundEntry(v2[<<s, l>>], s, l)
  BY <1>1 DEF SoundEntry
<1> QED BY <1>1, <1>2, <1>3, VoiceInParts

LEMMA VoiceInductive ==
  ASSUME Speech!IInv, [Speech!Next]_(Speech!vars),
         \A t \in ForSpeech.Scripts : Speech!ChunkText(t) \in Speech!Chunks
  PROVE  Speech!IInv'
<1>1. CASE UNCHANGED Speech!vars
  <2>1. v1' = v1 /\ v2' = v2 /\ v3' = v3 /\ v4' = v4
    BY <1>1 DEF Speech!vars
  <2>2. Speech!TypeOK'
    BY <2>1, VoiceInParts DEF Speech!TypeOK
  <2> QED BY <2>1, <2>2, VoiceInParts, CacheIsSound
<1>2. ASSUME NEW r \in Calls,
             \/ Speech!Begin(r) \/ Speech!TryAgain(r) \/ Speech!Transcribe(r)
             \/ Speech!TakeText(r) \/ Speech!NothingSaid(r) \/ Speech!SafetyScreen(r)
             \/ Speech!ReadCache(r) \/ Speech!Translate(r) \/ Speech!SynthesizeChunk(r)
             \/ Speech!SpeechFails(r) \/ Speech!Deliver(r) \/ Speech!Convert(r)
             \/ Speech!PrepareClip(r) \/ Speech!Identify(r) \/ Speech!Probe(r)
      PROVE  Speech!IInv'
  BY <1>2, BeginKeeps, TryAgainKeeps, TranscribeKeeps, TakeTextKeeps, SafetyScreenKeeps,
     ReadCacheKeeps, TranslateKeeps, SynthesizeChunkKeeps, SpeechFailsKeeps, EndsKeep,
     PrepareClipKeeps
<1> QED BY <1>1, <1>2 DEF Speech!Next

\* What the invariant says of what comes out, where chunks are what they are for.
LEMMA VoiceIsSafe ==
  ASSUME Speech!IInv, \A t \in ForSpeech.Scripts : Speech!ChunksSayTheText(t)
  PROVE  Speech!TypeOK /\ Speech!OnlyPassedIsSaid
<1>1. ASSUME NEW r \in Calls, v3[r] # None, v3[r].translation # None
      PROVE  /\ v3[r].translation.of = v3[r].transcript
             /\ v3[r].translation.to = v3[r].target
             /\ v3[r].spoken # None =>
                  /\ \A i \in DOMAIN v3[r].spoken : Speech!Fits(v3[r].spoken[i])
                  /\ Speech!Solid(Speech!FlattenSeq(v3[r].spoken)) =
                       Speech!Solid(v3[r].translation.text)
  <2>1. SoundAnswer(v3[r])
    BY <1>1, VoiceInParts
  <2>2. PICK t : t = v3[r].translation.text
    OBVIOUS
  <2>3. t \in ForSpeech.Scripts
    BY <1>1, <2>1, <2>2 DEF SoundAnswer, Speech!Translations
  <2>4. CASE v3[r].spoken # None
    <3>1. v3[r].spoken = Speech!ChunkText(t)
      BY <1>1, <2>1, <2>2, <2>4 DEF SoundAnswer
    <3> QED BY <1>1, <2>1, <2>2, <2>3, <3>1, Zenon DEF SoundAnswer, Speech!ChunksSayTheText
  <2> QED BY <1>1, <2>1, <2>4 DEF SoundAnswer
<1>2. Speech!SaysItsOwnWords
  BY <1>1, Zenon DEF Speech!SaysItsOwnWords
<1> QED BY <1>2 DEF Speech!IInv, Speech!OnlyPassedIsSaid

\* Nothing is translated, kept for others or said aloud that the screen did not pass; a
\* translation is of the request's own words into its own language, whoever stored it; and
\* what is said aloud is the whole of it, in its order, in pieces that fit.  That the pieces
\* of one text say the text is the chunker's part, whatever the pipeline does (Voice).
THEOREM OnlyScreenedIsSpoken ==
  ASSUME \A t \in ForSpeech.Scripts :
           Speech!ChunkText(t) \in Speech!Chunks /\ Speech!ChunksSayTheText(t)
  PROVE  Services => []OnlyPassedIsSaid
<1> DEFINE Kept == running = "voice" => Speech!IInv
<1>1. ServicesInit => Kept
  BY VoiceAlone, VoiceFirst
<1>2. Kept /\ [ServicesNext]_<<running, vars, slots>> => Kept'
  <2> SUFFICES ASSUME Kept, [ServicesNext]_<<running, vars, slots>>, running' = "voice"
               PROVE  Speech!IInv'
    OBVIOUS
  <2>1. running = "voice"
    BY DEF ServicesNext, In
  <2> QED BY <2>1, VoiceAlone, VoiceInductive
<1>3. Kept => OnlyPassedIsSaid
  BY VoiceIsSafe DEF OnlyPassedIsSaid
<1> QED BY <1>1, <1>2, <1>3, PTL DEF Services

=============================================================================
