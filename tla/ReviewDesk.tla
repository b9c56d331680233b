------------------------------ MODULE ReviewDesk ------------------------------
(***************************************************************************)
(* A moderator's review dashboard and the API it works through.  The page  *)
(* reads the queue in reads that overlap: a filter chosen while another    *)
(* one's queue is on its way, a refresh, the reload after an action.  It   *)
(* claims, releases and decides items in calls that overlap as well, and   *)
(* that may be carried out without their answer arriving.  Colleagues work *)
(* on the same queue.                                                      *)
(***************************************************************************)
EXTENDS Naturals, FiniteSets

CONSTANTS
  Items,     \* cases in the queue
  Filters,   \* of "all", "pending", "claimed", "resolved"
  Decisions, \* "uphold", "overturn"
  Me, Colleague, None,
  MaxReads,  \* bound: reads of the queue
  MaxCalls   \* bound: actions sent

\* What the constants are to satisfy (Services assumes it).
DeskAssumption ==
  /\ "all" \in Filters /\ "uphold" \in Decisions
  /\ Me # Colleague /\ MaxReads \in Nat \ {0}

VARIABLES
  row,       \* row[i]: [status, by, decision] in the queue's table
  page,      \* [open, filter, loading, error, latest, shown, from]
  draft,     \* None, or [item, decision, notes]: the decision being written
  busy,      \* None, or the item whose buttons are off
  assist,    \* assist[i]: "unasked", "loading", "none", or a decision suggested
  reads,     \* the reads on their way: [n, filter, reply]
  calls,     \* the actions on their way: [n, item, action, decision, filter, step]
  submitted, \* the decisions submitted so far
  sent       \* how many actions were sent

vars == <<row, page, draft, busy, assist, reads, calls, submitted, sent>>

Rows == [status : {"pending", "claimed", "resolved"}, by : {Me, Colleague, None},
         decision : Decisions \cup {None}]
Submissions == [item : Items, decision : Decisions]
Table == [i \in Items |-> "hidden"]
Shows == [Items -> {"hidden", "pending", "claimed", "resolved"}]
Unanswered == [kind |-> "unanswered", list |-> Table]
Failed == [kind |-> "failed", list |-> Table]

TypeOK ==
  /\ row \in [Items -> Rows]
  /\ page \in [open : BOOLEAN, filter : Filters, loading : BOOLEAN, error : BOOLEAN,
               latest : 0 .. MaxReads, shown : Shows, from : 0 .. MaxReads]
  /\ draft = None \/ draft \in [item : Items, decision : Decisions, notes : BOOLEAN]
  /\ busy \in Items \cup {None}
  /\ assist \in [Items -> {"unasked", "loading", "none"} \cup Decisions]
  /\ submitted \subseteq Submissions

----------------------------------------------------------------------------
(***************************************************************************)
(* Reads of the queue.                                                     *)
(***************************************************************************)

\* A new read, numbered: the newest.
Reading(f) ==
  /\ page.latest < MaxReads
  /\ reads' = reads \cup {[n |-> page.latest + 1, filter |-> f, reply |-> Unanswered]}

Refresh ==
  /\ page.open /\ Reading(page.filter)
  /\ page' = [page EXCEPT !.latest = @ + 1, !.loading = TRUE, !.error = FALSE]
  /\ UNCHANGED <<row, draft, busy, assist, calls, submitted, sent>>

\* The effect of the new filter sends its read.
SelectFilter(f) ==
  /\ page.open /\ f # page.filter /\ Reading(f)
  /\ page' = [page EXCEPT !.filter = f, !.latest = @ + 1, !.loading = TRUE, !.error = FALSE]
  /\ UNCHANGED <<row, draft, busy, assist, calls, submitted, sent>>

Listed(f) == [i \in Items |-> IF f \in {"all", row[i].status} THEN row[i].status ELSE "hidden"]

\* The table as it is, nothing when the table cannot be read, or an error.
ServeRead(r) ==
  /\ r \in reads /\ r.reply = Unanswered
  /\ \E reply \in [kind : {"queue"}, list : {Listed(r.filter), Table}] \cup {Failed} :
       reads' = (reads \ {r}) \cup {[r EXCEPT !.reply = reply]}
  /\ UNCHANGED <<row, page, draft, busy, assist, calls, submitted, sent>>

\* Mutant of IsNewest: whatever arrives is shown.
IsNewestOrNot(r) == r \in reads

IsNewest(r) == r.n = page.latest

ReceiveRead(r) ==
  /\ page.open /\ r \in reads /\ r.reply # Unanswered
  /\ reads' = reads \ {r}
  /\ page' = IF ~IsNewest(r) THEN page
             ELSE [page EXCEPT !.loading = FALSE, !.error = r.reply = Failed, !.from = r.n,
                               !.shown = r.reply.list]
  /\ UNCHANGED <<row, draft, busy, assist, calls, submitted, sent>>

\* What is on its way is dropped.
Leave ==
  /\ page.open /\ page' = [page EXCEPT !.open = FALSE]
  /\ reads' = {} /\ draft' = None
  /\ UNCHANGED <<row, busy, assist, calls, submitted, sent>>

----------------------------------------------------------------------------
(***************************************************************************)
(* Suggestions and drafts.                                                 *)
(***************************************************************************)

\* The items on the page; the list is not shown while it is loading.
Displayed(i, statuses) == page.open /\ ~page.loading /\ page.shown[i] \in statuses

AskSuggestion(i) ==
  /\ Displayed(i, {"pending", "claimed"}) /\ assist[i] = "unasked"
  /\ assist' = [assist EXCEPT ![i] = "loading"]
  /\ UNCHANGED <<row, page, draft, busy, reads, calls, submitted, sent>>

\* None over the quota, without a model, or when the call fails.
ReceiveSuggestion(i) ==
  /\ assist[i] = "loading"
  /\ \E suggestion \in {"none"} \cup Decisions : assist' = [assist EXCEPT ![i] = suggestion]
  /\ UNCHANGED <<row, page, draft, busy, reads, calls, submitted, sent>>

DraftOf(i) == draft # None /\ draft.item = i

OpenDraft(i) ==
  /\ Displayed(i, {"claimed"}) /\ ~DraftOf(i)
  /\ draft' = [item |-> i, notes |-> FALSE,
               decision |-> IF assist[i] \in Decisions THEN assist[i] ELSE "uphold"]
  /\ UNCHANGED <<row, page, busy, assist, reads, calls, submitted, sent>>

\* The panel is part of the item's card.
Drafting == draft # None /\ Displayed(draft.item, {"pending", "claimed", "resolved"})

EditDraft ==
  /\ Drafting
  /\ \E d \in Decisions, notes \in BOOLEAN :
       draft' = [draft EXCEPT !.decision = d, !.notes = notes]
  /\ UNCHANGED <<row, page, busy, assist, reads, calls, submitted, sent>>

CancelDraft ==
  /\ Drafting /\ draft' = None
  /\ UNCHANGED <<row, page, busy, assist, reads, calls, submitted, sent>>

----------------------------------------------------------------------------
(***************************************************************************)
(* Actions: a PATCH of an item.                                            *)
(***************************************************************************)

\* The handler keeps the filter it was made with; one item's buttons are off.
Send(i, action, d) ==
  /\ sent < MaxCalls /\ sent' = sent + 1 /\ busy' = i
  /\ calls' = calls \cup {[n |-> sent, item |-> i, action |-> action, decision |-> d,
                           filter |-> page.filter, step |-> "read"]}
  /\ page' = [page EXCEPT !.error = FALSE]

Claim(i) ==
  /\ Displayed(i, {"pending"}) /\ busy # i /\ Send(i, "claim", None)
  /\ UNCHANGED <<row, draft, assist, reads, submitted>>

Release(i) ==
  /\ Displayed(i, {"claimed"}) /\ busy # i /\ ~DraftOf(i)
  /\ Send(i, "unclaim", None)
  /\ UNCHANGED <<row, draft, assist, reads, submitted>>

\* Without notes nothing is sent.
SubmitDraft ==
  /\ Drafting /\ busy # draft.item
  /\ IF draft.notes
     THEN /\ Send(draft.item, "resolve", draft.decision)
          /\ submitted' = submitted \cup {[item |-> draft.item, decision |-> draft.decision]}
     ELSE page' = [page EXCEPT !.error = TRUE] /\ UNCHANGED <<busy, calls, submitted, sent>>
  /\ UNCHANGED <<row, draft, assist, reads>>

MayAct(c) ==
  /\ c.action = "claim" => row[c.item].status = "pending"
  /\ c.action # "claim" => row[c.item].status = "claimed" /\ row[c.item].by = Me

Step(c, step) == calls' = (calls \ {c}) \cup {[c EXCEPT !.step = step]}

\* The service reads the item and refuses; the item may not be readable at all.
Check(c) ==
  /\ c \in calls /\ c.step = "read"
  /\ \/ MayAct(c) /\ Step(c, "write")
     \/ Step(c, "refused")
  /\ UNCHANGED <<row, page, draft, busy, assist, reads, submitted, sent>>

Written(c) ==
  CASE c.action = "claim" -> [status |-> "claimed", by |-> Me, decision |-> None]
    [] c.action = "unclaim" -> [row[c.item] EXCEPT !.status = "pending"]
    [] OTHER -> [row[c.item] EXCEPT !.status = "resolved", !.decision = c.decision]

\* The row is written whatever it has become; a release leaves the name of who
\* held the item; a write may fail.
Write(c) ==
  /\ c \in calls /\ c.step = "write"
  /\ \/ row' = [row EXCEPT ![c.item] = Written(c)] /\ Step(c, "ok")
     \/ UNCHANGED row /\ Step(c, "refused")
  /\ UNCHANGED <<page, draft, busy, assist, reads, submitted, sent>>

\* What an answer does on the page: a success closes the draft that is open
\* after a decision, and reloads the queue of the filter of the click.
Succeeds(c) ==
  /\ c.step = "ok"
  /\ draft' = IF c.action = "resolve" THEN None ELSE draft
  /\ page.open => Reading(c.filter) /\ page' = [page EXCEPT !.latest = @ + 1, !.loading = TRUE,
                                                            !.error = FALSE]
  /\ ~page.open => UNCHANGED <<page, reads>>

\* Refused, or no answer: whether it was carried out is not known.
Fails(c) ==
  /\ c.step \in {"ok", "refused"}
  /\ page' = [page EXCEPT !.error = page.open]
  /\ UNCHANGED <<draft, reads>>

ReceiveCall(c) ==
  /\ c \in calls /\ calls' = calls \ {c} /\ busy' = None
  /\ Succeeds(c) \/ Fails(c)
  /\ UNCHANGED <<row, assist, submitted, sent>>

----------------------------------------------------------------------------
(***************************************************************************)
(* Others.                                                                 *)
(***************************************************************************)

ColleagueActs(i) ==
  /\ \/ /\ row[i].status = "pending"
        /\ row' = [row EXCEPT ![i] = [status |-> "claimed", by |-> Colleague, decision |-> None]]
     \/ /\ row[i].status = "claimed" /\ row[i].by = Colleague
        /\ \E d \in Decisions :
             row' = [row EXCEPT ![i].status = "resolved", ![i].decision = d]
  /\ UNCHANGED <<page, draft, busy, assist, reads, calls, submitted, sent>>

\* A claim that is too old goes back to the queue.
ClaimExpires(i) ==
  /\ row[i].status = "claimed"
  /\ row' = [row EXCEPT ![i] = [status |-> "pending", by |-> None, decision |-> None]]
  /\ UNCHANGED <<page, draft, busy, assist, reads, calls, submitted, sent>>

Init ==
  /\ row \in [Items -> {[status |-> "pending", by |-> None, decision |-> None],
                        [status |-> "claimed", by |-> Me, decision |-> None]}]
  /\ page = [open |-> TRUE, filter |-> "all", loading |-> TRUE, error |-> FALSE,
             latest |-> 1, shown |-> Table, from |-> 0]
  /\ draft = None /\ busy = None
  /\ assist = [i \in Items |-> "unasked"]
  /\ reads = {[n |-> 1, filter |-> "all", reply |-> Unanswered]}
  /\ calls = {} /\ submitted = {} /\ sent = 0

Next ==
  \/ Refresh \/ EditDraft \/ CancelDraft \/ SubmitDraft \/ Leave
  \/ \E f \in Filters : SelectFilter(f)
  \/ \E r \in reads : ServeRead(r) \/ ReceiveRead(r)
  \/ \E c \in calls : Check(c) \/ Write(c) \/ ReceiveCall(c)
  \/ \E i \in Items :
       \/ AskSuggestion(i) \/ ReceiveSuggestion(i) \/ OpenDraft(i) \/ Claim(i) \/ Release(i)
       \/ ColleagueActs(i) \/ ClaimExpires(i)

Spec == Init /\ [][Next]_vars

----------------------------------------------------------------------------
\* The page waits for its newest read exactly while that one is on its way,
\* and then shows that one, however the answers were reordered
\* (ReviewDashboard.tsx: "Every read is numbered; only the newest one is shown").
ShowsTheNewestRead ==
  page.open =>
    LET waiting == \E r \in reads : r.n = page.latest IN
    page.loading = waiting /\ (~waiting => page.from = page.latest)

\* A case is decided as a moderator submitted it from a draft of that case
\* (route.ts: "The reviewer identity is the verified moderator").
DecidedAsSubmitted ==
  \A i \in Items :
    row[i].status = "resolved" /\ row[i].by = Me =>
      [item |-> i, decision |-> row[i].decision] \in submitted

\* What the page shows and what it does.
DeskIsCoherent == ShowsTheNewestRead /\ DecidedAsSubmitted

\* The inductive invariant: reads are numbered as they were sent, no two alike, and
\* what is on its way to be decided was submitted.
ReadsTyped ==
  reads \subseteq [n : 1 .. MaxReads, filter : Filters,
                  reply : [kind : {"unanswered", "queue", "failed"}, list : Shows]]

CallsTyped ==
  /\ calls \subseteq [n : Nat, item : Items, action : {"claim", "unclaim", "resolve"},
                     decision : Decisions \cup {None}, filter : Filters,
                     step : {"read", "write", "ok", "refused"}]
  /\ sent \in Nat

Numbered ==
  \A r \in reads : r.n <= page.latest /\ \A s \in reads : s.n = r.n => s = r

SubmittedFirst ==
  \A c \in calls : c.action = "resolve" => [item |-> c.item, decision |-> c.decision] \in submitted

IInv ==
  /\ TypeOK /\ ReadsTyped /\ CallsTyped
  /\ Numbered /\ ShowsTheNewestRead /\ SubmittedFirst /\ DecidedAsSubmitted

\* Does not hold: the queue shown is the chosen filter's.
ShowsItsFilter ==
  page.open /\ ~page.loading /\ page.filter # "all" =>
    \A i \in Items : page.shown[i] \in {page.filter, "hidden"}
=============================================================================
