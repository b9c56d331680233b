------------------------- MODULE AccountConsequences -------------------------
(***************************************************************************)
(* What a blocked message does to an account, and how a moderator undoes   *)
(* it.  One account; every decision of the Guardian about it is handled by *)
(* a Sentinel run of its own, in the background, while moderators and the  *)
(* escalation reaper work on the review queue.                             *)
(*                                                                         *)
(*   platform/moderation/sentinel.ts        processBlock, five steps       *)
(*   platform/moderation/strikes.ts         the strike rows                *)
(*   platform/moderation/review-service.ts  appeals, claims, resolutions,  *)
(*                                          restoreAccountStatus, reaper   *)
(*   platform/moderation/review-store.ts    the queue rows                 *)
(*   platform/auth/audit.ts                 audited: record, then act      *)
(*                                                                         *)
(* No write is conditional on what was read before it: account, items and  *)
(* audit log are read and written in separate requests, so a run, two      *)
(* moderators and the reaper interleave between any two of them.  The      *)
(* stores are the Supabase ones; a store that cannot be reached answers as *)
(* the code that calls it makes of the error.                              *)
(***************************************************************************)
EXTENDS Integers, Sequences, FiniteSets

CONSTANTS
  Blocks,       \* decisions of the Guardian to block, attributed to the user
  Escalations,  \* decisions of the Guardian to hold for a human
  Reviewers,    \* moderators; the owner of the account may be one
  Owner,        \* the user of the account
  NoOne,        \* nobody, no decision
  Requests,     \* concurrent requests to the appeals and review routes
  WarnAt, SuspendAt, BanAt,   \* strike thresholds
  Remedials,    \* what the configuration may say is done to an overdue escalation
  Faults,       \* what may fail: see Fault
  MaxCalls      \* BOUND: requests made in all

\* crash: a background run or a request ends half-way, by a crash or an error;
\* the others are failed accesses that the code goes on from.
Fault == {"crash", "audit", "users", "strikes", "queue", "expire"}

ASSUME AccountAssumption ==
  /\ {WarnAt, SuspendAt, BanAt} \subseteq Nat \ {0}
  /\ Remedials \subseteq {"block", "escalate_higher"}
  /\ Faults \subseteq Fault
  /\ MaxCalls \in Nat
  /\ Blocks \cap Escalations = {}
  /\ NoOne \notin Blocks \cup Escalations \cup Reviewers \cup {Owner}
  /\ Owner \notin Blocks
  /\ "reaper" \notin Reviewers \cup {Owner}

VARIABLES
  account,  \* users.account_status
  setBy,    \* whose consequence it is: a decision, or NoOne (history)
  strikes,  \* the strike rows, in the order they were inserted
  log,      \* the sentinel_status_change records, in the order they were written
  items,    \* the review queue, by id
  run,      \* the Sentinel run of each block
  req,      \* the requests in progress and what each has read
  calls,    \* requests made so far
  sweep     \* the reaper's sweep: what its queries returned

vars == <<account, setBy, strikes, log, items, run, req, calls, sweep>>
person == <<account, setBy>>

\* Account statuses, least to most severe.
Severity == [active |-> 0, warned |-> 1, restricted |-> 2, suspended |-> 3, banned |-> 4]
Status == DOMAIN Severity
Consequence == {"none", "warn", "suspend", "ban"}
Source == {"ban_review", "appeal", "escalation"}
ItemStatus == {"pending", "claimed", "resolved"}
Verdict == {"uphold", "overturn", "modify"}

RunPC == {"idle", "recording", "tallying", "reading", "recordingChange", "writing",
          "reporting", "concluding", "over", "unsubmitted", "died"}
ReqPC == {"idle", "appealing", "claiming", "unclaiming", "resolving", "account",
          "history", "restoring", "expiring", "marking"}

IdleRun == [at |-> "idle", counted |-> {}, consequence |-> "none",
            current |-> "active", new |-> "active"]
IdleReq == [at |-> "idle", by |-> NoOne, item |-> 0, decision |-> NoOne,
            verdict |-> "uphold", seen |-> "active"]
IdleSweep == [at |-> "idle", remedial |-> "block", todo |-> {}]

-----------------------------------------------------------------------------
(* The ladder *)

Ladder(n) == CASE n >= BanAt -> "ban"
               [] n >= SuspendAt /\ n < BanAt -> "suspend"
               [] n >= WarnAt /\ n < SuspendAt /\ n < BanAt -> "warn"
               [] OTHER -> "none"

ConsequenceToStatus(c, s) ==
  CASE c = "ban" -> "banned"
    [] c = "suspend" -> "suspended"
    [] c = "warn" /\ s = "active" -> "warned"
    [] OTHER -> s

\* The decisions whose strikes count: neither expired nor past their date.
Active == {strikes[k].decision : k \in {k \in DOMAIN strikes : strikes[k].active}}

-----------------------------------------------------------------------------
(* The records of status changes *)

Key(c) == <<c.decision, c.new>>

\* An attempt whose failure was recorded did not change the account.
Effective ==
  LET failed == {Key(log[k]) : k \in {k \in DOMAIN log : log[k].failed}}
  IN {k \in DOMAIN log : ~log[k].failed /\ Key(log[k]) \notin failed}

\* latestStatusChange: the newest effective record, as a set of at most one.
LatestChange == {log[k] : k \in {k \in Effective : \A j \in Effective : j <= k}}

\* What overturning d restores an account of status s to, if anything: the
\* latest change must be d's, still in force, and less severe before.
RestoreTo(d, s) ==
  {c.previous : c \in {c \in LatestChange :
     c.decision = d /\ c.new = s /\ Severity[c.previous] < Severity[s]}}

-----------------------------------------------------------------------------
(* The review queue *)

NewItem(source, d) ==
  [source |-> source, decision |-> d, status |-> "pending", claimedBy |-> NoOne,
   verdict |-> "uphold", resolvedBy |-> NoOne, critical |-> source = "ban_review",
   overdue |-> FALSE]

Submit(source, d) == items' = Append(items, NewItem(source, d))

\* SupabaseReviewQueueStore.update: unconditional, and an undefined field is
\* not sent, so claimed_by outlives an unclaim.
SetStatus(i, status) == [items EXCEPT ![i].status = status]

OpenAppeal(d) ==
  \E i \in DOMAIN items : /\ items[i].source = "appeal"
                          /\ items[i].decision = d
                          /\ items[i].status # "resolved"

-----------------------------------------------------------------------------
(* The Sentinel, one run for each block *)

RunGoes(d, at) == run' = [run EXCEPT ![d].at = at]

\* The Guardian blocks; the answer goes out and processBlock starts.
Block(d) ==
  /\ run[d].at = "idle"
  /\ \/ RunGoes(d, "recording")
     \/ "strikes" \in Faults /\ RunGoes(d, "over")   \* strike history unreadable
  /\ UNCHANGED <<person, strikes, log, items, req, calls, sweep>>

\* Step 2, record-strike.  A failure is reported and the run goes on.
RecordStrike(d) ==
  /\ run[d].at = "recording"
  /\ RunGoes(d, "tallying")
  /\ \/ strikes' = Append(strikes, [decision |-> d, active |-> TRUE])
     \/ "strikes" \in Faults /\ UNCHANGED strikes
  /\ UNCHANGED <<person, log, items, req, calls, sweep>>

\* Mutant: the summary read before the strike was recorded decides.
TallyBefore(d) ==
  /\ run[d].at = "tallying"
  /\ LET others == Active \ {d} IN
       run' = [run EXCEPT ![d] = [@ EXCEPT !.at = "reading", !.counted = others,
                                           !.consequence = Ladder(Cardinality(others))]]
  /\ UNCHANGED <<person, strikes, log, items, req, calls, sweep>>

\* Step 3, evaluate: the strikes are counted after this one is recorded ...
Tally(d) ==
  /\ run[d].at = "tallying"
  /\ run' = [run EXCEPT ![d] = [@ EXCEPT !.at = "reading", !.counted = Active,
                                         !.consequence = Ladder(Cardinality(Active))]]
  /\ UNCHANGED <<person, strikes, log, items, req, calls, sweep>>

\* ... and the status is read; unreadable counts as active.
ReadStatus(d) ==
  /\ run[d].at = "reading"
  /\ \E s \in {account} \cup (IF "users" \in Faults THEN {"active"} ELSE {}) :
       LET new == ConsequenceToStatus(run[d].consequence, s) IN
       run' = [run EXCEPT ![d] = [@ EXCEPT !.at = IF new = s THEN "over" ELSE "recordingChange",
                                           !.current = s, !.new = new]]
  /\ UNCHANGED <<person, strikes, log, items, req, calls, sweep>>

Change(d, failed) ==
  [decision |-> d, previous |-> run[d].current, new |-> run[d].new, failed |-> failed]

\* Mutant: a record that cannot be written does not stop the change.
RecordChangeAnyway(d) ==
  /\ run[d].at = "recordingChange"
  /\ RunGoes(d, "writing")
  /\ \/ log' = Append(log, Change(d, FALSE))
     \/ "audit" \in Faults /\ UNCHANGED log
  /\ UNCHANGED <<person, strikes, items, req, calls, sweep>>

\* Step 4, apply-consequence: recorded first; with no record no change.
RecordChange(d) ==
  /\ run[d].at = "recordingChange"
  /\ \/ RunGoes(d, "writing") /\ log' = Append(log, Change(d, FALSE))
     \/ "audit" \in Faults /\ RunGoes(d, "concluding") /\ UNCHANGED log
  /\ UNCHANGED <<person, strikes, items, req, calls, sweep>>

SetAccount(s, d) == account' = s /\ setBy' = d

\* updateUserStatus; without an answer it may have landed or not.
WriteStatus(d) ==
  /\ run[d].at = "writing"
  /\ \/ RunGoes(d, "concluding") /\ SetAccount(run[d].new, d)
     \/ /\ "users" \in Faults
        /\ RunGoes(d, "reporting")
        /\ SetAccount(run[d].new, d) \/ UNCHANGED person
  /\ UNCHANGED <<strikes, log, items, req, calls, sweep>>

\* audited reports the failure, best effort.
ReportFailure(d) ==
  /\ run[d].at = "reporting"
  /\ RunGoes(d, "concluding")
  /\ \/ log' = Append(log, Change(d, TRUE))
     \/ "audit" \in Faults /\ UNCHANGED log
  /\ UNCHANGED <<person, strikes, items, req, calls, sweep>>

\* Mutant: only a first offence is put to a moderator.
ConcludeFirst(d) ==
  /\ run[d].at = "concluding"
  /\ IF run[d].consequence = "ban" /\ run[d].current = "active"
       THEN Submit("ban_review", d)
       ELSE UNCHANGED items
  /\ RunGoes(d, "over")
  /\ UNCHANGED <<person, strikes, log, req, calls, sweep>>

\* The run is over.  A ban that was to change the status goes to review,
\* whether or not the run got to apply it.
Conclude(d) ==
  LET banned == run[d].consequence = "ban" /\ run[d].new # run[d].current IN
  /\ run[d].at = "concluding"
  /\ \/ ~banned /\ RunGoes(d, "over") /\ UNCHANGED items
     \/ banned /\ RunGoes(d, "over") /\ Submit("ban_review", d)
     \/ banned /\ "queue" \in Faults /\ RunGoes(d, "unsubmitted") /\ UNCHANGED items
  /\ UNCHANGED <<person, strikes, log, req, calls, sweep>>

\* A step throws before it did anything, or the runtime stops between two
\* steps (budget, trajectory store): the run still concludes.
StopRun(d) ==
  /\ "crash" \in Faults
  /\ run[d].at \in {"recording", "tallying", "reading", "recordingChange"}
  /\ RunGoes(d, "concluding")
  /\ UNCHANGED <<person, strikes, log, items, req, calls, sweep>>

\* The process dies with its fire-and-forget runs.
RunDies(d) ==
  /\ "crash" \in Faults
  /\ run[d].at \notin {"idle", "over", "unsubmitted", "died"}
  /\ RunGoes(d, "died")
  /\ UNCHANGED <<person, strikes, log, items, req, calls, sweep>>

\* A strike passes its date.
StrikeLapses(k) ==
  /\ strikes[k].active
  /\ strikes' = [strikes EXCEPT ![k].active = FALSE]
  /\ UNCHANGED <<person, log, items, run, req, calls, sweep>>

Sentinel(d) ==
  \/ Block(d) \/ RecordStrike(d) \/ Tally(d) \/ ReadStatus(d) \/ RecordChange(d)
  \/ WriteStatus(d) \/ ReportFailure(d) \/ Conclude(d) \/ StopRun(d) \/ RunDies(d)

-----------------------------------------------------------------------------
(* The queue's other producers *)

Raised(e) == \E i \in DOMAIN items : items[i].source = "escalation" /\ items[i].decision = e

\* The Guardian holds a message: fireReviewSubmit.
Escalate(e) ==
  /\ ~Raised(e)
  /\ Submit("escalation", e)
  /\ UNCHANGED <<person, strikes, log, run, req, calls, sweep>>

\* A request starts with a read and the checks on it; one that is refused
\* leaves everything as it was.
Start(q, at, r, i, d, v) ==
  /\ req[q].at = "idle"
  /\ calls < MaxCalls
  /\ calls' = calls + 1
  /\ req' = [req EXCEPT ![q] = [at |-> at, by |-> r, item |-> i, decision |-> d,
                                verdict |-> v, seen |-> "active"]]
  /\ UNCHANGED <<person, strikes, log, items, run, sweep>>

ReqGoes(q, at) == req' = [req EXCEPT ![q].at = at]
Done(q) == req' = [req EXCEPT ![q] = IdleReq]

\* The owner appeals a block; an unreadable queue holds no open appeal.
BeginAppeal(q, d) ==
  /\ run[d].at # "idle"
  /\ ~OpenAppeal(d) \/ "queue" \in Faults
  /\ Start(q, "appealing", Owner, 0, d, "uphold")

SubmitAppeal(q) ==
  /\ req[q].at = "appealing"
  /\ Submit("appeal", req[q].decision)
  /\ Done(q)
  /\ UNCHANGED <<person, strikes, log, run, calls, sweep>>

-----------------------------------------------------------------------------
(* Moderators *)

\* claimItem: pending, and not the moderator's own case.
BeginClaim(q, r, i) ==
  /\ items[i].status = "pending"
  /\ r # Owner
  /\ Start(q, "claiming", r, i, items[i].decision, "uphold")

Claim(q) ==
  LET i == req[q].item IN
  /\ req[q].at = "claiming"
  /\ items' = [items EXCEPT ![i] = [@ EXCEPT !.status = "claimed", !.claimedBy = req[q].by]]
  /\ Done(q)
  /\ UNCHANGED <<person, strikes, log, run, calls, sweep>>

Holds(r, i) == items[i].status = "claimed" /\ items[i].claimedBy = r

BeginUnclaim(q, r, i) ==
  /\ Holds(r, i)
  /\ Start(q, "unclaiming", r, i, items[i].decision, "uphold")

Unclaim(q) ==
  /\ req[q].at = "unclaiming"
  /\ items' = SetStatus(req[q].item, "pending")
  /\ Done(q)
  /\ UNCHANGED <<person, strikes, log, run, calls, sweep>>

BeginResolve(q, r, i, v) ==
  /\ Holds(r, i)
  /\ r # Owner
  /\ Start(q, "resolving", r, i, items[i].decision, v)

\* review_resolution is recorded first.  An escalation never changed the
\* account, so its overturn starts at the strike.
RecordResolution(q) ==
  LET r == req[q] IN
  /\ r.at = "resolving"
  /\ \/ r.verdict # "overturn" /\ ReqGoes(q, "marking")
     \/ /\ r.verdict = "overturn"
        /\ ReqGoes(q, IF items[r.item].source = "escalation" THEN "expiring" ELSE "account")
     \/ "audit" \in Faults /\ Done(q)
  /\ UNCHANGED <<person, strikes, log, items, run, calls, sweep>>

\* restoreAccountStatus: the status ...
ReadAccount(q) ==
  /\ req[q].at = "account"
  /\ req' = [req EXCEPT ![q] = [@ EXCEPT !.at = "history", !.seen = account]]
  /\ UNCHANGED <<person, strikes, log, items, run, calls, sweep>>

\* ... the records ...
ReadHistory(q) ==
  LET r == req[q] IN
  LET to == RestoreTo(r.decision, r.seen) IN
  /\ r.at = "history"
  /\ \/ to = {} /\ ReqGoes(q, "expiring")
     \/ \E s \in to : req' = [req EXCEPT ![q] = [@ EXCEPT !.at = "restoring", !.seen = s]]
  /\ UNCHANGED <<person, strikes, log, items, run, calls, sweep>>

\* ... and the write.
Restore(q) ==
  /\ req[q].at = "restoring"
  /\ ReqGoes(q, "expiring")
  /\ SetAccount(req[q].seen, NoOne)
  /\ UNCHANGED <<strikes, log, items, run, calls, sweep>>

\* Mutant: the account is restored, the strike stays.
ExpireStrikeNever(q) ==
  /\ req[q].at = "expiring"
  /\ ReqGoes(q, "marking")
  /\ UNCHANGED <<person, strikes, log, items, run, calls, sweep>>

\* The active strike of the decision is looked up and expired.  One that is
\* found stays until it is expired, so the two accesses are one step.
\* expireStrike answers false when it fails, and the resolution goes on.
ExpireStrike(q) ==
  LET d == req[q].decision IN
  /\ req[q].at = "expiring"
  /\ ReqGoes(q, "marking")
  /\ \/ strikes' = [k \in DOMAIN strikes |->
                      IF strikes[k].decision = d THEN [strikes[k] EXCEPT !.active = FALSE]
                                                 ELSE strikes[k]]
     \/ "expire" \in Faults /\ UNCHANGED strikes
  /\ UNCHANGED <<person, log, items, run, calls, sweep>>

MarkResolved(q) ==
  LET r == req[q] IN
  /\ r.at = "marking"
  /\ items' = [items EXCEPT ![r.item] = [@ EXCEPT !.status = "resolved", !.verdict = r.verdict,
                                                  !.resolvedBy = r.by]]
  /\ Done(q)
  /\ UNCHANGED <<person, strikes, log, run, calls, sweep>>

\* A read or a write of the request fails, or the server dies: the item stays
\* as it is, what was done is done.
RequestFails(q) ==
  /\ "crash" \in Faults
  /\ req[q].at # "idle"
  /\ Done(q)
  /\ UNCHANGED <<person, strikes, log, items, run, calls, sweep>>

\* Claims older than the timeout go back to the queue, in one statement.
ReleaseExpiredClaims(S) ==
  /\ S # {}
  /\ items' = [i \in DOMAIN items |->
                 IF i \in S THEN [items[i] EXCEPT !.status = "pending", !.claimedBy = NoOne]
                            ELSE items[i]]
  /\ UNCHANGED <<person, strikes, log, run, req, calls, sweep>>

Request(q) ==
  \/ SubmitAppeal(q) \/ Claim(q) \/ Unclaim(q) \/ RecordResolution(q) \/ ReadAccount(q)
  \/ ReadHistory(q) \/ Restore(q) \/ ExpireStrike(q) \/ MarkResolved(q) \/ RequestFails(q)

NewRequest(q) ==
  \/ \E d \in Blocks : BeginAppeal(q, d)
  \/ \E r \in Reviewers, i \in DOMAIN items :
       \/ BeginClaim(q, r, i)
       \/ BeginUnclaim(q, r, i)
       \/ \E v \in Verdict : BeginResolve(q, r, i, v)

-----------------------------------------------------------------------------
(* The escalation reaper *)

\* An escalation gets older than the SLA.
SlaPasses(i) ==
  /\ items[i].source = "escalation"
  /\ ~items[i].overdue
  /\ items' = [items EXCEPT ![i].overdue = TRUE]
  /\ UNCHANGED <<person, strikes, log, run, req, calls, sweep>>

\* What a query for overdue escalations of a status leaves to do: those that
\* are already critical are skipped by escalate_higher.
Overdue(status, remedial) ==
  {<<i, status>> : i \in {i \in DOMAIN items : /\ items[i].source = "escalation"
                                               /\ items[i].overdue
                                               /\ items[i].status = status
                                               /\ remedial = "escalate_higher" =>
                                                    ~items[i].critical}}

\* With no escalation to find, a sweep does nothing and is left out.
SweepPending ==
  /\ sweep.at = "idle" /\ Escalations # {}
  /\ \E m \in Remedials :
       sweep' = [at |-> "claimed", remedial |-> m, todo |-> Overdue("pending", m)]
  /\ UNCHANGED <<person, strikes, log, items, run, req, calls>>

\* Mutant: an escalation that somebody has claimed is left to them.
SweepClaimedNot ==
  /\ sweep.at = "claimed"
  /\ sweep' = [sweep EXCEPT !.at = "reaping"]
  /\ UNCHANGED <<person, strikes, log, items, run, req, calls>>

SweepClaimed ==
  /\ sweep.at = "claimed"
  /\ sweep' = [sweep EXCEPT !.at = "reaping",
                            !.todo = @ \cup Overdue("claimed", sweep.remedial)]
  /\ UNCHANGED <<person, strikes, log, items, run, req, calls>>

\* The remedial action, whatever has become of the item since.
Reap(t, remedial) ==
  LET i == t[1] IN
  /\ sweep.at = "reaping" /\ sweep.remedial = remedial
  /\ t \in sweep.todo
  /\ sweep' = [sweep EXCEPT !.todo = @ \ {t}]
  /\ \/ /\ remedial = "block"
        /\ items' = [items EXCEPT ![i] = [@ EXCEPT !.status = "resolved", !.verdict = "modify",
                                                   !.resolvedBy = "reaper"]]
     \/ /\ remedial = "escalate_higher"
        /\ items' = [items EXCEPT ![i] = [@ EXCEPT !.status = "pending", !.critical = TRUE]]
  /\ UNCHANGED <<person, strikes, log, run, req, calls>>

\* An item whose record cannot be written is left for the next sweep.
SkipItem(t) ==
  /\ "audit" \in Faults
  /\ sweep.at = "reaping"
  /\ sweep' = [sweep EXCEPT !.todo = @ \ {t}]
  /\ UNCHANGED <<person, strikes, log, items, run, req, calls>>

EndSweep ==
  /\ sweep.at = "reaping" /\ sweep.todo = {}
  /\ sweep' = IdleSweep
  /\ UNCHANGED <<person, strikes, log, items, run, req, calls>>

SweepDies ==
  /\ "crash" \in Faults
  /\ sweep.at # "idle"
  /\ sweep' = IdleSweep
  /\ UNCHANGED <<person, strikes, log, items, run, req, calls>>

Sweep ==
  \/ SweepPending \/ SweepClaimed \/ EndSweep \/ SweepDies
  \/ \E t \in sweep.todo : SkipItem(t) \/ \E m \in Remedials : Reap(t, m)

-----------------------------------------------------------------------------
Init ==
  /\ account = "active" /\ setBy = NoOne
  /\ strikes = <<>> /\ log = <<>> /\ items = <<>>
  /\ run = [d \in Blocks |-> IdleRun]
  /\ req = [q \in Requests |-> IdleReq]
  /\ calls = 0
  /\ sweep = IdleSweep

Next ==
  \/ \E d \in Blocks : Sentinel(d)
  \/ \E k \in DOMAIN strikes : StrikeLapses(k)
  \/ \E e \in Escalations : Escalate(e)
  \/ \E q \in Requests : NewRequest(q) \/ Request(q)
  \/ \E S \in SUBSET {i \in DOMAIN items : items[i].status = "claimed"} :
       ReleaseExpiredClaims(S)
  \/ \E i \in DOMAIN items : SlaPasses(i)
  \/ Sweep

Spec == Init /\ [][Next]_vars

\* Time passes, and the reaper's route is called again and again, as its
\* external schedule has it.  A sweep may die, and the audit log may be out,
\* but not every time.  Nothing is assumed of moderators and Sentinel runs.
FairSpec ==
  /\ Spec
  /\ WF_vars(SweepPending) /\ SF_vars(SweepClaimed) /\ WF_vars(EndSweep)
  /\ \A e \in Escalations :
       /\ WF_vars(\E i \in DOMAIN items : items[i].decision = e /\ SlaPasses(i))
       /\ \A m \in Remedials :
            SF_vars(\E t \in sweep.todo : items[t[1]].decision = e /\ Reap(t, m))

-----------------------------------------------------------------------------
(* Properties *)

Strikes == [decision : Blocks, active : BOOLEAN]
Changes == [decision : Blocks, previous : Status, new : Status, failed : BOOLEAN]
Items == [source : Source, decision : Blocks \cup Escalations, status : ItemStatus,
          claimedBy : Reviewers \cup {NoOne}, verdict : Verdict,
          resolvedBy : Reviewers \cup {NoOne, "reaper"}, critical : BOOLEAN,
          overdue : BOOLEAN]
Runs == [at : RunPC, counted : SUBSET Blocks, consequence : Consequence,
         current : Status, new : Status]
Reqs == [at : ReqPC, by : Reviewers \cup {Owner, NoOne}, item : Nat,
         decision : Blocks \cup Escalations \cup {NoOne}, verdict : Verdict, seen : Status]
Sweeps == [at : {"idle", "claimed", "reaping"}, remedial : {"block", "escalate_higher"},
           todo : SUBSET (Nat \X {"pending", "claimed"})]

TypeOK ==
  /\ account \in Status
  /\ setBy \in Blocks \cup {NoOne}
  /\ strikes \in Seq(Strikes)
  /\ log \in Seq(Changes)
  /\ items \in Seq(Items)
  /\ run \in [Blocks -> Runs]
  /\ req \in [Requests -> Reqs]
  /\ calls \in 0 .. MaxCalls
  /\ sweep \in Sweeps

\* A run's strike, its count, its change, the record of it and its item are
\* there only once it got that far.
RunInOrder(d) ==
  LET r == run[d] IN
  /\ r.at \in {"idle", "recording"} => \A k \in DOMAIN strikes : strikes[k].decision # d
  /\ r.at \in {"idle", "recording", "tallying"} => r.counted = {}
  /\ r.at \in {"idle", "recording", "tallying", "reading"} => r.new = r.current
  /\ r.at \in {"recordingChange", "writing", "reporting"} => r.new # r.current
  /\ r.new # r.current => r.new = ConsequenceToStatus(r.consequence, r.current)
  /\ r.at = "writing" => \E k \in DOMAIN log : log[k] = Change(d, FALSE)
  /\ (\E i \in DOMAIN items : items[i].source = "ban_review" /\ items[i].decision = d)
       => r.at = "over"
RunsInOrder == \A d \in Blocks : RunInOrder(d)

\* A run that has counted has counted its own strike and all before it.
CountedInOrder ==
  \A k \in DOMAIN strikes : LET d == strikes[k].decision IN
    run[d].counted # {} =>
      \A j \in 1 .. k : strikes[j].active => strikes[j].decision \in run[d].counted

\* The status that a decision set is the one its run was to set.
StatusHasItsRun ==
  setBy \in Blocks =>
    LET r == run[setBy] IN
    /\ account = r.new /\ r.new # r.current
    /\ r.at \in {"reporting", "concluding", "over", "unsubmitted", "died"}

\* Only a block has its ban reviewed.
ReviewsOfBlocks ==
  \A i \in DOMAIN items : items[i].source = "ban_review" => items[i].decision \in Blocks

\* The owner of the account holds and resolves no item about it.
NotOwnCase ==
  /\ \A i \in DOMAIN items : Owner \notin {items[i].claimedBy, items[i].resolvedBy}
  /\ \A q \in Requests : req[q].by = Owner => req[q].at = "appealing"

\* A request is about a decision and the item of it; what it is about to restore
\* is on record, and what it overturned no longer counts.
RequestInOrder(q) ==
  LET r == req[q] IN
  /\ r.at # "idle" => r.decision # NoOne
  /\ r.at \notin {"idle", "appealing"} =>
       r.item \in DOMAIN items /\ items[r.item].decision = r.decision
  /\ r.at = "restoring" =>
       r.seen # "banned" /\ \E k \in DOMAIN log : log[k].previous = r.seen
  /\ ("expire" \notin Faults /\ r.at = "marking" /\ r.verdict = "overturn"
       /\ items[r.item].source = "ban_review") => r.decision \notin Active
RequestsInOrder == \A q \in Requests : RequestInOrder(q)

\* Blocks handled at the same time do not escape the ladder together: when
\* each run whose strike still stands has counted it, one of them counted all
\* the strikes that stand (the strike is recorded before the count is read).
EveryStrikeIsWeighed ==
  (Active # {} /\ \A d \in Active : run[d].counted # {})
    => \E d \in Active : Active \subseteq run[d].counted

\* The account never has a status that the records do not explain: as what
\* the decision that set it changed it to or, after an overturn, as what it
\* was before the one overturned; "with no record it does not change".
StatusIsOnRecord ==
  \/ setBy = NoOne /\ account = "active"
  \/ \E k \in DOMAIN log :
       \/ setBy = log[k].decision /\ account = log[k].new
       \/ setBy = NoOne /\ account = log[k].previous

\* A banned account is in front of a moderator, or was: the run that banned
\* it is about to submit a ban review, has submitted it, or could not.
BannedIsReviewed ==
  account = "banned" =>
    /\ setBy \in Blocks
    /\ \/ run[setBy].at \in {"reporting", "concluding", "unsubmitted", "died"}
       \/ \E i \in DOMAIN items :
            items[i].source = "ban_review" /\ items[i].decision = setBy

\* An overturned ban review leaves nothing of its decision behind: its strike
\* no longer counts and its run has no write left to make.
OverturnIsFinal ==
  \A i \in DOMAIN items : LET d == items[i].decision IN
    items[i].source = "ban_review" /\ items[i].status = "resolved"
      /\ items[i].verdict = "overturn"
        => d \notin Active /\ run[d].at = "over"

\* The inductive invariant: type correctness, what a run, a request and the
\* account have left behind at each point, and the properties that need nothing else.
IInv ==
  /\ TypeOK
  /\ RunsInOrder
  /\ CountedInOrder
  /\ StatusHasItsRun
  /\ ReviewsOfBlocks
  /\ NotOwnCase
  /\ RequestsInOrder
  /\ StatusIsOnRecord
  /\ BannedIsReviewed
  /\ "expire" \notin Faults => OverturnIsFinal

Ends(e, P(_)) ==
  <>[](\A i \in DOMAIN items :
         items[i].source = "escalation" /\ items[i].decision = e => P(items[i]))
Resolved(x) == x.status = "resolved"
ResolvedOrCritical(x) == x.status = "resolved" \/ x.critical

\* No escalation is left lying for ever, whatever moderators claim, put back or
\* forget: past the SLA it ends resolved or at critical priority, and
\* resolved if the configuration keeps saying block.
EscalationEnds ==
  \A e \in Escalations :
    /\ Ends(e, ResolvedOrCritical)
    /\ ([]<>(sweep.at = "reaping" /\ sweep.remedial = "block")) => Ends(e, Resolved)

\* "consequenceToStatus only upgrades severity ... Only human review can
\* downgrade status" (sentinel.ts:588): no run lowers the status.
OnlyReviewLowers ==
  [][setBy' \in Blocks => Severity[account'] >= Severity[account]]_person
=============================================================================
