---------------------- MODULE AccountConsequencesProofs ----------------------
(***************************************************************************)
(* Proofs about AccountConsequences, for every set of blocks, escalations, *)
(* moderators and requests, every ladder and every set of faults.          *)
(***************************************************************************)
EXTENDS AccountConsequences, WellFoundedInduction, TLAPS

-----------------------------------------------------------------------------
(* Sequences and the values of records *)

\* A function on 1 .. n with values in S is a sequence over S.
LEMMA SeqOf ==
  ASSUME NEW S, NEW n \in Nat, NEW f, f = [k \in 1 .. n |-> f[k]], \A k \in 1 .. n : f[k] \in S
  PROVE  f \in Seq(S) /\ DOMAIN f = 1 .. n /\ Len(f) = n
OBVIOUS

\* A sequence with one element replaced by another of the same set.
LEMMA SeqExcept ==
  ASSUME NEW S, NEW s \in Seq(S), NEW i, NEW x, i \in DOMAIN s => x \in S
  PROVE  /\ [s EXCEPT ![i] = x] \in Seq(S)
         /\ DOMAIN [s EXCEPT ![i] = x] = DOMAIN s
<1> DEFINE t == [s EXCEPT ![i] = x]
           u == [k \in 1 .. Len(s) |-> IF k = i THEN x ELSE s[k]]
<1>1. DOMAIN s = 1 .. Len(s) /\ Len(s) \in Nat /\ s = [k \in 1 .. Len(s) |-> s[k]]
  OBVIOUS
<1>2. t = u
  BY <1>1
<1>3. \A k \in 1 .. Len(s) : u[k] \in S
  BY <1>1
<1>4. u = [k \in 1 .. Len(s) |-> u[k]]
  OBVIOUS
<1> HIDE DEF u
<1>5. u \in Seq(S) /\ DOMAIN u = 1 .. Len(s)
  BY <1>1, <1>3, <1>4, SeqOf
<1> QED BY <1>1, <1>2, <1>5

\* A sequence with one element more.
LEMMA SeqAppend ==
  ASSUME NEW S, NEW s \in Seq(S), NEW x \in S
  PROVE  /\ Append(s, x) \in Seq(S)
         /\ Len(s) \in Nat /\ DOMAIN s = 1 .. Len(s)
         /\ DOMAIN Append(s, x) = 1 .. Len(s) + 1
         /\ \A k \in 1 .. Len(s) : Append(s, x)[k] = s[k]
         /\ Append(s, x)[Len(s) + 1] = x
OBVIOUS

\* The severities are numbers, banned the highest of them.
LEMMA Severities ==
  /\ Status = {"active", "warned", "restricted", "suspended", "banned"}
  /\ Severity["banned"] = 4
  /\ \A s \in Status : Severity[s] \in 0 .. 4
BY DEF Status, Severity

\* A status is lowered only to one that is not banned.
LEMMA LowerIsNotBanned ==
  ASSUME NEW s \in Status, NEW t \in Status, Severity[s] < Severity[t]
  PROVE  s # "banned"
BY Severities

LEMMA LadderTyped == \A n : Ladder(n) \in Consequence
BY DEF Ladder, Consequence

LEMMA ConsequenceTyped ==
  ASSUME NEW c, NEW s \in Status
  PROVE  ConsequenceToStatus(c, s) \in Status
BY Severities DEF ConsequenceToStatus

\* Only the ban consequence makes an account banned that was not.
LEMMA OnlyBanBans ==
  ASSUME NEW c, NEW s \in Status, ConsequenceToStatus(c, s) = "banned", s # "banned"
  PROVE  c = "ban"
BY Severities DEF ConsequenceToStatus

-----------------------------------------------------------------------------
(* What a step does to a run, a request, the strikes, the log and the items *)

\* A run's record is replaced.
LEMMA RunBecomes ==
  ASSUME TypeOK, NEW d \in Blocks, NEW r \in Runs, run' = [run EXCEPT ![d] = r]
  PROVE  /\ run' \in [Blocks -> Runs]
         /\ run'[d] = r
         /\ \A e \in Blocks \ {d} : run'[e] = run[e]
BY DEF TypeOK

\* A run moves on and keeps what it has read.
LEMMA RunMoves ==
  ASSUME TypeOK, NEW d \in Blocks, NEW at \in RunPC, RunGoes(d, at)
  PROVE  /\ run' \in [Blocks -> Runs]
         /\ run'[d].at = at
         /\ run'[d].counted = run[d].counted /\ run'[d].consequence = run[d].consequence
         /\ run'[d].current = run[d].current /\ run'[d].new = run[d].new
         /\ \A e \in Blocks \ {d} : run'[e] = run[e]
<1> DEFINE r == [run[d] EXCEPT !.at = at]
<1>1. run[d] \in Runs /\ run \in [Blocks -> Runs]
  BY DEF TypeOK
<1>2. /\ r \in Runs /\ r.at = at
      /\ r.counted = run[d].counted /\ r.consequence = run[d].consequence
      /\ r.current = run[d].current /\ r.new = run[d].new
  BY <1>1 DEF Runs
<1>3. run' = [run EXCEPT ![d] = r]
  BY <1>1 DEF RunGoes
<1> HIDE DEF r
<1> QED BY <1>2, <1>3, RunBecomes

\* A request's record is replaced.
LEMMA ReqBecomes ==
  ASSUME TypeOK, NEW q \in Requests, NEW r \in Reqs, req' = [req EXCEPT ![q] = r]
  PROVE  /\ req' \in [Requests -> Reqs]
         /\ req'[q] = r
         /\ \A p \in Requests \ {q} : req'[p] = req[p]
BY DEF TypeOK

\* A request moves on and keeps what it has read.
LEMMA ReqMoves ==
  ASSUME TypeOK, NEW q \in Requests, NEW at \in ReqPC, ReqGoes(q, at)
  PROVE  /\ req' \in [Requests -> Reqs]
         /\ req'[q].at = at
         /\ req'[q].by = req[q].by /\ req'[q].item = req[q].item
         /\ req'[q].decision = req[q].decision /\ req'[q].verdict = req[q].verdict
         /\ req'[q].seen = req[q].seen
         /\ \A p \in Requests \ {q} : req'[p] = req[p]
<1> DEFINE r == [req[q] EXCEPT !.at = at]
<1>1. req[q] \in Reqs /\ req \in [Requests -> Reqs]
  BY DEF TypeOK
<1>2. /\ r \in Reqs /\ r.at = at
      /\ r.by = req[q].by /\ r.item = req[q].item /\ r.decision = req[q].decision
      /\ r.verdict = req[q].verdict /\ r.seen = req[q].seen
  BY <1>1 DEF Reqs
<1>3. req' = [req EXCEPT ![q] = r]
  BY <1>1 DEF ReqGoes
<1> HIDE DEF r
<1> QED BY <1>2, <1>3, ReqBecomes

\* A request reads a status and moves on.
LEMMA ReqSees ==
  ASSUME TypeOK, NEW q \in Requests, NEW at \in ReqPC, NEW s \in Status,
         req' = [req EXCEPT ![q] = [@ EXCEPT !.at = at, !.seen = s]]
  PROVE  /\ req' \in [Requests -> Reqs]
         /\ req'[q].at = at /\ req'[q].seen = s
         /\ req'[q].by = req[q].by /\ req'[q].item = req[q].item
         /\ req'[q].decision = req[q].decision /\ req'[q].verdict = req[q].verdict
         /\ \A p \in Requests \ {q} : req'[p] = req[p]
<1> DEFINE r == [req[q] EXCEPT !.at = at, !.seen = s]
<1>1. req[q] \in Reqs /\ req \in [Requests -> Reqs]
  BY DEF TypeOK
<1>2. /\ r \in Reqs /\ r.at = at /\ r.seen = s
      /\ r.by = req[q].by /\ r.item = req[q].item /\ r.decision = req[q].decision
      /\ r.verdict = req[q].verdict
  BY <1>1 DEF Reqs
<1>3. req' = [req EXCEPT ![q] = r]
  BY <1>1
<1> HIDE DEF r
<1> QED BY <1>2, <1>3, ReqBecomes

\* A request ends.
LEMMA ReqEnds ==
  ASSUME TypeOK, NEW q \in Requests, Done(q)
  PROVE  /\ req' \in [Requests -> Reqs]
         /\ req'[q] = IdleReq
         /\ \A p \in Requests \ {q} : req'[p] = req[p]
<1>1. IdleReq \in Reqs
  BY Severities DEF IdleReq, Reqs, ReqPC, Verdict
<1> QED BY <1>1, ReqBecomes DEF Done

\* An item is replaced.
LEMMA ItemBecomes ==
  ASSUME TypeOK, NEW i, NEW r, i \in DOMAIN items => r \in Items,
         items' = [items EXCEPT ![i] = r]
  PROVE  /\ items' \in Seq(Items)
         /\ DOMAIN items' = DOMAIN items
         /\ \A j \in DOMAIN items : items'[j] = IF j = i THEN r ELSE items[j]
<1>1. items \in Seq(Items)
  BY DEF TypeOK
<1>2. items' \in Seq(Items) /\ DOMAIN items' = DOMAIN items
  BY <1>1, SeqExcept
<1> QED BY <1>1, <1>2

-----------------------------------------------------------------------------
(* The review queue *)

Overturned(i) ==
  items[i].source = "ban_review" /\ items[i].status = "resolved"
    /\ items[i].verdict = "overturn"

\* Items keep their source and decision, are never the owner's, and a ban review
\* becomes overturned only by a request that has got to marking it.
Amended(i) ==
  /\ items'[i].source = items[i].source /\ items'[i].decision = items[i].decision
  /\ Owner \notin {items'[i].claimedBy, items'[i].resolvedBy}
  /\ Overturned(i)' => \/ Overturned(i)
                       \/ \E q \in Requests : /\ req[q].at = "marking" /\ req[q].item = i
                                              /\ req[q].verdict = "overturn"

\* A ban review is new only when its run concludes.
Filed(i) ==
  /\ items'[i].status = "pending"
  /\ Owner \notin {items'[i].claimedBy, items'[i].resolvedBy}
  /\ items'[i].source = "ban_review" =>
       \E d \in Blocks : Conclude(d) /\ RunGoes(d, "over") /\ items'[i].decision = d

QueueKept ==
  /\ items' \in Seq(Items)
  /\ DOMAIN items \subseteq DOMAIN items'
  /\ \A i \in DOMAIN items : Amended(i)
  /\ \A i \in DOMAIN items' \ DOMAIN items : Filed(i)

\* Nothing happens to the queue.
LEMMA QueueUnchanged ==
  ASSUME TypeOK, NotOwnCase, UNCHANGED items
  PROVE  QueueKept
BY DEF TypeOK, NotOwnCase, QueueKept, Amended, Overturned

\* An item is submitted.
LEMMA SubmitKeeps ==
  ASSUME TypeOK, NotOwnCase, NEW source \in Source, NEW d \in Blocks \cup Escalations,
         Submit(source, d),
         source = "ban_review" => d \in Blocks /\ Conclude(d) /\ RunGoes(d, "over")
  PROVE  QueueKept
<1>1. items \in Seq(Items)
  BY DEF TypeOK
<1> DEFINE x == NewItem(source, d)
<1>2. /\ x \in Items /\ x.source = source /\ x.decision = d /\ x.status = "pending"
      /\ x.claimedBy = NoOne /\ x.resolvedBy = NoOne
  BY DEF NewItem, Items, ItemStatus, Verdict
<1>3. items' = Append(items, x)
  BY DEF Submit
<1> HIDE DEF x
<1>4. /\ items' \in Seq(Items) /\ DOMAIN items \subseteq DOMAIN items'
      /\ \A i \in DOMAIN items : items'[i] = items[i]
      /\ \A i \in DOMAIN items' \ DOMAIN items : items'[i] = x
  BY <1>1, <1>2, <1>3, SeqAppend
<1>5. \A i \in DOMAIN items : Amended(i)
  BY <1>4 DEF Amended, NotOwnCase, Overturned
<1>6. Owner # NoOne
  BY AccountAssumption
<1>7. \A i \in DOMAIN items' \ DOMAIN items : Filed(i)
  BY <1>2, <1>4, <1>6 DEF Filed
<1> QED BY <1>4, <1>5, <1>7 DEF QueueKept

\* One item is replaced by another of the same source and decision.
LEMMA ReplaceKeeps ==
  ASSUME TypeOK, NotOwnCase, NEW i, NEW x, items' = [items EXCEPT ![i] = x],
         i \in DOMAIN items =>
           /\ x \in Items /\ x.source = items[i].source /\ x.decision = items[i].decision
           /\ Owner \notin {x.claimedBy, x.resolvedBy}
           /\ \/ x.status # "resolved"
              \/ x.verdict # "overturn"
              \/ x.status = items[i].status /\ x.verdict = items[i].verdict
              \/ \E q \in Requests : /\ req[q].at = "marking" /\ req[q].item = i
                                     /\ req[q].verdict = "overturn"
  PROVE  QueueKept
<1>1. /\ items' \in Seq(Items) /\ DOMAIN items' = DOMAIN items
      /\ \A j \in DOMAIN items : items'[j] = IF j = i THEN x ELSE items[j]
  BY ItemBecomes
<1>2. \A j \in DOMAIN items : Amended(j)
  <2> SUFFICES ASSUME NEW j \in DOMAIN items PROVE Amended(j)
    OBVIOUS
  <2>1. CASE j # i
    BY <1>1, <2>1 DEF Amended, NotOwnCase, Overturned
  <2>2. CASE j = i
    BY <1>1, <2>2 DEF Amended, Overturned
  <2> QED BY <2>1, <2>2
<1> QED BY <1>1, <1>2 DEF QueueKept

\* A moderator's request claims, puts back or resolves its item.
LEMMA ModerationKeeps ==
  ASSUME TypeOK, NotOwnCase, NEW q \in Requests, Claim(q) \/ Unclaim(q) \/ MarkResolved(q)
  PROVE  QueueKept
<1> DEFINE i == req[q].item
<1>1. items \in Seq(Items) /\ req[q] \in Reqs
  BY DEF TypeOK
<1>2. \A j \in DOMAIN items : items[j] \in Items
  BY <1>1
<1>3. req[q].by # Owner
  BY DEF NotOwnCase, Claim, Unclaim, MarkResolved
<1>4. req[q].by \in Reviewers \cup {NoOne}
  BY <1>1, <1>3 DEF Reqs
<1>5. CASE Claim(q)
  <2> DEFINE x == [items[i] EXCEPT !.status = "claimed", !.claimedBy = req[q].by]
  <2>1. items' = [items EXCEPT ![i] = x]
    BY <1>5 DEF Claim
  <2>2. i \in DOMAIN items =>
          /\ x \in Items /\ x.source = items[i].source /\ x.decision = items[i].decision
          /\ x.claimedBy = req[q].by /\ x.resolvedBy = items[i].resolvedBy
          /\ x.status = "claimed"
    <3> SUFFICES ASSUME i \in DOMAIN items
                 PROVE  /\ x \in Items /\ x.source = items[i].source
                        /\ x.decision = items[i].decision /\ x.claimedBy = req[q].by
                        /\ x.resolvedBy = items[i].resolvedBy /\ x.status = "claimed"
      OBVIOUS
    <3>1. items[i] \in Items
      BY <1>2
    <3> QED BY <1>4, <3>1 DEF Items, ItemStatus
  <2> HIDE DEF x
  <2> QED BY <1>3, <2>1, <2>2, ReplaceKeeps DEF NotOwnCase
<1>6. CASE Unclaim(q)
  <2> DEFINE x == [items[i] EXCEPT !.status = "pending"]
  <2>1. items' = [items EXCEPT ![i] = x]
    BY <1>1, <1>6 DEF Unclaim, SetStatus
  <2>2. i \in DOMAIN items =>
          /\ x \in Items /\ x.source = items[i].source /\ x.decision = items[i].decision
          /\ x.claimedBy = items[i].claimedBy /\ x.resolvedBy = items[i].resolvedBy
          /\ x.status = "pending"
    BY <1>2 DEF Items, ItemStatus
  <2> HIDE DEF x
  <2> QED BY <2>1, <2>2, ReplaceKeeps DEF NotOwnCase
<1>7. CASE MarkResolved(q)
  <2> DEFINE x == [items[i] EXCEPT !.status = "resolved", !.verdict = req[q].verdict,
                                   !.resolvedBy = req[q].by]
  <2>1. items' = [items EXCEPT ![i] = x] /\ req[q].at = "marking"
    BY <1>7 DEF MarkResolved
  <2>2. i \in DOMAIN items =>
          /\ x \in Items /\ x.source = items[i].source /\ x.decision = items[i].decision
          /\ x.claimedBy = items[i].claimedBy /\ x.resolvedBy = req[q].by
          /\ x.verdict = req[q].verdict
    <3> SUFFICES ASSUME i \in DOMAIN items
                 PROVE  /\ x \in Items /\ x.source = items[i].source
                        /\ x.decision = items[i].decision /\ x.claimedBy = items[i].claimedBy
                        /\ x.resolvedBy = req[q].by /\ x.verdict = req[q].verdict
      OBVIOUS
    <3>1. items[i] \in Items /\ req[q].verdict \in Verdict
      BY <1>1, <1>2 DEF Reqs
    <3> QED BY <1>4, <3>1 DEF Items, ItemStatus
  <2> HIDE DEF x
  <2> QED BY <1>3, <2>1, <2>2, ReplaceKeeps DEF NotOwnCase
<1> QED BY <1>5, <1>6, <1>7

\* Claims that are too old go back.
LEMMA ReleaseKeeps ==
  ASSUME TypeOK, NotOwnCase, NEW S, ReleaseExpiredClaims(S)
  PROVE  QueueKept
<1> DEFINE x(i) == IF i \in S THEN [items[i] EXCEPT !.status = "pending", !.claimedBy = NoOne]
                              ELSE items[i]
<1>1. items \in Seq(Items) /\ Len(items) \in Nat /\ DOMAIN items = 1 .. Len(items)
  BY DEF TypeOK
<1>2. \A i \in DOMAIN items : items[i] \in Items
  BY <1>1
<1>3. items' = [i \in 1 .. Len(items) |-> x(i)]
  BY <1>1 DEF ReleaseExpiredClaims
<1>4. \A i \in DOMAIN items :
        /\ x(i) \in Items /\ x(i).source = items[i].source /\ x(i).decision = items[i].decision
        /\ x(i).claimedBy \in {NoOne, items[i].claimedBy} /\ x(i).resolvedBy = items[i].resolvedBy
        /\ x(i) = items[i] \/ x(i).status = "pending"
  BY <1>2 DEF Items, ItemStatus
<1> HIDE DEF x
<1>5. \A i \in DOMAIN items : items'[i] = x(i)
  BY <1>1, <1>3
<1>6. items' = [i \in 1 .. Len(items) |-> items'[i]] /\ \A i \in 1 .. Len(items) : items'[i] \in Items
  BY <1>1, <1>3, <1>4
<1>7. items' \in Seq(Items) /\ DOMAIN items' = DOMAIN items
  BY <1>1, <1>6, SeqOf
<1>8. Owner # NoOne
  BY AccountAssumption
<1>9. \A i \in DOMAIN items : Amended(i)
  BY <1>4, <1>5, <1>8 DEF Amended, NotOwnCase, Overturned
<1> QED BY <1>7, <1>9 DEF QueueKept

\* The reaper resolves an item as a block or raises it.
LEMMA ReapKeeps ==
  ASSUME TypeOK, NotOwnCase, NEW t \in sweep.todo, NEW m, Reap(t, m)
  PROVE  QueueKept
<1> DEFINE i == t[1]
<1>1. items \in Seq(Items)
  BY DEF TypeOK
<1>2. \A j \in DOMAIN items : items[j] \in Items
  BY <1>1
<1>3. Owner # "reaper"
  BY AccountAssumption
<1>4. CASE items' = [items EXCEPT ![i] = [@ EXCEPT !.status = "resolved", !.verdict = "modify",
                                                  !.resolvedBy = "reaper"]]
  <2> DEFINE x == [items[i] EXCEPT !.status = "resolved", !.verdict = "modify",
                                   !.resolvedBy = "reaper"]
  <2>1. items' = [items EXCEPT ![i] = x]
    BY <1>4
  <2>2. ASSUME i \in DOMAIN items
        PROVE  /\ x \in Items /\ x.source = items[i].source /\ x.decision = items[i].decision
               /\ x.claimedBy = items[i].claimedBy /\ x.resolvedBy = "reaper"
               /\ x.verdict = "modify"
    <3>1. items[i] \in Items
      BY <1>2, <2>2
    <3> QED BY <3>1 DEF Items, ItemStatus, Verdict
  <2> HIDE DEF x
  <2> QED BY <1>3, <2>1, <2>2, ReplaceKeeps DEF NotOwnCase
<1>5. CASE items' = [items EXCEPT ![i] = [@ EXCEPT !.status = "pending", !.critical = TRUE]]
  <2> DEFINE x == [items[i] EXCEPT !.status = "pending", !.critical = TRUE]
  <2>1. items' = [items EXCEPT ![i] = x]
    BY <1>5
  <2>2. ASSUME i \in DOMAIN items
        PROVE  /\ x \in Items /\ x.source = items[i].source /\ x.decision = items[i].decision
               /\ x.claimedBy = items[i].claimedBy /\ x.resolvedBy = items[i].resolvedBy
               /\ x.status = "pending"
    <3>1. items[i] \in Items
      BY <1>2, <2>2
    <3> QED BY <3>1 DEF Items, ItemStatus
  <2> HIDE DEF x
  <2> QED BY <2>1, <2>2, ReplaceKeeps DEF NotOwnCase
<1> QED BY <1>4, <1>5 DEF Reap

\* An escalation gets old.
LEMMA SlaKeeps ==
  ASSUME TypeOK, NotOwnCase, NEW i \in DOMAIN items, SlaPasses(i)
  PROVE  QueueKept
<1> DEFINE x == [items[i] EXCEPT !.overdue = TRUE]
<1>1. items \in Seq(Items)
  BY DEF TypeOK
<1>2. items[i] \in Items
  BY <1>1
<1>3. /\ x \in Items /\ x.source = items[i].source /\ x.decision = items[i].decision
      /\ x.claimedBy = items[i].claimedBy /\ x.resolvedBy = items[i].resolvedBy
      /\ x.status = items[i].status /\ x.verdict = items[i].verdict
  BY <1>2 DEF Items
<1>4. items' = [items EXCEPT ![i] = x]
  BY DEF SlaPasses
<1> HIDE DEF x
<1> QED BY <1>3, <1>4, ReplaceKeeps DEF NotOwnCase

\* Every step keeps the queue in order.
LEMMA QueueStep ==
  ASSUME TypeOK, NotOwnCase, RequestsInOrder, Next
  PROVE  QueueKept
<1>1. ASSUME NEW d \in Blocks, Sentinel(d) PROVE QueueKept
  <2>1. CASE Conclude(d)
    <3>1. CASE Submit("ban_review", d) /\ RunGoes(d, "over")
      BY <2>1, <3>1, SubmitKeeps DEF Source
    <3>2. CASE UNCHANGED items
      BY <3>2, QueueUnchanged
    <3> QED BY <2>1, <3>1, <3>2 DEF Conclude
  <2>2. CASE Block(d) \/ RecordStrike(d) \/ Tally(d) \/ ReadStatus(d) \/ RecordChange(d)
    BY <2>2, QueueUnchanged DEF Block, RecordStrike, Tally, ReadStatus, RecordChange
  <2>3. CASE WriteStatus(d) \/ ReportFailure(d) \/ StopRun(d) \/ RunDies(d)
    BY <2>3, QueueUnchanged DEF WriteStatus, ReportFailure, StopRun, RunDies
  <2> QED BY <1>1, <2>1, <2>2, <2>3 DEF Sentinel
<1>2. ASSUME NEW q \in Requests, Request(q) PROVE QueueKept
  <2>1. CASE SubmitAppeal(q)
    <3>1. req[q].decision \in Blocks \cup Escalations
      <4>1. req[q] \in Reqs
        BY DEF TypeOK
      <4>2. req[q].decision # NoOne
        BY <2>1 DEF RequestsInOrder, RequestInOrder, SubmitAppeal
      <4> QED BY <4>1, <4>2 DEF Reqs
    <3> QED BY <2>1, <3>1, SubmitKeeps DEF SubmitAppeal, Source
  <2>2. CASE Claim(q) \/ Unclaim(q) \/ MarkResolved(q)
    BY <2>2, ModerationKeeps
  <2>3. CASE RecordResolution(q) \/ ReadAccount(q) \/ ReadHistory(q) \/ Restore(q)
             \/ ExpireStrike(q) \/ RequestFails(q)
    BY <2>3, QueueUnchanged DEF RecordResolution, ReadAccount, ReadHistory, Restore,
       ExpireStrike, RequestFails
  <2> QED BY <1>2, <2>1, <2>2, <2>3 DEF Request
<1>3. ASSUME NEW q \in Requests, NewRequest(q) PROVE QueueKept
  BY <1>3, QueueUnchanged DEF NewRequest, BeginAppeal, BeginClaim, BeginUnclaim, BeginResolve, Start
<1>4. ASSUME Sweep PROVE QueueKept
  <2>1. CASE \E t \in sweep.todo, m \in Remedials : Reap(t, m)
    BY <2>1, ReapKeeps
  <2>2. CASE SweepPending \/ SweepClaimed \/ EndSweep \/ SweepDies \/ \E t \in sweep.todo : SkipItem(t)
    BY <2>2, QueueUnchanged DEF SweepPending, SweepClaimed, EndSweep, SweepDies, SkipItem
  <2> QED BY <1>4, <2>1, <2>2 DEF Sweep
<1>5. ASSUME NEW k \in DOMAIN strikes, StrikeLapses(k) PROVE QueueKept
  BY <1>5, QueueUnchanged DEF StrikeLapses
<1>6. ASSUME NEW e \in Escalations, Escalate(e) PROVE QueueKept
  BY <1>6, SubmitKeeps DEF Escalate, Source
<1> QED BY <1>1, <1>2, <1>3, <1>4, <1>5, <1>6, ReleaseKeeps, SlaKeeps DEF Next

-----------------------------------------------------------------------------
(* The records and the strikes *)

LogKept ==
  /\ log' \in Seq(Changes)
  /\ \A k \in DOMAIN log : k \in DOMAIN log' /\ log'[k] = log[k]

\* Records are only added.
LEMMA LogStep ==
  ASSUME TypeOK, Next
  PROVE  LogKept
<1>1. log \in Seq(Changes)
  BY DEF TypeOK
<1>2. ASSUME UNCHANGED log PROVE LogKept
  BY <1>1, <1>2 DEF LogKept
<1>3. ASSUME NEW d \in Blocks, NEW failed \in BOOLEAN, log' = Append(log, Change(d, failed))
      PROVE  LogKept
  <2>1. Change(d, failed) \in Changes
    <3>1. run[d] \in Runs
      BY DEF TypeOK
    <3> QED BY <3>1 DEF Change, Changes, Runs
  <2> QED BY <1>1, <1>3, <2>1, SeqAppend DEF LogKept
<1>4. ASSUME NEW d \in Blocks, Sentinel(d) PROVE LogKept
  <2>1. CASE RecordChange(d) \/ ReportFailure(d)
    BY <2>1, <1>2, <1>3 DEF RecordChange, ReportFailure
  <2>2. CASE Block(d) \/ RecordStrike(d) \/ Tally(d) \/ ReadStatus(d) \/ WriteStatus(d)
             \/ Conclude(d) \/ StopRun(d) \/ RunDies(d)
    BY <2>2, <1>2 DEF Block, RecordStrike, Tally, ReadStatus, WriteStatus, Conclude, StopRun,
       RunDies
  <2> QED BY <1>4, <2>1, <2>2 DEF Sentinel
<1>5. ASSUME NEW q \in Requests, Request(q) \/ NewRequest(q) PROVE LogKept
  BY <1>2, <1>5 DEF Request, SubmitAppeal, Claim, Unclaim, MarkResolved, RecordResolution,
     ReadAccount, ReadHistory, Restore, ExpireStrike, RequestFails,
     NewRequest, BeginAppeal, BeginClaim, BeginUnclaim, BeginResolve, Start
<1>6. ASSUME Sweep PROVE LogKept
  BY <1>2, <1>6 DEF Sweep, SweepPending, SweepClaimed, EndSweep, SweepDies, SkipItem, Reap
<1> QED BY <1>2, <1>4, <1>5, <1>6 DEF Next, StrikeLapses, Escalate, ReleaseExpiredClaims, SlaPasses

StrikesKept ==
  /\ strikes' \in Seq(Strikes)
  /\ DOMAIN strikes \subseteq DOMAIN strikes'
  /\ \A k \in DOMAIN strikes :
       /\ strikes'[k].decision = strikes[k].decision
       /\ strikes'[k].active => strikes[k].active
  /\ \A k \in DOMAIN strikes' \ DOMAIN strikes :
       \E d \in Blocks : /\ run[d].at = "recording" /\ RunGoes(d, "tallying")
                         /\ strikes'[k].decision = d

\* Strikes are added by the run that records them, and otherwise only end.
LEMMA StrikesStep ==
  ASSUME TypeOK, Next
  PROVE  StrikesKept
<1>1. strikes \in Seq(Strikes) /\ Len(strikes) \in Nat /\ DOMAIN strikes = 1 .. Len(strikes)
  BY DEF TypeOK
<1>2. \A k \in DOMAIN strikes : strikes[k] \in Strikes
  BY <1>1
<1>3. ASSUME UNCHANGED strikes PROVE StrikesKept
  BY <1>1, <1>3 DEF StrikesKept
<1>4. ASSUME NEW d \in Blocks, Sentinel(d) PROVE StrikesKept
  <2>1. ASSUME RecordStrike(d), strikes' = Append(strikes, [decision |-> d, active |-> TRUE])
        PROVE  StrikesKept
    <3> DEFINE x == [decision |-> d, active |-> TRUE]
    <3>1. x \in Strikes /\ x.decision = d
      BY DEF Strikes
    <3>2. strikes' = Append(strikes, x)
      BY <2>1
    <3> HIDE DEF x
    <3>3. /\ strikes' \in Seq(Strikes) /\ DOMAIN strikes \subseteq DOMAIN strikes'
          /\ \A k \in DOMAIN strikes : strikes'[k] = strikes[k]
          /\ \A k \in DOMAIN strikes' \ DOMAIN strikes : strikes'[k] = x
      BY <1>1, <3>1, <3>2, SeqAppend
    <3> QED BY <2>1, <3>1, <3>3 DEF StrikesKept, RecordStrike
  <2>2. CASE RecordStrike(d) /\ UNCHANGED strikes
    BY <2>2, <1>3
  <2>3. CASE Block(d) \/ Tally(d) \/ ReadStatus(d) \/ RecordChange(d) \/ ReportFailure(d)
             \/ WriteStatus(d) \/ Conclude(d) \/ StopRun(d) \/ RunDies(d)
    BY <2>3, <1>3 DEF Block, Tally, ReadStatus, RecordChange, ReportFailure, WriteStatus,
       Conclude, StopRun, RunDies
  <2> QED BY <1>4, <2>1, <2>2, <2>3 DEF Sentinel, RecordStrike
<1>5. ASSUME NEW k \in DOMAIN strikes, StrikeLapses(k) PROVE StrikesKept
  <2> DEFINE x == [strikes[k] EXCEPT !.active = FALSE]
  <2>1. x \in Strikes /\ x.decision = strikes[k].decision /\ x.active = FALSE
    BY <1>2 DEF Strikes
  <2>2. strikes' = [strikes EXCEPT ![k] = x]
    BY <1>1, <1>5 DEF StrikeLapses
  <2> HIDE DEF x
  <2>3. strikes' \in Seq(Strikes) /\ DOMAIN strikes' = DOMAIN strikes
    BY <1>1, <2>1, <2>2, SeqExcept
  <2>4. \A j \in DOMAIN strikes : strikes'[j] = IF j = k THEN x ELSE strikes[j]
    BY <1>1, <2>2
  <2> QED BY <2>1, <2>3, <2>4 DEF StrikesKept
<1>6. ASSUME NEW q \in Requests, Request(q) PROVE StrikesKept
  <2> DEFINE d == req[q].decision
             x(k) == IF strikes[k].decision = d THEN [strikes[k] EXCEPT !.active = FALSE]
                                                ELSE strikes[k]
  <2>1. ASSUME strikes' = [k \in DOMAIN strikes |-> x(k)] PROVE StrikesKept
    <3>1. \A k \in DOMAIN strikes :
            /\ x(k) \in Strikes /\ x(k).decision = strikes[k].decision
            /\ x(k).active => strikes[k].active
      BY <1>2 DEF Strikes
    <3> HIDE DEF x
    <3>2. \A k \in DOMAIN strikes : strikes'[k] = x(k)
      BY <2>1
    <3>3. /\ strikes' = [k \in 1 .. Len(strikes) |-> strikes'[k]]
          /\ \A k \in 1 .. Len(strikes) : strikes'[k] \in Strikes
      BY <1>1, <2>1, <3>1
    <3>4. strikes' \in Seq(Strikes) /\ DOMAIN strikes' = DOMAIN strikes
      BY <1>1, <3>3, SeqOf
    <3> QED BY <3>1, <3>2, <3>4 DEF StrikesKept
  <2>2. CASE ExpireStrike(q)
    BY <2>1, <2>2, <1>3 DEF ExpireStrike
  <2>3. CASE SubmitAppeal(q) \/ Claim(q) \/ Unclaim(q) \/ MarkResolved(q) \/ RecordResolution(q)
             \/ ReadAccount(q) \/ ReadHistory(q) \/ Restore(q) \/ RequestFails(q)
    BY <2>3, <1>3 DEF SubmitAppeal, Claim, Unclaim, MarkResolved, RecordResolution,
       ReadAccount, ReadHistory, Restore, RequestFails
  <2> QED BY <1>6, <2>2, <2>3 DEF Request
<1>7. ASSUME NEW q \in Requests, NewRequest(q) PROVE StrikesKept
  BY <1>3, <1>7 DEF NewRequest, BeginAppeal, BeginClaim, BeginUnclaim, BeginResolve, Start
<1>8. ASSUME Sweep PROVE StrikesKept
  BY <1>3, <1>8 DEF Sweep, SweepPending, SweepClaimed, EndSweep, SweepDies, SkipItem, Reap
<1> QED BY <1>3, <1>4, <1>5, <1>6, <1>7, <1>8 DEF Next, Escalate, ReleaseExpiredClaims, SlaPasses

\* What counts after a step counted before it, or is the strike of a run that
\* has just recorded it.
LEMMA ActiveFades ==
  ASSUME StrikesKept, NEW d \in Active'
  PROVE  d \in Active \/ (d \in Blocks /\ run[d].at = "recording" /\ RunGoes(d, "tallying"))
BY DEF StrikesKept, Active

-----------------------------------------------------------------------------
(* The runs *)

\* A ban review is there before a step, or its run has just concluded.
LEMMA ReviewedRunIsOver ==
  ASSUME TypeOK, RunsInOrder, QueueKept, NEW d \in Blocks, NEW i \in DOMAIN items',
         items'[i].source = "ban_review", items'[i].decision = d
  PROVE  run[d].at = "over" \/ (Conclude(d) /\ run'[d].at = "over")
<1>1. CASE i \in DOMAIN items
  <2>1. items[i].source = "ban_review" /\ items[i].decision = d
    BY <1>1 DEF QueueKept, Amended
  <2> QED BY <1>1, <2>1 DEF RunsInOrder, RunInOrder
<1>2. CASE i \notin DOMAIN items
  <2>1. Conclude(d) /\ RunGoes(d, "over")
    BY <1>2 DEF QueueKept, Filed
  <2> QED BY <2>1, RunMoves DEF RunPC
<1> QED BY <1>1, <1>2

\* What a step does with the data of a run that does not move leaves the run in
\* order.
LEMMA OtherRunInOrder ==
  ASSUME TypeOK, RunsInOrder, LogKept, StrikesKept, QueueKept,
         NEW d \in Blocks, run'[d] = run[d]
  PROVE  RunInOrder(d)'
<1> DEFINE r == run[d]
<1>1. RunInOrder(d)
  BY DEF RunsInOrder
<1>2. r.at \in {"idle", "recording"} => \A k \in DOMAIN strikes' : strikes'[k].decision # d
  <2> SUFFICES ASSUME r.at \in {"idle", "recording"}, NEW k \in DOMAIN strikes'
               PROVE  strikes'[k].decision # d
    OBVIOUS
  <2>1. CASE k \in DOMAIN strikes
    BY <1>1, <2>1 DEF StrikesKept, RunInOrder
  <2>2. CASE k \notin DOMAIN strikes
    <3>1. PICK e \in Blocks : RunGoes(e, "tallying") /\ strikes'[k].decision = e
      BY <2>2 DEF StrikesKept
    <3>2. run'[e].at = "tallying"
      BY <3>1, RunMoves DEF RunPC
    <3> QED BY <3>1, <3>2
  <2> QED BY <2>1, <2>2
<1>3. r.at = "writing" => \E k \in DOMAIN log' : log'[k] = Change(d, FALSE)'
  BY <1>1 DEF RunInOrder, LogKept, Change
<1>4. (\E i \in DOMAIN items' : items'[i].source = "ban_review" /\ items'[i].decision = d)
        => r.at = "over"
  BY ReviewedRunIsOver
<1> QED BY <1>1, <1>2, <1>3, <1>4 DEF RunInOrder

\* What is left to show of a run that has moved.
LEMMA MovedRunInOrder ==
  ASSUME TypeOK, RunsInOrder, QueueKept, NEW d \in Blocks, run[d].at # "over",
         run'[d].at \notin {"idle", "recording"},
         run'[d].at = "tallying" => run'[d].counted = {},
         run'[d].at \in {"tallying", "reading"} => run'[d].new = run'[d].current,
         run'[d].at \in {"recordingChange", "writing", "reporting"} =>
           run'[d].new # run'[d].current,
         run'[d].new # run'[d].current =>
           run'[d].new = ConsequenceToStatus(run'[d].consequence, run'[d].current),
         run'[d].at = "writing" => \E k \in DOMAIN log' : log'[k] = Change(d, FALSE)'
  PROVE  RunInOrder(d)'
<1>1. (\E i \in DOMAIN items' : items'[i].source = "ban_review" /\ items'[i].decision = d)
        => run'[d].at = "over"
  BY ReviewedRunIsOver
<1> QED BY <1>1 DEF RunInOrder

\* A step of the Sentinel keeps its run, and all others, in order.
LEMMA SentinelStep ==
  ASSUME TypeOK, RunsInOrder, LogKept, StrikesKept, QueueKept, NEW d \in Blocks, Sentinel(d)
  PROVE  /\ run' \in [Blocks -> Runs]
         /\ \A e \in Blocks \ {d} : run'[e] = run[e]
         /\ RunInOrder(d)'
<1> DEFINE Kept == /\ run' \in [Blocks -> Runs]
                   /\ \A e \in Blocks \ {d} : run'[e] = run[e]
                   /\ RunInOrder(d)'
<1>0. RunInOrder(d) /\ run[d] \in Runs
  BY DEF RunsInOrder, TypeOK
<1>1. CASE Block(d)
  <2>1. CASE RunGoes(d, "recording")
    <3>1. /\ run' \in [Blocks -> Runs] /\ run'[d].at = "recording"
          /\ run'[d].counted = run[d].counted /\ run'[d].new = run[d].new
          /\ run'[d].current = run[d].current
          /\ \A e \in Blocks \ {d} : run'[e] = run[e]
      BY <2>1, RunMoves DEF RunPC
    <3>2. ~(\E i \in DOMAIN items' : items'[i].source = "ban_review" /\ items'[i].decision = d)
      BY <1>1, <3>1, ReviewedRunIsOver DEF Block
    <3> QED BY <1>0, <1>1, <3>1, <3>2 DEF Block, RunInOrder
  <2>2. CASE RunGoes(d, "over")
    <3>1. /\ run' \in [Blocks -> Runs] /\ run'[d].at = "over"
          /\ run'[d].new = run[d].new /\ run'[d].current = run[d].current
          /\ \A e \in Blocks \ {d} : run'[e] = run[e]
      BY <2>2, RunMoves DEF RunPC
    <3> QED BY <1>0, <1>1, <3>1, MovedRunInOrder DEF Block, RunInOrder
  <2> QED BY <1>1, <2>1, <2>2 DEF Block
<1>2. CASE RecordStrike(d)
  <2>1. /\ run' \in [Blocks -> Runs] /\ run'[d].at = "tallying"
        /\ run'[d].counted = run[d].counted /\ run'[d].new = run[d].new
        /\ run'[d].current = run[d].current
        /\ \A e \in Blocks \ {d} : run'[e] = run[e]
    BY <1>2, RunMoves DEF RecordStrike, RunPC
  <2> QED BY <1>0, <1>2, <2>1, MovedRunInOrder DEF RecordStrike, RunInOrder
<1>3. CASE Tally(d)
  <2> DEFINE r == [run[d] EXCEPT !.at = "reading", !.counted = Active,
                                 !.consequence = Ladder(Cardinality(Active))]
  <2>1. Active \subseteq Blocks
    <3>1. \A k \in DOMAIN strikes : strikes[k] \in Strikes
      BY DEF TypeOK
    <3> QED BY <3>1 DEF Active, Strikes
  <2>2. Ladder(Cardinality(Active)) \in Consequence
    BY LadderTyped
  <2>3. /\ r \in Runs /\ r.at = "reading" /\ r.new = run[d].new /\ r.current = run[d].current
    BY <1>0, <2>1, <2>2 DEF Runs, RunPC
  <2>4. run' = [run EXCEPT ![d] = r]
    BY <1>3 DEF Tally, TypeOK
  <2> HIDE DEF r
  <2>5. run' \in [Blocks -> Runs] /\ run'[d] = r /\ \A e \in Blocks \ {d} : run'[e] = run[e]
    BY <2>3, <2>4, RunBecomes
  <2> QED BY <1>0, <1>3, <2>3, <2>5, MovedRunInOrder DEF Tally, RunInOrder
<1>4. CASE ReadStatus(d)
  <2>1. PICK s \in Status : LET new == ConsequenceToStatus(run[d].consequence, s) IN
          run' = [run EXCEPT ![d] = [@ EXCEPT !.at = IF new = s THEN "over" ELSE "recordingChange",
                                              !.current = s, !.new = new]]
    BY <1>4, Severities DEF ReadStatus, TypeOK
  <2> DEFINE new == ConsequenceToStatus(run[d].consequence, s)
             r == [run[d] EXCEPT !.at = IF new = s THEN "over" ELSE "recordingChange",
                                 !.current = s, !.new = new]
  <2>2. new \in Status
    BY ConsequenceTyped
  <2>3. /\ r \in Runs /\ r.at = IF new = s THEN "over" ELSE "recordingChange"
        /\ r.current = s /\ r.new = new /\ r.consequence = run[d].consequence
    BY <1>0, <2>2 DEF Runs, RunPC
  <2>4. run' = [run EXCEPT ![d] = r]
    BY <2>1
  <2> HIDE DEF r
  <2>5. run' \in [Blocks -> Runs] /\ run'[d] = r /\ \A e \in Blocks \ {d} : run'[e] = run[e]
    BY <2>3, <2>4, RunBecomes
  <2> QED BY <1>4, <2>3, <2>5, MovedRunInOrder DEF ReadStatus
<1>5. CASE RecordChange(d)
  <2>1. CASE RunGoes(d, "writing") /\ log' = Append(log, Change(d, FALSE))
    <3>1. /\ run' \in [Blocks -> Runs] /\ run'[d].at = "writing"
          /\ run'[d].consequence = run[d].consequence
          /\ run'[d].new = run[d].new /\ run'[d].current = run[d].current
          /\ \A e \in Blocks \ {d} : run'[e] = run[e]
      BY <2>1, RunMoves DEF RunPC
    <3>2. Change(d, FALSE)' = Change(d, FALSE)
      BY <3>1 DEF Change
    <3>3. Change(d, FALSE) \in Changes /\ log \in Seq(Changes)
      BY <1>0 DEF Change, Changes, Runs, TypeOK
    <3>4. \E k \in DOMAIN log' : log'[k] = Change(d, FALSE)
      <4> DEFINE x == Change(d, FALSE)
      <4> HIDE DEF x
      <4>1. /\ Len(log) \in Nat /\ DOMAIN Append(log, x) = 1 .. Len(log) + 1
            /\ Append(log, x)[Len(log) + 1] = x
        BY <3>3, SeqAppend DEF x
      <4>2. log' = Append(log, x)
        BY <2>1 DEF x
      <4>3. Len(log) + 1 \in DOMAIN log' /\ log'[Len(log) + 1] = x
        BY <4>1, <4>2
      <4> USE DEF x
      <4> QED BY <4>3
    <3> QED BY <1>0, <1>5, <3>1, <3>2, <3>4, MovedRunInOrder DEF RecordChange, RunInOrder
  <2>2. CASE RunGoes(d, "concluding")
    <3>1. /\ run' \in [Blocks -> Runs] /\ run'[d].at = "concluding"
          /\ run'[d].consequence = run[d].consequence
          /\ run'[d].new = run[d].new /\ run'[d].current = run[d].current
          /\ \A e \in Blocks \ {d} : run'[e] = run[e]
      BY <2>2, RunMoves DEF RunPC
    <3> QED BY <1>0, <1>5, <3>1, MovedRunInOrder DEF RecordChange, RunInOrder
  <2> QED BY <1>5, <2>1, <2>2 DEF RecordChange
<1>6. ASSUME NEW at \in {"concluding", "over", "unsubmitted", "died"}, RunGoes(d, at),
             run[d].at # "over"
      PROVE  Kept
  <2>1. /\ run' \in [Blocks -> Runs] /\ run'[d].at = at
        /\ run'[d].consequence = run[d].consequence
        /\ run'[d].new = run[d].new /\ run'[d].current = run[d].current
        /\ \A e \in Blocks \ {d} : run'[e] = run[e]
    BY <1>6, RunMoves DEF RunPC
  <2> QED BY <1>0, <1>6, <2>1, MovedRunInOrder DEF RunInOrder
<1>7. CASE WriteStatus(d)
  <2>1. CASE RunGoes(d, "reporting")
    <3>1. /\ run' \in [Blocks -> Runs] /\ run'[d].at = "reporting"
          /\ run'[d].consequence = run[d].consequence
          /\ run'[d].new = run[d].new /\ run'[d].current = run[d].current
          /\ \A e \in Blocks \ {d} : run'[e] = run[e]
      BY <2>1, RunMoves DEF RunPC
    <3> QED BY <1>0, <1>7, <3>1, MovedRunInOrder DEF WriteStatus, RunInOrder
  <2> QED BY <1>6, <1>7, <2>1 DEF WriteStatus
<1>8. CASE ReportFailure(d) \/ Conclude(d) \/ StopRun(d) \/ RunDies(d)
  BY <1>6, <1>8 DEF ReportFailure, Conclude, StopRun, RunDies
<1> QED BY <1>1, <1>2, <1>3, <1>4, <1>5, <1>7, <1>8 DEF Sentinel

\* Whatever moves, the runs stay typed and in order.
LEMMA RunsStep ==
  ASSUME TypeOK, RunsInOrder, LogKept, StrikesKept, QueueKept, Next
  PROVE  run' \in [Blocks -> Runs] /\ RunsInOrder'
<1>1. ASSUME NEW d \in Blocks, Sentinel(d) PROVE run' \in [Blocks -> Runs] /\ RunsInOrder'
  BY <1>1, SentinelStep, OtherRunInOrder DEF RunsInOrder
<1>2. ASSUME UNCHANGED run PROVE run' \in [Blocks -> Runs] /\ RunsInOrder'
  BY <1>2, OtherRunInOrder DEF RunsInOrder, TypeOK
<1>3. ASSUME NEW q \in Requests, Request(q) \/ NewRequest(q) PROVE UNCHANGED run
  BY <1>3 DEF Request, SubmitAppeal, Claim, Unclaim, MarkResolved, RecordResolution,
     ReadAccount, ReadHistory, Restore, ExpireStrike, RequestFails,
     NewRequest, BeginAppeal, BeginClaim, BeginUnclaim, BeginResolve, Start
<1>4. ASSUME Sweep PROVE UNCHANGED run
  BY <1>4 DEF Sweep, SweepPending, SweepClaimed, EndSweep, SweepDies, SkipItem, Reap
<1> QED BY <1>1, <1>2, <1>3, <1>4 DEF Next, Escalate, StrikeLapses, ReleaseExpiredClaims, SlaPasses

\* A run's count is kept, or is of what counts now.
LEMMA CountsStep ==
  ASSUME TypeOK, Next, NEW d \in Blocks
  PROVE  run'[d].counted = run[d].counted \/ run'[d].counted = Active'
<1>1. CASE UNCHANGED run
  BY <1>1
<1>2. ASSUME NEW e \in Blocks, Sentinel(e)
      PROVE  run'[d].counted = run[d].counted \/ run'[d].counted = Active'
  <2>1. run[e] \in Runs /\ run \in [Blocks -> Runs]
    BY DEF TypeOK
  <2>2. CASE Tally(e)
    <3> DEFINE r == [run[e] EXCEPT !.at = "reading", !.counted = Active,
                                   !.consequence = Ladder(Cardinality(Active))]
    <3>1. r.counted = Active /\ run' = [run EXCEPT ![e] = r] /\ UNCHANGED strikes
      BY <2>1, <2>2 DEF Tally, Runs
    <3> HIDE DEF r
    <3>2. Active' = Active
      BY <3>1 DEF Active
    <3> QED BY <2>1, <3>1, <3>2
  <2>3. CASE ReadStatus(e)
    <3>1. PICK s, new, at : run' = [run EXCEPT ![e] = [@ EXCEPT !.at = at, !.current = s, !.new = new]]
      BY <2>3 DEF ReadStatus
    <3> DEFINE r == [run[e] EXCEPT !.at = at, !.current = s, !.new = new]
    <3>2. r.counted = run[e].counted /\ run' = [run EXCEPT ![e] = r]
      BY <2>1, <3>1 DEF Runs
    <3> HIDE DEF r
    <3> QED BY <2>1, <3>2
  <2>4. ASSUME NEW at \in RunPC, RunGoes(e, at) PROVE run'[d].counted = run[d].counted
    BY <2>4, RunMoves
  <2>5. CASE Block(e) \/ RecordStrike(e) \/ RecordChange(e)
    BY <2>4, <2>5 DEF Block, RecordStrike, RecordChange, RunPC
  <2>6. CASE WriteStatus(e) \/ ReportFailure(e) \/ Conclude(e) \/ StopRun(e) \/ RunDies(e)
    BY <2>4, <2>6 DEF WriteStatus, ReportFailure, Conclude, StopRun, RunDies, RunPC
  <2> QED BY <1>2, <2>2, <2>3, <2>5, <2>6 DEF Sentinel
<1>3. ASSUME NEW q \in Requests, Request(q) \/ NewRequest(q) PROVE UNCHANGED run
  BY <1>3 DEF Request, SubmitAppeal, Claim, Unclaim, MarkResolved, RecordResolution,
     ReadAccount, ReadHistory, Restore, ExpireStrike, RequestFails,
     NewRequest, BeginAppeal, BeginClaim, BeginUnclaim, BeginResolve, Start
<1>4. ASSUME Sweep PROVE UNCHANGED run
  BY <1>4 DEF Sweep, SweepPending, SweepClaimed, EndSweep, SweepDies, SkipItem, Reap
<1> QED BY <1>1, <1>2, <1>3, <1>4 DEF Next, Escalate, StrikeLapses, ReleaseExpiredClaims, SlaPasses

\* Strikes are counted in the order they are recorded.
LEMMA CountedStep ==
  ASSUME TypeOK, RunsInOrder, CountedInOrder, StrikesKept, Next
  PROVE  CountedInOrder'
<1> SUFFICES ASSUME NEW k \in DOMAIN strikes', run'[strikes'[k].decision].counted # {},
                    NEW j \in 1 .. k, strikes'[j].active
             PROVE  strikes'[j].decision \in run'[strikes'[k].decision].counted
  BY DEF CountedInOrder
<1> DEFINE d == strikes'[k].decision
<1>1. /\ strikes \in Seq(Strikes) /\ DOMAIN strikes = 1 .. Len(strikes) /\ Len(strikes) \in Nat
      /\ strikes' \in Seq(Strikes) /\ DOMAIN strikes' = 1 .. Len(strikes') /\ Len(strikes') \in Nat
  BY DEF TypeOK, StrikesKept
<1>2. d \in Blocks /\ j \in DOMAIN strikes'
  <2>1. \A i \in DOMAIN strikes' : strikes'[i] \in Strikes
    BY <1>1
  <2>2. d \in Blocks
    BY <2>1 DEF Strikes
  <2>3. k \in 1 .. Len(strikes') /\ j \in 1 .. Len(strikes')
    BY <1>1
  <2> QED BY <1>1, <2>2, <2>3
<1>3. CASE run'[d].counted = Active'
  BY <1>2, <1>3 DEF Active
<1>4. CASE run'[d].counted = run[d].counted
  <2>1. CASE k \in DOMAIN strikes
    <3>1. j \in DOMAIN strikes /\ d = strikes[k].decision
      BY <1>1, <2>1 DEF StrikesKept
    <3>2. strikes[j].active /\ strikes'[j].decision = strikes[j].decision
      BY <3>1 DEF StrikesKept
    <3>3. strikes[j].decision \in run[d].counted
      BY <1>4, <2>1, <3>1, <3>2 DEF CountedInOrder
    <3> QED BY <1>4, <3>2, <3>3
  <2>2. CASE k \notin DOMAIN strikes
    BY <1>2, <1>4, <2>2 DEF StrikesKept, RunsInOrder, RunInOrder
  <2> QED BY <2>1, <2>2
<1> QED BY <1>2, <1>3, <1>4, CountsStep

-----------------------------------------------------------------------------
(* The account *)

\* A step of a run whose consequence stands only moves it towards its end, past
\* the submission of the ban review if it is one.
LEMMA ConsequenceStands ==
  ASSUME TypeOK, RunsInOrder, NEW d \in Blocks, Sentinel(d),
         run[d].at \in {"reporting", "concluding", "over", "unsubmitted", "died"}
  PROVE  /\ run'[d].new = run[d].new /\ run'[d].current = run[d].current
         /\ run'[d].at \in {"concluding", "over", "unsubmitted", "died"}
         /\ (run[d].new = "banned" /\ run[d].current # "banned" /\ run'[d].at = "over") =>
              Submit("ban_review", d)
<1>1. ASSUME NEW at \in RunPC, RunGoes(d, at)
      PROVE  run'[d].new = run[d].new /\ run'[d].current = run[d].current /\ run'[d].at = at
  BY <1>1, RunMoves
<1>2. CASE ReportFailure(d)
  BY <1>1, <1>2 DEF ReportFailure, RunPC
<1>3. CASE Conclude(d)
  <2>1. run[d] \in Runs /\ RunInOrder(d)
    BY DEF TypeOK, RunsInOrder
  <2>2. run[d].new = "banned" /\ run[d].current # "banned" => run[d].consequence = "ban"
    BY <2>1, OnlyBanBans DEF Runs, RunInOrder
  <2> QED BY <1>1, <1>3, <2>2 DEF Conclude, RunPC
<1>4. CASE RunDies(d)
  BY <1>1, <1>4 DEF RunDies, RunPC
<1> QED BY <1>2, <1>3, <1>4 DEF Sentinel, Block, RecordStrike, Tally, ReadStatus, RecordChange,
     WriteStatus, StopRun

\* The ban review of a decision, once submitted, is in the queue.
InReview(d) == \E i \in DOMAIN items : items[i].source = "ban_review" /\ items[i].decision = d

LEMMA SubmitFiles ==
  ASSUME TypeOK, NEW d \in Blocks, Submit("ban_review", d)
  PROVE  InReview(d)'
<1> DEFINE x == NewItem("ban_review", d)
<1>1. x \in Items /\ x.source = "ban_review" /\ x.decision = d
  BY DEF NewItem, Items, Source, ItemStatus, Verdict
<1>2. items' = Append(items, x) /\ items \in Seq(Items)
  BY DEF Submit, TypeOK
<1> HIDE DEF x
<1>3. Len(items) + 1 \in DOMAIN items' /\ items'[Len(items) + 1] = x
  <2>1. /\ Len(items) \in Nat /\ DOMAIN Append(items, x) = 1 .. Len(items) + 1
        /\ Append(items, x)[Len(items) + 1] = x
    BY <1>1, <1>2, SeqAppend
  <2> QED BY <1>2, <2>1
<1> QED BY <1>1, <1>3 DEF InReview

LEMMA FiledStays ==
  ASSUME QueueKept, NEW d, InReview(d)
  PROVE  InReview(d)'
BY DEF InReview, QueueKept, Amended

\* The parts of the invariant that are about the account.
AccountInOrder == StatusHasItsRun /\ StatusIsOnRecord /\ BannedIsReviewed

\* The account keeps its status.
LEMMA AccountUntouched ==
  ASSUME TypeOK, RunsInOrder, AccountInOrder, LogKept, QueueKept, UNCHANGED person,
         \/ UNCHANGED run
         \/ \E d \in Blocks : Sentinel(d) /\ \A e \in Blocks \ {d} : run'[e] = run[e]
  PROVE  AccountInOrder'
<1>1. StatusIsOnRecord'
  BY DEF AccountInOrder, StatusIsOnRecord, LogKept, person
<1>2. CASE setBy \notin Blocks
  BY <1>1, <1>2 DEF AccountInOrder, StatusHasItsRun, BannedIsReviewed, person
<1>3. CASE setBy \in Blocks
  <2>1. /\ account = run[setBy].new /\ run[setBy].new # run[setBy].current
        /\ run[setBy].at \in {"reporting", "concluding", "over", "unsubmitted", "died"}
        /\ account = "banned" =>
             \/ run[setBy].at \in {"reporting", "concluding", "unsubmitted", "died"}
             \/ InReview(setBy)
    BY <1>3 DEF AccountInOrder, StatusHasItsRun, BannedIsReviewed, InReview
  <2>2. InReview(setBy) => InReview(setBy)'
    BY FiledStays DEF person
  <2>3. CASE run'[setBy] = run[setBy]
    BY <1>1, <1>3, <2>1, <2>2, <2>3
       DEF AccountInOrder, StatusHasItsRun, BannedIsReviewed, InReview, person
  <2>4. CASE Sentinel(setBy)
    <3>1. /\ run'[setBy].new = run[setBy].new /\ run'[setBy].current = run[setBy].current
          /\ run'[setBy].at \in {"concluding", "over", "unsubmitted", "died"}
          /\ account = "banned" /\ run'[setBy].at = "over" => Submit("ban_review", setBy)
      BY <1>3, <2>1, <2>4, ConsequenceStands
    <3>2. account = "banned" /\ run'[setBy].at = "over" => InReview(setBy)'
      BY <1>3, <3>1, SubmitFiles DEF person
    <3> QED BY <1>1, <1>3, <2>1, <3>1, <3>2
         DEF AccountInOrder, StatusHasItsRun, BannedIsReviewed, InReview, person
  <2> QED BY <1>3, <2>3, <2>4
<1> QED BY <1>2, <1>3

\* A run sets the status.
LEMMA AccountSet ==
  ASSUME TypeOK, RunsInOrder, AccountInOrder, LogKept, NEW d \in Blocks, WriteStatus(d)
  PROVE  AccountInOrder'
<1>1. CASE UNCHANGED person
  <2>1. CASE setBy = d
    BY <2>1 DEF AccountInOrder, StatusHasItsRun, WriteStatus
  <2>2. CASE setBy # d
    <3>1. run'[setBy] = run[setBy] \/ setBy \notin Blocks
      BY <2>2, RunMoves DEF WriteStatus, RunPC
    <3> QED BY <1>1, <3>1 DEF AccountInOrder, StatusHasItsRun, StatusIsOnRecord,
         BannedIsReviewed, LogKept, person, WriteStatus
  <2> QED BY <2>1, <2>2
<1>2. CASE SetAccount(run[d].new, d)
  <2>1. /\ run'[d].new = run[d].new /\ run'[d].current = run[d].current
        /\ run'[d].at \in {"reporting", "concluding"}
    BY RunMoves DEF WriteStatus, RunPC
  <2>2. run[d].new # run[d].current /\ \E k \in DOMAIN log : log[k] = Change(d, FALSE)
    BY DEF RunsInOrder, RunInOrder, WriteStatus
  <2>3. account' = run[d].new /\ setBy' = d
    BY <1>2 DEF SetAccount
  <2>4. StatusIsOnRecord'
    <3>1. PICK k \in DOMAIN log : log[k] = Change(d, FALSE)
      BY <2>2
    <3>2. k \in DOMAIN log' /\ log'[k].decision = d /\ log'[k].new = run[d].new
      BY <3>1 DEF LogKept, Change
    <3> QED BY <2>3, <3>2 DEF StatusIsOnRecord
  <2> QED BY <2>1, <2>2, <2>3, <2>4 DEF AccountInOrder, StatusHasItsRun, BannedIsReviewed
<1> QED BY <1>1, <1>2 DEF WriteStatus

\* A request restores the status.
LEMMA AccountRestored ==
  ASSUME TypeOK, RequestsInOrder, LogKept, NEW q \in Requests, Restore(q)
  PROVE  AccountInOrder'
<1>1. account' = req[q].seen /\ setBy' = NoOne /\ req[q].at = "restoring"
  BY DEF Restore, SetAccount
<1>2. req[q].seen # "banned" /\ \E k \in DOMAIN log : log[k].previous = req[q].seen
  BY <1>1 DEF RequestsInOrder, RequestInOrder
<1>3. NoOne \notin Blocks
  BY AccountAssumption
<1> QED BY <1>1, <1>2, <1>3 DEF AccountInOrder, StatusHasItsRun, StatusIsOnRecord,
     BannedIsReviewed, LogKept

LEMMA AccountStep ==
  ASSUME TypeOK, RunsInOrder, RequestsInOrder, AccountInOrder, LogKept, StrikesKept, QueueKept, Next
  PROVE  AccountInOrder'
<1>1. ASSUME NEW d \in Blocks, Sentinel(d) PROVE AccountInOrder'
  <2>1. CASE WriteStatus(d)
    BY <2>1, AccountSet
  <2>2. CASE ~WriteStatus(d)
    <3>1. UNCHANGED person
      BY <1>1, <2>2 DEF Sentinel, Block, RecordStrike, Tally, ReadStatus, RecordChange,
         ReportFailure, Conclude, StopRun, RunDies
    <3> QED BY <1>1, <3>1, SentinelStep, AccountUntouched
  <2> QED BY <2>1, <2>2
<1>2. ASSUME NEW q \in Requests, Request(q) PROVE AccountInOrder'
  <2>1. CASE Restore(q)
    BY <2>1, AccountRestored
  <2>2. CASE ~Restore(q)
    <3>1. UNCHANGED person /\ UNCHANGED run
      BY <1>2, <2>2 DEF Request, SubmitAppeal, Claim, Unclaim, MarkResolved, RecordResolution,
         ReadAccount, ReadHistory, ExpireStrike, RequestFails
    <3> QED BY <3>1, AccountUntouched
  <2> QED BY <2>1, <2>2
<1>3. ASSUME NEW q \in Requests, NewRequest(q) PROVE AccountInOrder'
  <2>1. UNCHANGED person /\ UNCHANGED run
    BY <1>3 DEF NewRequest, BeginAppeal, BeginClaim, BeginUnclaim, BeginResolve, Start
  <2> QED BY <2>1, AccountUntouched
<1>4. ASSUME Sweep PROVE AccountInOrder'
  <2>1. UNCHANGED person /\ UNCHANGED run
    BY <1>4 DEF Sweep, SweepPending, SweepClaimed, EndSweep, SweepDies, SkipItem, Reap
  <2> QED BY <2>1, AccountUntouched
<1> QED BY <1>1, <1>2, <1>3, <1>4, AccountUntouched
     DEF Next, Escalate, StrikeLapses, ReleaseExpiredClaims, SlaPasses

-----------------------------------------------------------------------------
(* The requests *)

\* A block whose ban review is in the queue gets no new strike.
LEMMA ReviewedDoesNotCount ==
  ASSUME RunsInOrder, ReviewsOfBlocks, StrikesKept, NEW i \in DOMAIN items,
         items[i].source = "ban_review", items[i].decision \notin Active
  PROVE  items[i].decision \notin Active'
<1> DEFINE d == items[i].decision
<1>1. d \in Blocks /\ run[d].at = "over"
  BY DEF ReviewsOfBlocks, RunsInOrder, RunInOrder
<1> QED BY <1>1, ActiveFades

\* A request that does not move stays in order.
LEMMA OtherRequestInOrder ==
  ASSUME TypeOK, RunsInOrder, ReviewsOfBlocks, RequestsInOrder, LogKept, StrikesKept, QueueKept,
         NEW q \in Requests, req'[q] = req[q]
  PROVE  RequestInOrder(q)'
<1> DEFINE r == req[q]
<1>1. RequestInOrder(q)
  BY DEF RequestsInOrder
<1>2. r.at \notin {"idle", "appealing"} =>
        /\ r.item \in DOMAIN items /\ items[r.item].decision = r.decision
        /\ r.item \in DOMAIN items' /\ items'[r.item].decision = r.decision
        /\ items'[r.item].source = items[r.item].source
  BY <1>1 DEF RequestInOrder, QueueKept, Amended
<1>3. r.at = "restoring" => \E k \in DOMAIN log' : log'[k].previous = r.seen
  BY <1>1 DEF RequestInOrder, LogKept
<1>4. ("expire" \notin Faults /\ r.at = "marking" /\ r.verdict = "overturn"
         /\ items'[r.item].source = "ban_review") => r.decision \notin Active'
  BY <1>1, <1>2, ReviewedDoesNotCount DEF RequestInOrder
<1> QED BY <1>1, <1>2, <1>3, <1>4 DEF RequestInOrder

\* What is left to show of a request that goes on.
LEMMA MovedRequestInOrder ==
  ASSUME RequestsInOrder, QueueKept, NEW q \in Requests,
         req[q].at \notin {"idle", "appealing"},
         req'[q].item = req[q].item, req'[q].decision = req[q].decision,
         req'[q].at = "restoring" =>
           req'[q].seen # "banned" /\ \E k \in DOMAIN log' : log'[k].previous = req'[q].seen,
         ("expire" \notin Faults /\ req'[q].at = "marking" /\ req'[q].verdict = "overturn"
            /\ items'[req[q].item].source = "ban_review") => req[q].decision \notin Active'
  PROVE  RequestInOrder(q)'
<1>1. /\ req[q].decision # NoOne
      /\ req[q].item \in DOMAIN items /\ items[req[q].item].decision = req[q].decision
  BY DEF RequestsInOrder, RequestInOrder
<1>2. req[q].item \in DOMAIN items' /\ items'[req[q].item].decision = req[q].decision
  BY <1>1 DEF QueueKept, Amended
<1> QED BY <1>1, <1>2 DEF RequestInOrder

\* Where a request may be the owner's.
OthersCase(q) == req[q].by = Owner => req[q].at = "appealing"

\* A request's own step keeps it in order, and the others where they are.
LEMMA RequestStep ==
  ASSUME TypeOK, NotOwnCase, RequestsInOrder, LogKept, QueueKept, NEW q \in Requests, Request(q)
  PROVE  /\ req' \in [Requests -> Reqs]
         /\ \A p \in Requests \ {q} : req'[p] = req[p]
         /\ RequestInOrder(q)' /\ OthersCase(q)'
<1> DEFINE Kept == /\ req' \in [Requests -> Reqs]
                   /\ \A p \in Requests \ {q} : req'[p] = req[p]
                   /\ RequestInOrder(q)' /\ OthersCase(q)'
<1>0. OthersCase(q) /\ RequestInOrder(q) /\ req[q] \in Reqs
  BY DEF NotOwnCase, RequestsInOrder, TypeOK, OthersCase
<1>1. ASSUME Done(q) PROVE Kept
  <2>1. Owner # NoOne
    BY AccountAssumption
  <2> QED BY <1>1, <2>1, ReqEnds DEF IdleReq, RequestInOrder, OthersCase
<1>2. ASSUME NEW at \in {"account", "expiring", "marking"}, ReqGoes(q, at),
             req[q].at \notin {"idle", "appealing"},
             at = "marking" =>
               \/ req[q].verdict # "overturn"
               \/ "expire" \in Faults
               \/ req[q].decision \notin Active'
      PROVE  Kept
  <2>1. /\ req' \in [Requests -> Reqs] /\ req'[q].at = at /\ req'[q].by = req[q].by
        /\ req'[q].item = req[q].item /\ req'[q].decision = req[q].decision
        /\ req'[q].verdict = req[q].verdict
        /\ \A p \in Requests \ {q} : req'[p] = req[p]
    BY <1>2, ReqMoves DEF ReqPC
  <2> QED BY <1>0, <1>2, <2>1, MovedRequestInOrder DEF OthersCase
<1>3. ASSUME NEW at \in {"history", "restoring"}, NEW s \in Status,
             req' = [req EXCEPT ![q] = [@ EXCEPT !.at = at, !.seen = s]],
             req[q].at \notin {"idle", "appealing"},
             at = "restoring" => s # "banned" /\ \E k \in DOMAIN log' : log'[k].previous = s
      PROVE  Kept
  <2>1. /\ req' \in [Requests -> Reqs] /\ req'[q].at = at /\ req'[q].by = req[q].by
        /\ req'[q].item = req[q].item /\ req'[q].decision = req[q].decision
        /\ req'[q].seen = s
        /\ \A p \in Requests \ {q} : req'[p] = req[p]
    BY <1>3, ReqSees DEF ReqPC
  <2> QED BY <1>0, <1>3, <2>1, MovedRequestInOrder DEF OthersCase
<1>4. CASE SubmitAppeal(q) \/ Claim(q) \/ Unclaim(q) \/ MarkResolved(q) \/ RequestFails(q)
  BY <1>1, <1>4 DEF SubmitAppeal, Claim, Unclaim, MarkResolved, RequestFails
<1>5. CASE RecordResolution(q)
  BY <1>1, <1>2, <1>5 DEF RecordResolution
<1>6. CASE ReadAccount(q)
  <2>1. account \in Status
    BY DEF TypeOK
  <2> QED BY <1>3, <1>6, <2>1 DEF ReadAccount
<1>7. CASE ReadHistory(q)
  <2>1. CASE ReqGoes(q, "expiring")
    BY <1>2, <1>7, <2>1 DEF ReadHistory
  <2>2. ASSUME NEW s \in RestoreTo(req[q].decision, req[q].seen),
               req' = [req EXCEPT ![q] = [@ EXCEPT !.at = "restoring", !.seen = s]]
        PROVE  Kept
    <3>1. PICK k \in DOMAIN log : log[k].previous = s /\ Severity[s] < Severity[req[q].seen]
      BY <2>2 DEF RestoreTo, LatestChange, Effective
    <3>2. s \in Status
      <4>1. log[k] \in Changes
        BY DEF TypeOK
      <4> QED BY <3>1, <4>1 DEF Changes
    <3>3. s # "banned"
      BY <1>0, <3>1, <3>2, LowerIsNotBanned DEF Reqs
    <3>4. \E j \in DOMAIN log' : log'[j].previous = s
      BY <3>1 DEF LogKept
    <3> QED BY <1>3, <1>7, <2>2, <3>2, <3>3, <3>4 DEF ReadHistory
  <2> QED BY <1>7, <2>1, <2>2 DEF ReadHistory
<1>8. CASE Restore(q)
  BY <1>2, <1>8 DEF Restore
<1>9. CASE ExpireStrike(q)
  <2> DEFINE d == req[q].decision
  <2>1. CASE strikes' = [k \in DOMAIN strikes |->
                           IF strikes[k].decision = d THEN [strikes[k] EXCEPT !.active = FALSE]
                                                      ELSE strikes[k]]
    <3>1. \A k \in DOMAIN strikes' : strikes'[k].decision = d => ~strikes'[k].active
      <4> SUFFICES ASSUME NEW k \in DOMAIN strikes PROVE strikes'[k].decision = d => ~strikes'[k].active
        BY <2>1
      <4>1. strikes[k] \in Strikes
        BY DEF TypeOK
      <4> QED BY <2>1, <4>1 DEF Strikes
    <3>2. d \notin Active'
      BY <3>1 DEF Active
    <3> QED BY <1>2, <1>9, <3>2 DEF ExpireStrike
  <2>2. CASE "expire" \in Faults
    BY <1>2, <1>9, <2>2 DEF ExpireStrike
  <2> QED BY <1>9, <2>1, <2>2 DEF ExpireStrike
<1> QED BY <1>4, <1>5, <1>6, <1>7, <1>8, <1>9 DEF Request

\* A new request is in order: it names a decision and, but for an appeal, the
\* item of it, and is the owner's only if it is an appeal.
LEMMA NewRequestStep ==
  ASSUME TypeOK, NotOwnCase, NEW q \in Requests, NewRequest(q)
  PROVE  /\ req' \in [Requests -> Reqs]
         /\ \A p \in Requests \ {q} : req'[p] = req[p]
         /\ RequestInOrder(q)' /\ OthersCase(q)'
<1> DEFINE Kept == /\ req' \in [Requests -> Reqs]
                   /\ \A p \in Requests \ {q} : req'[p] = req[p]
                   /\ RequestInOrder(q)' /\ OthersCase(q)'
<1>1. ASSUME NEW at \in {"appealing", "claiming", "unclaiming", "resolving"},
             NEW r \in Reviewers \cup {Owner}, NEW i \in Nat, NEW d \in Blocks \cup Escalations,
             NEW v \in Verdict, Start(q, at, r, i, d, v),
             r = Owner => at = "appealing",
             at # "appealing" => i \in DOMAIN items /\ items[i].decision = d
      PROVE  Kept
  <2> DEFINE x == [at |-> at, by |-> r, item |-> i, decision |-> d, verdict |-> v, seen |-> "active"]
  <2>1. /\ x \in Reqs /\ x.at = at /\ x.by = r /\ x.item = i /\ x.decision = d
    BY Severities DEF Reqs, ReqPC
  <2>2. req' = [req EXCEPT ![q] = x] /\ UNCHANGED items
    BY <1>1 DEF Start
  <2> HIDE DEF x
  <2>3. req' \in [Requests -> Reqs] /\ req'[q] = x /\ \A p \in Requests \ {q} : req'[p] = req[p]
    BY <2>1, <2>2, ReqBecomes
  <2>4. d # NoOne
    BY AccountAssumption
  <2> QED BY <1>1, <2>1, <2>2, <2>3, <2>4 DEF RequestInOrder, OthersCase
<1>2. ASSUME NEW d \in Blocks, BeginAppeal(q, d) PROVE Kept
  BY <1>1, <1>2 DEF BeginAppeal, Verdict
<1>3. ASSUME NEW r \in Reviewers, NEW i \in DOMAIN items PROVE
        /\ i \in Nat /\ items[i].decision \in Blocks \cup Escalations
        /\ items[i].claimedBy # Owner
  <2>1. items \in Seq(Items)
    BY DEF TypeOK
  <2>2. i \in Nat /\ items[i] \in Items
    BY <2>1
  <2> QED BY <2>2 DEF Items, NotOwnCase
<1>4. ASSUME NEW r \in Reviewers, NEW i \in DOMAIN items, BeginClaim(q, r, i) PROVE Kept
  BY <1>1, <1>3, <1>4 DEF BeginClaim, Verdict
<1>5. ASSUME NEW r \in Reviewers, NEW i \in DOMAIN items, BeginUnclaim(q, r, i) PROVE Kept
  BY <1>1, <1>3, <1>5 DEF BeginUnclaim, Verdict, Holds
<1>6. ASSUME NEW r \in Reviewers, NEW i \in DOMAIN items, NEW v \in Verdict,
             BeginResolve(q, r, i, v)
      PROVE  Kept
  BY <1>1, <1>3, <1>6 DEF BeginResolve
<1> QED BY <1>2, <1>4, <1>5, <1>6 DEF NewRequest

\* Whatever moves, the requests stay typed and in order.
LEMMA RequestsStep ==
  ASSUME TypeOK, RunsInOrder, ReviewsOfBlocks, NotOwnCase, RequestsInOrder,
         LogKept, StrikesKept, QueueKept, Next
  PROVE  req' \in [Requests -> Reqs] /\ RequestsInOrder' /\ \A q \in Requests : OthersCase(q)'
<1> DEFINE Kept == /\ req' \in [Requests -> Reqs] /\ RequestsInOrder'
                   /\ \A q \in Requests : OthersCase(q)'
<1>1. \A q \in Requests : req'[q] = req[q] => RequestInOrder(q)' /\ OthersCase(q)'
  BY OtherRequestInOrder DEF NotOwnCase, OthersCase
<1>2. ASSUME NEW q \in Requests, Request(q) \/ NewRequest(q) PROVE Kept
  BY <1>1, <1>2, RequestStep, NewRequestStep DEF RequestsInOrder
<1>3. ASSUME UNCHANGED req PROVE Kept
  BY <1>1, <1>3 DEF RequestsInOrder, TypeOK
<1>4. ASSUME NEW d \in Blocks, Sentinel(d) PROVE UNCHANGED req
  BY <1>4 DEF Sentinel, Block, RecordStrike, Tally, ReadStatus, RecordChange, WriteStatus,
     ReportFailure, Conclude, StopRun, RunDies
<1>5. ASSUME Sweep PROVE UNCHANGED req
  BY <1>5 DEF Sweep, SweepPending, SweepClaimed, EndSweep, SweepDies, SkipItem, Reap
<1> QED BY <1>2, <1>3, <1>4, <1>5 DEF Next, Escalate, StrikeLapses, ReleaseExpiredClaims, SlaPasses

-----------------------------------------------------------------------------
(* The rest of the invariant *)

\* The account, the bound and the sweep are of their types.
LEMMA RestTyped ==
  ASSUME TypeOK, Next
  PROVE  /\ account' \in Status /\ setBy' \in Blocks \cup {NoOne}
         /\ calls' \in 0 .. MaxCalls
         /\ sweep' \in Sweeps
<1> DEFINE Person == account' \in Status /\ setBy' \in Blocks \cup {NoOne}
           Calls == calls' \in 0 .. MaxCalls
           Swept == sweep' \in Sweeps
<1>1. /\ account \in Status /\ setBy \in Blocks \cup {NoOne}
      /\ calls \in 0 .. MaxCalls /\ MaxCalls \in Nat /\ sweep \in Sweeps
  BY AccountAssumption DEF TypeOK
<1>2. ASSUME NEW d \in Blocks, Sentinel(d) PROVE Person /\ Calls /\ Swept
  <2>1. run[d] \in Runs
    BY DEF TypeOK
  <2> QED BY <1>1, <1>2, <2>1 DEF Sentinel, Block, RecordStrike, Tally, ReadStatus, RecordChange,
       WriteStatus, ReportFailure, Conclude, StopRun, RunDies, SetAccount, person, Runs
<1>3. ASSUME NEW q \in Requests, Request(q) PROVE Person /\ Calls /\ Swept
  <2>1. req[q] \in Reqs
    BY DEF TypeOK
  <2>2. CASE Restore(q)
    BY <1>1, <2>1, <2>2 DEF Restore, SetAccount, Reqs
  <2>3. CASE ~Restore(q)
    BY <1>1, <1>3, <2>3 DEF Request, SubmitAppeal, Claim, Unclaim, MarkResolved, RecordResolution,
       ReadAccount, ReadHistory, ExpireStrike, RequestFails, person
  <2> QED BY <2>2, <2>3
<1>4. ASSUME NEW q \in Requests, NewRequest(q) PROVE Person /\ Calls /\ Swept
  <2>1. calls < MaxCalls /\ calls' = calls + 1 /\ UNCHANGED <<person, sweep>>
    BY <1>4 DEF NewRequest, BeginAppeal, BeginClaim, BeginUnclaim, BeginResolve, Start
  <2> QED BY <1>1, <2>1 DEF person
<1>5. ASSUME Sweep PROVE Person /\ Calls /\ Swept
  <2>1. UNCHANGED <<person, calls>>
    BY <1>5 DEF Sweep, SweepPending, SweepClaimed, EndSweep, SweepDies, SkipItem, Reap
  <2>2. \A s \in {"pending", "claimed"}, m \in Remedials :
          Overdue(s, m) \subseteq Nat \X {"pending", "claimed"}
    <3>1. DOMAIN items \subseteq Nat
      BY DEF TypeOK
    <3> QED BY <3>1 DEF Overdue
  <2>3. CASE SweepPending
    <3>1. PICK m \in Remedials :
            sweep' = [at |-> "claimed", remedial |-> m, todo |-> Overdue("pending", m)]
      BY <2>3 DEF SweepPending
    <3> QED BY <1>1, <2>1, <2>2, <3>1, AccountAssumption DEF Sweeps, person
  <2>4. CASE SweepClaimed
    <3> DEFINE more == Overdue("claimed", sweep.remedial)
    <3>1. more \subseteq Nat \X {"pending", "claimed"}
      <4>1. DOMAIN items \subseteq Nat
        BY DEF TypeOK
      <4> QED BY <4>1 DEF Overdue
    <3>2. sweep' = [sweep EXCEPT !.at = "reaping", !.todo = @ \cup more]
      BY <2>4 DEF SweepClaimed
    <3> HIDE DEF more
    <3>3. sweep' \in Sweeps
      BY <1>1, <3>1, <3>2 DEF Sweeps
    <3> QED BY <1>1, <2>1, <3>3 DEF person
  <2>5. ASSUME NEW t, sweep' = [sweep EXCEPT !.todo = @ \ {t}] PROVE Swept
    BY <1>1, <2>5 DEF Sweeps
  <2>6. CASE \E t \in sweep.todo : SkipItem(t) \/ \E m \in Remedials : Reap(t, m)
    BY <1>1, <2>1, <2>5, <2>6 DEF SkipItem, Reap, person
  <2>7. IdleSweep \in Sweeps
    BY DEF IdleSweep, Sweeps
  <2>8. CASE EndSweep \/ SweepDies
    BY <1>1, <2>1, <2>7, <2>8 DEF EndSweep, SweepDies, person
  <2> QED BY <1>5, <2>3, <2>4, <2>6, <2>8 DEF Sweep
<1> QED BY <1>1, <1>2, <1>3, <1>4, <1>5
     DEF Next, Escalate, StrikeLapses, ReleaseExpiredClaims, SlaPasses, person

LEMMA ReviewsStep ==
  ASSUME ReviewsOfBlocks, QueueKept
  PROVE  ReviewsOfBlocks'
BY DEF ReviewsOfBlocks, QueueKept, Amended, Filed

\* What an overturned ban review has ended does not come back.
LEMMA OverturnStep ==
  ASSUME TypeOK, RunsInOrder, ReviewsOfBlocks, RequestsInOrder, StrikesKept, QueueKept,
         OverturnIsFinal, RunsInOrder', ReviewsOfBlocks', "expire" \notin Faults
  PROVE  OverturnIsFinal'
<1> SUFFICES ASSUME NEW i \in DOMAIN items', Overturned(i)'
             PROVE  items'[i].decision \notin Active' /\ run'[items'[i].decision].at = "over"
  BY DEF OverturnIsFinal, Overturned
<1>1. run'[items'[i].decision].at = "over"
  <2>1. items'[i].decision \in Blocks /\ items'[i].source = "ban_review"
    BY DEF ReviewsOfBlocks, Overturned
  <2> QED BY <2>1 DEF RunsInOrder, RunInOrder
<1>2. i \in DOMAIN items
  BY DEF QueueKept, Filed, Overturned
<1>3. items'[i].decision = items[i].decision /\ items[i].source = "ban_review"
  BY <1>2 DEF QueueKept, Amended, Overturned
<1>4. items[i].decision \notin Active
  <2>1. CASE Overturned(i)
    BY <1>2, <2>1 DEF OverturnIsFinal, Overturned
  <2>2. ASSUME NEW q \in Requests, req[q].at = "marking", req[q].item = i,
               req[q].verdict = "overturn"
        PROVE  items[i].decision \notin Active
    BY <1>3, <2>2 DEF RequestsInOrder, RequestInOrder
  <2> QED BY <1>2, <2>1, <2>2 DEF QueueKept, Amended
<1> QED BY <1>1, <1>2, <1>3, <1>4, ReviewedDoesNotCount

-----------------------------------------------------------------------------
(* The inductive invariant *)

LEMMA InitInv == Init => IInv
<1> SUFFICES ASSUME Init PROVE IInv
  OBVIOUS
<1>1. \A d \in Blocks : run[d] = IdleRun
  BY DEF Init
<1>2. \A q \in Requests : req[q] = IdleReq
  BY DEF Init
<1>3. TypeOK
  <2>1. IdleRun \in Runs
    BY Severities DEF IdleRun, Runs, RunPC, Consequence
  <2>2. IdleReq \in Reqs
    BY Severities DEF IdleReq, Reqs, ReqPC, Verdict
  <2>3. IdleSweep \in Sweeps
    BY DEF IdleSweep, Sweeps
  <2>4. /\ strikes \in Seq(Strikes) /\ log \in Seq(Changes) /\ items \in Seq(Items)
    BY DEF Init
  <2>5. account \in Status /\ setBy \in Blocks \cup {NoOne}
    BY Severities DEF Init
  <2>6. run \in [Blocks -> Runs] /\ req \in [Requests -> Reqs]
    BY <2>1, <2>2 DEF Init
  <2>7. calls \in 0 .. MaxCalls /\ sweep \in Sweeps
    BY <2>3, AccountAssumption DEF Init
  <2> QED BY <2>4, <2>5, <2>6, <2>7 DEF TypeOK
<1>4. RunsInOrder
  BY <1>1 DEF RunsInOrder, RunInOrder, IdleRun, Init
<1>5. RequestsInOrder /\ NotOwnCase
  <2>1. Owner # NoOne
    BY AccountAssumption
  <2> QED BY <1>2, <2>1 DEF RequestsInOrder, RequestInOrder, NotOwnCase, IdleReq, Init
<1>6. CountedInOrder /\ ReviewsOfBlocks /\ OverturnIsFinal
  BY DEF Init, CountedInOrder, ReviewsOfBlocks, OverturnIsFinal
<1>7. StatusHasItsRun /\ StatusIsOnRecord /\ BannedIsReviewed
  BY AccountAssumption DEF Init, StatusHasItsRun, StatusIsOnRecord, BannedIsReviewed
<1> QED BY <1>3, <1>4, <1>5, <1>6, <1>7 DEF IInv

LEMMA NextInv ==
  ASSUME IInv, Next
  PROVE  IInv'
<1>1. /\ TypeOK /\ RunsInOrder /\ CountedInOrder /\ ReviewsOfBlocks /\ NotOwnCase
      /\ RequestsInOrder /\ AccountInOrder /\ ("expire" \notin Faults => OverturnIsFinal)
  BY DEF IInv, AccountInOrder
<1>2. QueueKept /\ LogKept /\ StrikesKept
  BY <1>1, QueueStep, LogStep, StrikesStep
<1>3. run' \in [Blocks -> Runs] /\ RunsInOrder'
  BY <1>1, <1>2, RunsStep
<1>4. req' \in [Requests -> Reqs] /\ RequestsInOrder' /\ \A q \in Requests : OthersCase(q)'
  BY <1>1, <1>2, RequestsStep
<1>5. TypeOK'
  BY <1>1, <1>2, <1>3, <1>4, RestTyped DEF TypeOK, QueueKept, LogKept, StrikesKept
<1>6. CountedInOrder'
  BY <1>1, <1>2, CountedStep
<1>7. AccountInOrder'
  BY <1>1, <1>2, AccountStep
<1>8. ReviewsOfBlocks'
  BY <1>1, <1>2, ReviewsStep
<1>9. NotOwnCase'
  BY <1>2, <1>4 DEF NotOwnCase, OthersCase, QueueKept, Amended, Filed
<1>10. "expire" \notin Faults => OverturnIsFinal'
  BY <1>1, <1>2, <1>3, <1>8, OverturnStep
<1> QED BY <1>3, <1>4, <1>5, <1>6, <1>7, <1>8, <1>9, <1>10 DEF IInv, AccountInOrder

LEMMA StutterInv ==
  ASSUME IInv, UNCHANGED vars
  PROVE  IInv'
<1> USE DEF vars, person
<1>1. TypeOK' /\ ReviewsOfBlocks' /\ NotOwnCase'
  BY DEF IInv, TypeOK, ReviewsOfBlocks, NotOwnCase
<1>2. RunsInOrder'
  BY DEF IInv, RunsInOrder, RunInOrder, Change
<1>3. CountedInOrder' /\ StatusHasItsRun' /\ StatusIsOnRecord' /\ BannedIsReviewed'
  BY DEF IInv, CountedInOrder, StatusHasItsRun, StatusIsOnRecord, BannedIsReviewed
<1>4. RequestsInOrder' /\ (OverturnIsFinal => OverturnIsFinal')
  BY DEF IInv, RequestsInOrder, RequestInOrder, OverturnIsFinal, Active
<1> QED BY <1>1, <1>2, <1>3, <1>4 DEF IInv

\* The invariant that carries the results below: at every point of a run, a
\* request or a sweep, what it has left in the strikes, the records, the queue
\* and the account is what it was to leave there.
THEOREM Inductive == Spec => []IInv
<1>1. IInv /\ [Next]_vars => IInv'
  BY NextInv, StutterInv
<1> QED BY InitInv, <1>1, PTL DEF Spec

-----------------------------------------------------------------------------
(* What follows from it *)

\* A set of positions that is not empty has a last one.
LEMMA LastPosition ==
  ASSUME NEW n \in Nat, NEW S \in SUBSET (1 .. n), S # {}
  PROVE  \E k \in S : \A j \in S : j <= k
<1> DEFINE T == {n - k : k \in S}
<1>1. T \in SUBSET Nat /\ T # {}
  <2>1. \A k \in S : n - k \in Nat
    <3> SUFFICES ASSUME NEW k \in S PROVE n - k \in Nat
      OBVIOUS
    <3>1. k \in 1 .. n
      OBVIOUS
    <3> QED BY <3>1
  <2>2. PICK k : k \in S
    OBVIOUS
  <2>3. n - k \in T
    BY <2>2
  <2> QED BY <2>1, <2>3
<1> DEFINE R == {p \in Nat \X Nat : p[1] < p[2]}
<1>2. IsWellFoundedOn(R, Nat)
  BY NatLessThanWellFounded DEF OpToRel
<1>3. PICK m \in T : \A x \in T : m <= x
  <2> HIDE DEF T
  <2>1. PICK m \in T : \A x \in T : ~(<<x, m>> \in R)
    <3> HIDE DEF R
    <3> QED BY <1>1, <1>2, WFMin
  <2>2. \A x \in T : m <= x
    <3> SUFFICES ASSUME NEW x \in T, ~(m <= x) PROVE FALSE
      OBVIOUS
    <3>1. m \in Nat /\ x \in Nat
      BY <1>1
    <3>2. x < m
      BY <3>1
    <3>3. <<x, m>> \in R
      BY <3>1, <3>2
    <3> QED BY <2>1, <3>3
  <2> QED BY <2>2
<1>4. PICK k \in S : m = n - k
  OBVIOUS
<1>5. \A j \in S : j <= k
  <2> SUFFICES ASSUME NEW j \in S PROVE j <= k
    OBVIOUS
  <2>1. n - j \in T
    OBVIOUS
  <2>2. n - k <= n - j
    BY <1>3, <1>4, <2>1
  <2>3. j \in Int /\ k \in Int /\ n \in Int
    OBVIOUS
  <2> HIDE DEF T, R
  <2> QED BY <2>2, <2>3
<1> QED BY <1>5

\* Blocks handled at the same time do not escape the ladder together: of the
\* runs whose strike stands, if all have counted, the one that recorded last has
\* counted every strike that stands.
THEOREM NobodyEscapesTogether == Spec => []EveryStrikeIsWeighed
<1>1. ASSUME IInv PROVE EveryStrikeIsWeighed
  <2> SUFFICES ASSUME Active # {}, \A d \in Active : run[d].counted # {}
               PROVE  \E d \in Active : Active \subseteq run[d].counted
    BY DEF EveryStrikeIsWeighed
  <2> DEFINE S == {k \in DOMAIN strikes : strikes[k].active}
  <2>1. DOMAIN strikes = 1 .. Len(strikes) /\ Len(strikes) \in Nat
    BY <1>1 DEF IInv, TypeOK
  <2>2. S \in SUBSET (1 .. Len(strikes)) /\ S # {}
    BY <2>1 DEF Active
  <2>3. PICK k \in S : \A j \in S : j <= k
    BY <2>1, <2>2, LastPosition
  <2>4. strikes[k].decision \in Active
    BY DEF Active
  <2>5. ASSUME NEW d \in Active PROVE d \in run[strikes[k].decision].counted
    <3>1. PICK j \in S : strikes[j].decision = d
      BY DEF Active
    <3>2. j \in 1 .. k
      BY <2>1, <2>3, <3>1
    <3> QED BY <1>1, <2>4, <3>1, <3>2 DEF IInv, CountedInOrder
  <2> QED BY <2>4, <2>5
<1> QED BY <1>1, Inductive, PTL

\* The account never has a status that the records do not explain, whichever
\* accesses fail and however runs, requests and lost answers interleave.
THEOREM EveryStatusIsOnRecord == Spec => []StatusIsOnRecord
<1>1. IInv => StatusIsOnRecord
  BY DEF IInv
<1> QED BY <1>1, Inductive, PTL

\* A ban is in front of a moderator, or its run has yet to submit it, or died or
\* failed in submitting it.
THEOREM BansAreReviewed == Spec => []BannedIsReviewed
<1>1. IInv => BannedIsReviewed
  BY DEF IInv
<1> QED BY <1>1, Inductive, PTL

\* As long as strikes can be expired, an overturned ban review leaves no strike
\* that counts and no write of its run.
THEOREM OverturnLeavesNothing ==
  ASSUME "expire" \notin Faults
  PROVE  Spec => []OverturnIsFinal
<1>1. IInv => OverturnIsFinal
  BY DEF IInv
<1> QED BY <1>1, Inductive, PTL
=============================================================================
