--------------------------- MODULE StaleApproval ---------------------------
(***************************************************************************)
(* Approvals of a state that has moved on (platform/action-pipeline:       *)
(* proposeAction, approveWithReconciliation, the approved branch of        *)
(* executeActionPipeline; platform/agents/gating: approveHeldAction with   *)
(* reconcile).  A held change of an activity's state is proposed at a      *)
(* version; other actions commit while it waits for its approver, while    *)
(* the approver's request is served, and while the approved action is      *)
(* under way.                                                              *)
(***************************************************************************)
EXTENDS Naturals, Sequences, FiniteSets

CONSTANTS
  Deciders,    \* approvals and rejections under way
  Runners,     \* calls that carry an approved action out
  Commutes,    \* is the held action commutative
  Expects,     \* the version a runner commits against: "observed" or "current"
  MaxVersion, MaxProposals   \* bounds

\* What the constants are to satisfy (Services assumes it).
StaleAssumption ==
  /\ Commutes \in BOOLEAN /\ Expects \in {"observed", "current"}
  /\ MaxVersion \in Nat \ {0} /\ MaxProposals \in Nat

VARIABLES
  version,     \* of the activity's state
  proposals,   \* the proposals of the operation, in order: status and version observed
  trajectory,  \* its status
  decider,     \* decider -> where it is, the proposal, the version it read
  runner,      \* runner -> where it is, the proposal, the version it expects
  since,       \* ghost: decider -> the state's version when the request arrived
  log          \* ghost: what was approved, superseded, applied

vars == <<version, proposals, trajectory, decider, runner, since, log>>

IdleDecider == [pc |-> "idle", of |-> 0, to |-> "none"]
IdleRunner == [pc |-> "idle", of |-> 0, expected |-> 0]

TypeOK ==
  /\ version \in 1..MaxVersion
  /\ proposals \in Seq([status : {"proposed", "approved", "rejected", "superseded", "executed"},
                        observed : 1..MaxVersion])
  /\ trajectory \in {"running", "paused", "failed"}
  /\ decider \in [Deciders ->
        [pc : {"idle", "load", "supersede", "approve", "reject", "pause", "resume", "fail"},
         of : 0..MaxProposals, to : {"none", "approved", "rejected"}]]
  /\ runner \in [Runners -> [pc : {"idle", "claim", "commit"}, of : 0..MaxProposals,
                             expected : 0..MaxVersion]]
  /\ since \in [Deciders -> 0..MaxVersion]
  /\ log \in [approved : SUBSET [of : 1..MaxProposals, from : 1..MaxVersion, by : 1..MaxVersion],
              superseded : SUBSET [of : 1..MaxProposals, at : 1..MaxVersion],
              applied : Seq([of : 1..MaxProposals, at : 1..MaxVersion])]

Init ==
  /\ version = 1
  /\ proposals = <<>>
  /\ trajectory = "running"
  /\ decider = [d \in Deciders |-> IdleDecider]
  /\ runner = [r \in Runners |-> IdleRunner]
  /\ since = [d \in Deciders |-> 0]
  /\ log = [approved |-> {}, superseded |-> {}, applied |-> <<>>]

Live == {i \in DOMAIN proposals : proposals[i].status = "proposed"}
Decided == {i \in DOMAIN proposals : proposals[i].status \in {"approved", "executed"}}

\* Another action of the session.
Advance ==
  /\ version < MaxVersion /\ version' = version + 1
  /\ UNCHANGED <<proposals, trajectory, decider, runner, since, log>>

\* An operation has one live proposal, and none after an approval of it; one that was
\* superseded is proposed again, at the version seen now.
Propose ==
  /\ Live = {} /\ Decided = {} /\ Len(proposals) < MaxProposals
  /\ trajectory # "failed"
  /\ proposals' = Append(proposals, [status |-> "proposed", observed |-> version])
  /\ trajectory' = "paused"
  /\ UNCHANGED <<version, decider, runner, since, log>>

At(d, pc) == decider[d].pc = pc
Go(d, pc) == decider' = [decider EXCEPT ![d].pc = pc]
Leave(d) == decider' = [decider EXCEPT ![d] = IdleDecider] /\ since' = [since EXCEPT ![d] = 0]

\* decide: only from proposed, else nothing happens and the caller is told.
Settle(i, status) == proposals' = [proposals EXCEPT ![i].status = status]

AskDecision(d, i, to) ==
  /\ At(d, "idle") /\ i \in Live
  /\ decider' = [decider EXCEPT ![d] = [pc |-> IF to = "approved" THEN "load" ELSE "reject",
                                        of |-> i, to |-> to]]
  /\ since' = [since EXCEPT ![d] = version]
  /\ UNCHANGED <<version, proposals, trajectory, runner, log>>

\* Mutant: the version the approver saw is not looked at.
Unlooked(i) == FALSE

\* The state has moved under an action that does not commute.
Stale(i) == version # proposals[i].observed /\ ~Commutes

LoadVersion(d) ==
  /\ At(d, "load")
  /\ Go(d, IF Stale(decider[d].of) THEN "supersede" ELSE "approve")
  /\ UNCHANGED <<version, proposals, trajectory, runner, since, log>>

\* A stale approval supersedes its proposal, if that is still waiting; the trajectory is
\* paused whether it was or not.
Supersede(d) ==
  /\ At(d, "supersede")
  /\ LET i == decider[d].of
     IN IF i \in Live
        THEN /\ Settle(i, "superseded")
             /\ log' = [log EXCEPT !.superseded = @ \cup {[of |-> i, at |-> version]}]
        ELSE UNCHANGED <<proposals, log>>
  /\ Go(d, "pause")
  /\ UNCHANGED <<version, trajectory, runner, since>>

Pause(d) ==
  /\ At(d, "pause")
  /\ trajectory' = "paused" /\ Leave(d)
  /\ UNCHANGED <<version, proposals, runner, log>>

Approve(d) ==
  /\ At(d, "approve")
  /\ LET i == decider[d].of
     IN IF i \in Live
        THEN /\ Settle(i, "approved") /\ Go(d, "resume")
             /\ log' = [log EXCEPT !.approved =
                          @ \cup {[of |-> i, from |-> since[d], by |-> version]}]
             /\ UNCHANGED since
        ELSE Leave(d) /\ UNCHANGED <<proposals, log>>
  /\ UNCHANGED <<version, trajectory, runner>>

\* Back to running only from the pause of the hold.
Resume(d) ==
  /\ At(d, "resume")
  /\ trajectory' = IF trajectory = "paused" THEN "running" ELSE trajectory
  /\ Leave(d)
  /\ UNCHANGED <<version, proposals, runner, log>>

Reject(d) ==
  /\ At(d, "reject")
  /\ IF decider[d].of \in Live
     THEN Settle(decider[d].of, "rejected") /\ Go(d, "fail") /\ UNCHANGED since
     ELSE Leave(d) /\ UNCHANGED proposals
  /\ UNCHANGED <<version, trajectory, runner, log>>

Fail(d) ==
  /\ At(d, "fail")
  /\ trajectory' = "failed" /\ Leave(d)
  /\ UNCHANGED <<version, proposals, runner, log>>

(***************************************************************************)
(* The approved action                                                     *)
(***************************************************************************)
\* The gate: a proposal that is approved.  The version to commit against is the
\* caller's.
Start(r, i) ==
  /\ runner[r].pc = "idle" /\ i \in DOMAIN proposals /\ proposals[i].status = "approved"
  /\ runner' = [runner EXCEPT ![r] =
       [pc |-> "claim", of |-> i,
        expected |-> IF Expects = "observed" THEN proposals[i].observed ELSE version]]
  /\ UNCHANGED <<version, proposals, trajectory, decider, since, log>>

Claim(r) ==
  /\ runner[r].pc = "claim"
  /\ IF proposals[runner[r].of].status = "approved"
     THEN Settle(runner[r].of, "executed") /\ runner' = [runner EXCEPT ![r].pc = "commit"]
     ELSE runner' = [runner EXCEPT ![r] = IdleRunner] /\ UNCHANGED proposals
  /\ UNCHANGED <<version, trajectory, decider, since, log>>

\* A commutative action is applied to the latest state; any other only to the version
\* expected, and a lost race leaves the approval used up.
CommitApproved(r) ==
  /\ runner[r].pc = "commit"
  /\ IF version < MaxVersion /\ (Commutes \/ runner[r].expected = version)
     THEN /\ log' = [log EXCEPT !.applied = Append(@, [of |-> runner[r].of, at |-> version])]
          /\ version' = version + 1
     ELSE UNCHANGED <<version, log>>
  /\ runner' = [runner EXCEPT ![r] = IdleRunner]
  /\ UNCHANGED <<proposals, trajectory, decider, since>>

Next ==
  \/ Advance \/ Propose
  \/ \E d \in Deciders :
       \/ \E i \in 1..MaxProposals, to \in {"approved", "rejected"} : AskDecision(d, i, to)
       \/ LoadVersion(d) \/ Supersede(d) \/ Pause(d) \/ Approve(d) \/ Resume(d)
       \/ Reject(d) \/ Fail(d)
  \/ \E r \in Runners : (\E i \in 1..MaxProposals : Start(r, i)) \/ Claim(r) \/ CommitApproved(r)

Spec == Init /\ [][Next]_vars

\* An approval commits only if, at some moment of its request, the state was at the
\* version its approver saw, or the action commutes; only a state that had moved
\* supersedes; and an operation is applied at most once however many calls carry it out.
ApprovedAsSeen ==
  /\ \A a \in log.approved : Commutes \/ proposals[a.of].observed \in a.from..a.by
  /\ \A s \in log.superseded : s.at # proposals[s.of].observed
  /\ Len(log.applied) <= 1

\* "Stale approvals are never silently re-applied against newer state" (index.ts:804).
\* It holds where the caller commits against the version observed; with the current one
\* the state may move between the approval and the action.
NeverAppliedToNewer ==
  \A k \in DOMAIN log.applied : Commutes \/ log.applied[k].at = proposals[log.applied[k].of].observed

(***************************************************************************)
(* The inductive invariant                                                 *)
(***************************************************************************)
Observed(i) == proposals[i].observed

\* A version is observed before anything moves on from it.
SeenBefore ==
  /\ Len(proposals) <= MaxProposals
  /\ \A i \in DOMAIN proposals : Observed(i) <= version

\* Of the proposals of an operation at most one waits, is approved or was carried out.
OneStands ==
  \A i, j \in DOMAIN proposals :
    {proposals[i].status, proposals[j].status} \subseteq {"proposed", "approved", "executed"} => i = j

\* A decision is about a proposal older than itself; it approves what was still current
\* when it looked, and supersedes what no longer was.
Deciding ==
  \A d \in Deciders : LET i == decider[d].of IN
    decider[d].pc # "idle" =>
      /\ i \in DOMAIN proposals
      /\ since[d] \in 1..version
      /\ decider[d].pc = "approve" => Commutes \/ since[d] <= Observed(i)
      /\ decider[d].pc = "supersede" => Observed(i) < version

\* One call carries an approved action out, and nobody after it was applied.
Running ==
  /\ \A r \in Runners :
       /\ runner[r].pc # "idle" =>
            /\ runner[r].of \in DOMAIN proposals
            /\ Expects = "observed" => runner[r].expected = Observed(runner[r].of)
       /\ runner[r].pc = "commit" =>
            proposals[runner[r].of].status = "executed" /\ log.applied = <<>>
  /\ \A q, r \in Runners : runner[q].pc = "commit" /\ runner[r].pc = "commit" => q = r

\* What the log says is of proposals there are.
Logged ==
  /\ \A a \in log.approved :
       a.of \in DOMAIN proposals /\ (Commutes \/ Observed(a.of) \in a.from..a.by)
  /\ \A s \in log.superseded : s.of \in DOMAIN proposals /\ s.at # Observed(s.of)
  /\ Len(log.applied) <= 1
  /\ \A k \in DOMAIN log.applied :
       LET i == log.applied[k].of
       IN /\ i \in DOMAIN proposals /\ proposals[i].status = "executed"
          /\ Expects = "observed" => Commutes \/ log.applied[k].at = Observed(i)

IInv == TypeOK /\ SeenBefore /\ OneStands /\ Deciding /\ Running /\ Logged

=============================================================================
