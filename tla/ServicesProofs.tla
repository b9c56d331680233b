--------------------------- MODULE ServicesProofs ---------------------------
(***************************************************************************)
(* Proofs about the Services, each for every value of its constants.  A    *)
(* service's variables are v1, v2, ... in the order its module declares    *)
(* them.                                                                   *)
(***************************************************************************)
EXTENDS Services, FiniteSetTheorems, TLAPS

-----------------------------------------------------------------------------
(* Stale approvals.  v1: version, v2: proposals, v3: trajectory, v4:       *)
(* decider, v5: runner, v6: since, v7: log.                                *)

\* What runs goes on running, and takes its own steps only.
LEMMA StaleAlone ==
  ASSUME running = "stale"
  PROVE  /\ ServicesInit => Stale!Init
         /\ [ServicesNext]_<<running, vars, slots>> => running' = running /\ [Stale!Next]_(Stale!vars)
  BY DEF ServicesInit, ServicesNext, In, slots, Stale!vars

\* The records of StaleApproval.
ProposalState ==
  [status : {"proposed", "approved", "rejected", "superseded", "executed"},
   observed : 1..ForStale.MaxVersion]
DeciderState ==
  [pc : {"idle", "load", "supersede", "approve", "reject", "pause", "resume", "fail"},
   of : 0..ForStale.MaxProposals, to : {"none", "approved", "rejected"}]
RunnerState ==
  [pc : {"idle", "claim", "commit"}, of : 0..ForStale.MaxProposals,
   expected : 0..ForStale.MaxVersion]
Approval ==
  [of : 1..ForStale.MaxProposals, from : 1..ForStale.MaxVersion, by : 1..ForStale.MaxVersion]
Supersession == [of : 1..ForStale.MaxProposals, at : 1..ForStale.MaxVersion]

\* The types of the variables one by one.
StaleTyped ==
  /\ v1 \in 1..ForStale.MaxVersion
  /\ v2 \in Seq(ProposalState)
  /\ v3 \in {"running", "paused", "failed"}
  /\ v4 \in [Calls -> DeciderState]
  /\ v5 \in [Calls -> RunnerState]
  /\ v6 \in [Calls -> 0..ForStale.MaxVersion]
  /\ v7 \in [approved : SUBSET Approval, superseded : SUBSET Supersession,
             applied : Seq(Supersession)]

LEMMA StaleTypes == (Stale!TypeOK <=> StaleTyped) /\ (Stale!TypeOK' <=> StaleTyped')
  BY DEF Stale!TypeOK, StaleTyped, ProposalState, DeciderState, RunnerState, Approval, Supersession

\* The initial state is as the invariant says.
LEMMA StaleFirst == Stale!Init => Stale!IInv
<1> SUFFICES ASSUME Stale!Init PROVE Stale!IInv
  OBVIOUS
<1>0. ForStale.MaxVersion \in Nat \ {0} /\ ForStale.MaxProposals \in Nat
  BY ServicesAssumption DEF Stale!StaleAssumption
<1>1. v2 = <<>> /\ Len(v2) = 0 /\ DOMAIN v2 = {}
  BY DEF Stale!Init
<1>2. StaleTyped
  BY <1>0 DEF StaleTyped, Stale!Init, ProposalState, DeciderState, RunnerState, Approval,
     Supersession, Stale!IdleDecider, Stale!IdleRunner
<1>3. Stale!SeenBefore /\ Stale!OneStands
  BY <1>0, <1>1 DEF Stale!SeenBefore, Stale!OneStands
<1>4. \A c \in Calls : v4[c].pc = "idle" /\ v5[c].pc = "idle"
  BY DEF Stale!Init, Stale!IdleDecider, Stale!IdleRunner
<1>5. Stale!Deciding /\ Stale!Running
  BY <1>4 DEF Stale!Deciding, Stale!Running
<1>6. Stale!Logged
  BY DEF Stale!Logged, Stale!Init
<1> QED BY <1>2, <1>3, <1>5, <1>6, StaleTypes DEF Stale!IInv

\* A proposal changes its status, and nothing else does.
LEMMA StaleSettles ==
  ASSUME StaleTyped, NEW i \in DOMAIN v2, NEW status \in
           {"proposed", "approved", "rejected", "superseded", "executed"},
         Stale!Settle(i, status)
  PROVE  /\ v2' \in Seq(ProposalState) /\ Len(v2') = Len(v2) /\ DOMAIN v2' = DOMAIN v2
         /\ \A j \in DOMAIN v2 : Stale!Observed(j)' = Stale!Observed(j)
         /\ \A j \in DOMAIN v2 : v2'[j].status = IF j = i THEN status ELSE v2[j].status
<1> DEFINE r == [v2[i] EXCEPT !.status = status]
<1>1. v2[i] \in ProposalState
  BY DEF StaleTyped
<1>2. r \in ProposalState /\ r.status = status /\ r.observed = v2[i].observed
  BY <1>1 DEF ProposalState
<1>3. v2' = [v2 EXCEPT ![i] = r]
  BY DEF Stale!Settle
<1> HIDE DEF r
<1> QED BY <1>2, <1>3 DEF StaleTyped, Stale!Observed

\* While the proposals and the log stay as they are, a decider that moves on, or a
\* newer state, concerns only the deciders.
LEMMA StaleQuiet ==
  ASSUME Stale!IInv, StaleTyped', UNCHANGED <<v2, v7>>, v1 <= v1'
  PROVE  /\ Stale!SeenBefore' /\ Stale!OneStands' /\ Stale!Logged'
         /\ UNCHANGED v5 => Stale!Running'
<1>0. StaleTyped /\ ForStale.MaxVersion \in Nat
  BY ServicesAssumption, StaleTypes DEF Stale!StaleAssumption, Stale!IInv
<1>1. v1 \in Nat /\ v1' \in Nat /\ \A i \in DOMAIN v2 : Stale!Observed(i) \in Nat
  <2>1. v1 \in Nat /\ v1' \in Nat
    BY <1>0 DEF StaleTyped
  <2>2. \A i \in DOMAIN v2 : v2[i] \in ProposalState
    BY <1>0 DEF StaleTyped
  <2> QED BY <1>0, <2>1, <2>2 DEF ProposalState, Stale!Observed
<1>2. Stale!SeenBefore'
  BY <1>1 DEF Stale!IInv, Stale!SeenBefore, Stale!Observed
<1>3. Stale!OneStands' /\ Stale!Logged' /\ (UNCHANGED v5 => Stale!Running')
  BY DEF Stale!IInv, Stale!OneStands, Stale!Logged, Stale!Running, Stale!Observed
<1> QED BY <1>2, <1>3

\* A decider moves to a place of which the invariant says nothing but that it is
\* about a proposal there is.
LEMMA StaleGoes ==
  ASSUME Stale!IInv, NEW d \in Calls, NEW r \in DeciderState,
         v4' = [v4 EXCEPT ![d] = r], UNCHANGED <<v1, v2>>,
         \A c \in Calls \ {d} : v6'[c] = v6[c],
         r.pc # "idle" => r.of \in DOMAIN v2 /\ v6'[d] \in 1..v1,
         r.pc = "approve" => ForStale.Commutes \/ v6'[d] <= Stale!Observed(r.of),
         r.pc = "supersede" => Stale!Observed(r.of) < v1
  PROVE  Stale!Deciding' /\ v4' \in [Calls -> DeciderState]
<1>1. v4 \in [Calls -> DeciderState]
  BY StaleTypes DEF Stale!IInv, StaleTyped
<1>2. v4' \in [Calls -> DeciderState] /\ \A c \in Calls : v4'[c] = IF c = d THEN r ELSE v4[c]
  BY <1>1
<1>3. ASSUME NEW c \in Calls, v4'[c].pc # "idle"
      PROVE  /\ v4'[c].of \in DOMAIN v2' /\ v6'[c] \in 1..v1'
             /\ v4'[c].pc = "approve" => ForStale.Commutes \/ v6'[c] <= v2'[v4'[c].of].observed
             /\ v4'[c].pc = "supersede" => v2'[v4'[c].of].observed < v1'
  <2>1. CASE c = d
    BY <1>2, <1>3, <2>1 DEF Stale!Observed
  <2>2. CASE c # d
    BY <1>2, <1>3, <2>2 DEF Stale!IInv, Stale!Deciding, Stale!Observed
  <2> QED BY <2>1, <2>2
<1> QED BY <1>2, <1>3 DEF Stale!Deciding, Stale!Observed

\* The proposals changed in the status of one that stood: what is said of deciders and
\* versions stays, and that one proposal stands.
LEMMA StaleStatus ==
  ASSUME Stale!IInv, NEW i \in DOMAIN v2, NEW status \in
           {"proposed", "approved", "rejected", "superseded", "executed"},
         Stale!Settle(i, status), v2[i].status \in {"proposed", "approved"}, UNCHANGED v1
  PROVE  Stale!SeenBefore' /\ Stale!OneStands'
<1>1. StaleTyped
  BY StaleTypes DEF Stale!IInv
<1>2. /\ Len(v2') = Len(v2) /\ DOMAIN v2' = DOMAIN v2
      /\ \A j \in DOMAIN v2 : Stale!Observed(j)' = Stale!Observed(j)
      /\ \A j \in DOMAIN v2 : v2'[j].status = IF j = i THEN status ELSE v2[j].status
  BY <1>1, StaleSettles
<1>3. Stale!SeenBefore'
  BY <1>2 DEF Stale!IInv, Stale!SeenBefore
<1>4. Stale!OneStands'
  BY <1>2 DEF Stale!IInv, Stale!OneStands
<1> QED BY <1>3, <1>4

\* Decisions and the passing of time keep the invariant.
LEMMA StaleDecides ==
  ASSUME Stale!IInv, NEW d \in Calls,
         \/ \E i \in 1..ForStale.MaxProposals, to \in {"approved", "rejected"} :
              Stale!AskDecision(d, i, to)
         \/ Stale!LoadVersion(d) \/ Stale!Supersede(d) \/ Stale!Pause(d) \/ Stale!Approve(d)
         \/ Stale!Resume(d) \/ Stale!Reject(d) \/ Stale!Fail(d)
  PROVE  Stale!IInv'
<1>0. StaleTyped /\ ForStale.MaxVersion \in Nat /\ ForStale.MaxProposals \in Nat
  BY ServicesAssumption, StaleTypes DEF Stale!StaleAssumption, Stale!IInv
<1> DEFINE pc == v4[d].pc
           of == v4[d].of
           Moved(w) == [v4[d] EXCEPT !.pc = w]
<1>1. /\ v4 \in [Calls -> DeciderState] /\ v4[d] \in DeciderState /\ v1 \in Nat
      /\ v6 \in [Calls -> 0..ForStale.MaxVersion]
  BY <1>0 DEF StaleTyped
<1>2. \A w \in {"idle", "load", "supersede", "approve", "reject", "pause", "resume", "fail"} :
        Moved(w) \in DeciderState /\ Moved(w).pc = w /\ Moved(w).of = of
  BY <1>1 DEF DeciderState
<1>3. pc # "idle" =>
        /\ of \in DOMAIN v2 /\ v6[d] \in 1..v1
        /\ pc = "approve" => ForStale.Commutes \/ v6[d] <= Stale!Observed(of)
        /\ pc = "supersede" => Stale!Observed(of) < v1
  BY DEF Stale!IInv, Stale!Deciding
<1>4. /\ DOMAIN v2 = 1..Len(v2) /\ Len(v2) \in Nat /\ Len(v2) <= ForStale.MaxProposals
      /\ \A i \in DOMAIN v2 : /\ v2[i] \in ProposalState /\ i \in 1..ForStale.MaxProposals
                              /\ Stale!Observed(i) \in Nat /\ Stale!Observed(i) <= v1
  <2>1. DOMAIN v2 = 1..Len(v2) /\ Len(v2) \in Nat /\ \A i \in DOMAIN v2 : v2[i] \in ProposalState
    BY <1>0 DEF StaleTyped
  <2>2. Len(v2) <= ForStale.MaxProposals /\ \A i \in DOMAIN v2 : Stale!Observed(i) <= v1
    BY DEF Stale!IInv, Stale!SeenBefore
  <2>3. \A i \in DOMAIN v2 : Stale!Observed(i) \in Nat
    BY <1>0, <2>1 DEF ProposalState, Stale!Observed
  <2> QED BY <1>0, <2>1, <2>2, <2>3
<1>5. \A i \in Stale!Live : i \in DOMAIN v2 /\ v2[i].status = "proposed"
  BY DEF Stale!Live
<1>6. /\ Stale!IdleDecider \in DeciderState /\ Stale!IdleDecider.pc = "idle"
  BY <1>0 DEF Stale!IdleDecider, DeciderState
\* A step that leaves the proposals and the log alone.
<1>7. ASSUME NEW r \in DeciderState, v4' = [v4 EXCEPT ![d] = r], UNCHANGED <<v1, v2, v5, v7>>,
             v6' \in [Calls -> 0..ForStale.MaxVersion], v3' \in {"running", "paused", "failed"},
             \A c \in Calls \ {d} : v6'[c] = v6[c],
             r.pc # "idle" => r.of \in DOMAIN v2 /\ v6'[d] \in 1..v1,
             r.pc = "approve" => ForStale.Commutes \/ v6'[d] <= Stale!Observed(r.of),
             r.pc = "supersede" => Stale!Observed(r.of) < v1
      PROVE  Stale!IInv'
  <2>1. Stale!Deciding' /\ v4' \in [Calls -> DeciderState]
    BY <1>7, StaleGoes
  <2>2. StaleTyped'
    BY <1>0, <1>7, <2>1 DEF StaleTyped
  <2>3. Stale!SeenBefore' /\ Stale!OneStands' /\ Stale!Logged' /\ Stale!Running'
    BY <1>1, <1>7, <2>2, StaleQuiet
  <2> QED BY <2>1, <2>2, <2>3, StaleTypes DEF Stale!IInv
\* A step that settles a waiting proposal.
<1>8. ASSUME of \in Stale!Live, pc # "idle", NEW status \in {"approved", "rejected", "superseded"},
             Stale!Settle(of, status), NEW w \in {"resume", "fail", "pause"}, Stale!Go(d, w),
             UNCHANGED <<v1, v3, v5, v6>>,
             v7'.applied = v7.applied, v7' \in [approved : SUBSET Approval,
               superseded : SUBSET Supersession, applied : Seq(Supersession)],
             \A a \in v7'.approved \ v7.approved :
               a.of \in DOMAIN v2 /\ (ForStale.Commutes \/ Stale!Observed(a.of) \in a.from..a.by),
             \A s \in v7'.superseded \ v7.superseded :
               s.of \in DOMAIN v2 /\ s.at # Stale!Observed(s.of)
      PROVE  Stale!IInv'
  <2>1. /\ v2' \in Seq(ProposalState) /\ Len(v2') = Len(v2) /\ DOMAIN v2' = DOMAIN v2
        /\ \A j \in DOMAIN v2 : v2'[j].observed = v2[j].observed
        /\ \A j \in DOMAIN v2 : v2'[j].status = IF j = of THEN status ELSE v2[j].status
    <3>1. /\ v2' \in Seq(ProposalState) /\ Len(v2') = Len(v2) /\ DOMAIN v2' = DOMAIN v2
          /\ \A j \in DOMAIN v2 : Stale!Observed(j)' = Stale!Observed(j)
          /\ \A j \in DOMAIN v2 : v2'[j].status = IF j = of THEN status ELSE v2[j].status
      BY <1>0, <1>3, <1>8, StaleSettles
    <3> QED BY <3>1 DEF Stale!Observed
  <2>2. v4' = [v4 EXCEPT ![d] = Moved(w)]
    BY <1>8 DEF Stale!Go
  <2>3. Stale!SeenBefore' /\ Stale!OneStands'
    BY <1>3, <1>5, <1>8, StaleStatus
  <2>4. v4' \in [Calls -> DeciderState] /\ \A c \in Calls : v4'[c] = IF c = d THEN Moved(w) ELSE v4[c]
    BY <1>1, <1>2, <1>8, <2>2
  <2>5. Stale!Deciding'
    <3>1. ASSUME NEW c \in Calls, v4'[c].pc # "idle"
          PROVE  /\ v4'[c].of \in DOMAIN v2' /\ v6'[c] \in 1..v1'
                 /\ v4'[c].pc = "approve" => ForStale.Commutes \/ v6'[c] <= v2'[v4'[c].of].observed
                 /\ v4'[c].pc = "supersede" => v2'[v4'[c].of].observed < v1'
      <4>1. CASE c = d
        <5>1. v4'[c].pc = w /\ v4'[c].of = of
          BY <1>2, <1>8, <2>4, <4>1
        <5> QED BY <1>3, <1>8, <2>1, <4>1, <5>1
      <4>2. CASE c # d
        BY <1>8, <2>1, <2>4, <3>1, <4>2 DEF Stale!IInv, Stale!Deciding, Stale!Observed
      <4> QED BY <4>1, <4>2
    <3> QED BY <3>1 DEF Stale!Deciding, Stale!Observed
  <2>6. Stale!Running'
    <3>1. ASSUME NEW r \in Calls, v5[r].pc # "idle"
          PROVE  /\ v5[r].of \in DOMAIN v2'
                 /\ ForStale.Expects = "observed" => v5[r].expected = v2'[v5[r].of].observed
      BY <2>1, <3>1 DEF Stale!IInv, Stale!Running, Stale!Observed
    <3>2. ASSUME NEW r \in Calls, v5[r].pc = "commit"
          PROVE  v2'[v5[r].of].status = "executed" /\ v7'.applied = <<>>
      BY <1>5, <1>8, <2>1, <3>2 DEF Stale!IInv, Stale!Running
    <3> QED BY <1>8, <3>1, <3>2 DEF Stale!IInv, Stale!Running, Stale!Observed
  <2>7. Stale!Logged'
    <3>1. \A a \in v7'.approved :
            a.of \in DOMAIN v2' /\ (ForStale.Commutes \/ v2'[a.of].observed \in a.from..a.by)
      BY <1>8, <2>1 DEF Stale!IInv, Stale!Logged, Stale!Observed
    <3>2. \A s \in v7'.superseded : s.of \in DOMAIN v2' /\ s.at # v2'[s.of].observed
      BY <1>8, <2>1 DEF Stale!IInv, Stale!Logged, Stale!Observed
    <3>3. /\ Len(v7'.applied) <= 1
          /\ \A k \in DOMAIN v7'.applied :
               LET i == v7'.applied[k].of
               IN /\ i \in DOMAIN v2' /\ v2'[i].status = "executed"
                  /\ ForStale.Expects = "observed" =>
                       ForStale.Commutes \/ v7'.applied[k].at = v2'[i].observed
      <4>1. v2[of].status = "proposed" /\ v7'.applied = v7.applied
        BY <1>5, <1>8
      <4>2. ASSUME NEW k \in DOMAIN v7.applied
            PROVE  LET i == v7.applied[k].of
                   IN /\ i \in DOMAIN v2 /\ v2[i].status = "executed"
                      /\ ForStale.Expects = "observed" =>
                           ForStale.Commutes \/ v7.applied[k].at = v2[i].observed
        BY DEF Stale!IInv, Stale!Logged, Stale!Observed
      <4>3. ASSUME NEW k \in DOMAIN v7.applied
            PROVE  v2'[v7.applied[k].of].status = "executed"
        BY <2>1, <4>1, <4>2
      <4>4. Len(v7.applied) <= 1
        BY DEF Stale!IInv, Stale!Logged
      <4> QED BY <2>1, <4>1, <4>2, <4>3, <4>4
    <3> QED BY <3>1, <3>2, <3>3 DEF Stale!Logged, Stale!Observed
  <2>8. StaleTyped'
    BY <1>0, <1>8, <2>1, <2>4 DEF StaleTyped
  <2> QED BY <2>3, <2>5, <2>6, <2>7, <2>8, StaleTypes DEF Stale!IInv
<1>9. CASE \E i \in 1..ForStale.MaxProposals, to \in {"approved", "rejected"} :
               Stale!AskDecision(d, i, to)
  <2> SUFFICES ASSUME NEW i \in 1..ForStale.MaxProposals, NEW to \in {"approved", "rejected"},
                      Stale!AskDecision(d, i, to)
               PROVE  Stale!IInv'
    BY <1>9
  <2> DEFINE r == [pc |-> IF to = "approved" THEN "load" ELSE "reject", of |-> i, to |-> to]
  <2>1. /\ v4' = [v4 EXCEPT ![d] = r] /\ UNCHANGED <<v1, v2, v3, v5, v7>> /\ i \in DOMAIN v2
        /\ v6' = [v6 EXCEPT ![d] = v1]
    BY <1>5 DEF Stale!AskDecision
  <2>2. r \in DeciderState /\ r.of = i /\ r.pc \in {"load", "reject"}
    BY DEF DeciderState
  <2>3. v1 \in 1..ForStale.MaxVersion /\ v3 \in {"running", "paused", "failed"}
    BY <1>0 DEF StaleTyped
  <2>4. /\ v6' \in [Calls -> 0..ForStale.MaxVersion] /\ v6'[d] = v1
        /\ \A c \in Calls \ {d} : v6'[c] = v6[c]
    BY <1>0, <1>1, <2>1, <2>3
  <2>5. v6'[d] \in 1..v1
    BY <1>0, <2>3, <2>4
  <2>6. r.pc # "approve" /\ r.pc # "supersede" /\ r.of \in DOMAIN v2
    BY <2>1, <2>2
  <2> HIDE DEF r
  <2> QED BY <1>7, <2>1, <2>2, <2>3, <2>4, <2>5, <2>6
<1>10. ASSUME Stale!LoadVersion(d) PROVE Stale!IInv'
  <2>1. CASE Stale!Stale(of)
    <3>1. v4' = [v4 EXCEPT ![d] = Moved("supersede")] /\ pc = "load" /\ UNCHANGED <<v1, v2, v3, v5, v6, v7>>
      BY <1>10, <2>1 DEF Stale!LoadVersion, Stale!Go, Stale!At
    <3>2. Stale!Observed(of) < v1
      BY <1>1, <1>3, <1>4, <2>1, <3>1 DEF Stale!Stale, Stale!Observed
    <3> QED BY <1>0, <1>2, <1>3, <1>7, <3>1, <3>2 DEF StaleTyped
  <2>2. CASE ~Stale!Stale(of)
    <3>1. v4' = [v4 EXCEPT ![d] = Moved("approve")] /\ pc = "load" /\ UNCHANGED <<v1, v2, v3, v5, v6, v7>>
      BY <1>10, <2>2 DEF Stale!LoadVersion, Stale!Go, Stale!At
    <3>2. ForStale.Commutes \/ v6[d] <= Stale!Observed(of)
      BY <1>1, <1>3, <1>4, <2>2, <3>1 DEF Stale!Stale, Stale!Observed
    <3> QED BY <1>0, <1>2, <1>3, <1>7, <3>1, <3>2 DEF StaleTyped
  <2> QED BY <2>1, <2>2
\* The decider is done.
<1>11. ASSUME Stale!Leave(d), UNCHANGED <<v1, v2, v5, v7>>, v3' \in {"running", "paused", "failed"}
       PROVE  Stale!IInv'
  <2>1. /\ v4' = [v4 EXCEPT ![d] = Stale!IdleDecider] /\ v6' \in [Calls -> 0..ForStale.MaxVersion]
        /\ \A c \in Calls \ {d} : v6'[c] = v6[c]
    BY <1>0, <1>1, <1>11 DEF Stale!Leave
  <2> QED BY <1>6, <1>7, <1>11, <2>1
<1>12. CASE Stale!Pause(d) \/ Stale!Resume(d) \/ Stale!Fail(d)
  BY <1>0, <1>11, <1>12 DEF Stale!Pause, Stale!Resume, Stale!Fail, StaleTyped
<1>13. ASSUME Stale!Supersede(d) PROVE Stale!IInv'
  <2>1. pc = "supersede" /\ Stale!Go(d, "pause") /\ UNCHANGED <<v1, v3, v5, v6>>
    BY <1>13 DEF Stale!Supersede, Stale!At
  <2>2. CASE of \in Stale!Live
    <3> DEFINE s == [of |-> of, at |-> v1]
    <3>1. Stale!Settle(of, "superseded") /\ v7' = [v7 EXCEPT !.superseded = @ \cup {s}]
      BY <1>13, <2>2 DEF Stale!Supersede
    <3>2. s \in Supersession /\ s.of \in DOMAIN v2 /\ s.at # Stale!Observed(s.of)
      <4>1. v1 \in 1..ForStale.MaxVersion
        BY <1>0 DEF StaleTyped
      <4> QED BY <1>1, <1>3, <1>4, <2>1, <4>1 DEF Supersession
    <3> HIDE DEF s
    <3>3. /\ v7'.applied = v7.applied /\ v7'.approved = v7.approved
          /\ v7'.superseded = v7.superseded \cup {s}
          /\ v7' \in [approved : SUBSET Approval, superseded : SUBSET Supersession,
                       applied : Seq(Supersession)]
      BY <1>0, <3>1, <3>2 DEF StaleTyped
    <3> QED BY <1>8, <2>1, <2>2, <3>1, <3>2, <3>3
  <2>3. CASE of \notin Stale!Live
    <3>1. v4' = [v4 EXCEPT ![d] = Moved("pause")] /\ UNCHANGED <<v2, v7>>
      BY <1>13, <2>3 DEF Stale!Supersede, Stale!Go
    <3> QED BY <1>0, <1>2, <1>3, <1>7, <2>1, <3>1 DEF StaleTyped
  <2> QED BY <2>2, <2>3
<1>14. ASSUME Stale!Approve(d) PROVE Stale!IInv'
  <2>1. pc = "approve" /\ UNCHANGED <<v1, v3, v5>>
    BY <1>14 DEF Stale!Approve, Stale!At
  <2>2. CASE of \in Stale!Live
    <3> DEFINE a == [of |-> of, from |-> v6[d], by |-> v1]
    <3>1. /\ Stale!Settle(of, "approved") /\ v7' = [v7 EXCEPT !.approved = @ \cup {a}]
          /\ Stale!Go(d, "resume") /\ UNCHANGED v6
      BY <1>14, <2>2 DEF Stale!Approve
    <3>2. /\ a \in Approval /\ a.of \in DOMAIN v2
          /\ ForStale.Commutes \/ Stale!Observed(a.of) \in a.from..a.by
      <4>1. v1 \in 1..ForStale.MaxVersion /\ v6[d] \in 0..ForStale.MaxVersion
        BY <1>0 DEF StaleTyped
      <4>2. v6[d] \in 1..ForStale.MaxVersion /\ of \in DOMAIN v2 /\ of \in 1..ForStale.MaxProposals
        BY <1>0, <1>1, <1>3, <1>4, <2>1, <4>1
      <4>3. ForStale.Commutes \/ Stale!Observed(of) \in v6[d]..v1
        BY <1>1, <1>3, <1>4, <2>1, <4>2
      <4> QED BY <4>1, <4>2, <4>3 DEF Approval
    <3> HIDE DEF a
    <3>3. /\ v7'.applied = v7.applied /\ v7'.superseded = v7.superseded
          /\ v7'.approved = v7.approved \cup {a}
          /\ v7' \in [approved : SUBSET Approval, superseded : SUBSET Supersession,
                       applied : Seq(Supersession)]
      BY <1>0, <3>1, <3>2 DEF StaleTyped
    <3> QED BY <1>8, <2>1, <2>2, <3>1, <3>2, <3>3
  <2>3. CASE of \notin Stale!Live
    BY <1>0, <1>11, <1>14, <2>1, <2>3 DEF Stale!Approve, StaleTyped
  <2> QED BY <2>2, <2>3
<1>15. ASSUME Stale!Reject(d) PROVE Stale!IInv'
  <2>1. pc = "reject" /\ UNCHANGED <<v1, v3, v5, v7>>
    BY <1>15 DEF Stale!Reject, Stale!At
  <2>2. CASE of \in Stale!Live
    BY <1>0, <1>8, <1>15, <2>1, <2>2 DEF Stale!Reject, StaleTyped
  <2>3. CASE of \notin Stale!Live
    BY <1>0, <1>11, <1>15, <2>1, <2>3 DEF Stale!Reject, StaleTyped
  <2> QED BY <2>2, <2>3
<1> QED BY <1>9, <1>10, <1>12, <1>13, <1>14, <1>15

\* A runner goes on; the proposals keep their places and what was observed.
LEMMA StaleRuns ==
  ASSUME Stale!IInv, NEW q \in Calls, NEW r \in RunnerState, v5' = [v5 EXCEPT ![q] = r],
         DOMAIN v2' = DOMAIN v2, \A i \in DOMAIN v2 : v2'[i].observed = v2[i].observed,
         \A i \in DOMAIN v2 : v2[i].status = "executed" => v2'[i].status = "executed",
         UNCHANGED v7,
         r.pc # "idle" =>
           /\ r.of \in DOMAIN v2
           /\ ForStale.Expects = "observed" => r.expected = v2[r.of].observed,
         r.pc = "commit" =>
           /\ v2'[r.of].status = "executed" /\ v7.applied = <<>>
           /\ \A c \in Calls : v5[c].pc # "commit"
  PROVE  Stale!Running' /\ v5' \in [Calls -> RunnerState]
<1>1. v5 \in [Calls -> RunnerState]
  BY StaleTypes DEF Stale!IInv, StaleTyped
<1>2. v5' \in [Calls -> RunnerState] /\ \A c \in Calls : v5'[c] = IF c = q THEN r ELSE v5[c]
  BY <1>1
<1>3. ASSUME NEW c \in Calls, v5'[c].pc # "idle"
      PROVE  /\ v5'[c].of \in DOMAIN v2'
             /\ ForStale.Expects = "observed" => v5'[c].expected = v2'[v5'[c].of].observed
  <2>1. CASE c = q
    BY <1>2, <1>3, <2>1
  <2>2. CASE c # q
    BY <1>2, <1>3, <2>2 DEF Stale!IInv, Stale!Running, Stale!Observed
  <2> QED BY <2>1, <2>2
<1>4. ASSUME NEW c \in Calls, v5'[c].pc = "commit"
      PROVE  v2'[v5'[c].of].status = "executed" /\ v7'.applied = <<>>
  <2>1. CASE c = q
    BY <1>2, <1>4, <2>1
  <2>2. CASE c # q
    BY <1>2, <1>4, <2>2 DEF Stale!IInv, Stale!Running
  <2> QED BY <2>1, <2>2
<1>5. \A b, c \in Calls : v5'[b].pc = "commit" /\ v5'[c].pc = "commit" => b = c
  BY <1>2 DEF Stale!IInv, Stale!Running
<1> QED BY <1>2, <1>3, <1>4, <1>5 DEF Stale!Running, Stale!Observed

\* Carrying an approved action out keeps the invariant.
LEMMA StaleCarriesOut ==
  ASSUME Stale!IInv, NEW q \in Calls,
         \/ \E i \in 1..ForStale.MaxProposals : Stale!Start(q, i)
         \/ Stale!Claim(q) \/ Stale!CommitApproved(q)
  PROVE  Stale!IInv'
<1>0. StaleTyped /\ ForStale.MaxVersion \in Nat /\ ForStale.MaxProposals \in Nat
  BY ServicesAssumption, StaleTypes DEF Stale!StaleAssumption, Stale!IInv
<1>1. /\ v5 \in [Calls -> RunnerState] /\ v5[q] \in RunnerState
      /\ v1 \in 1..ForStale.MaxVersion /\ v1 \in Nat
  BY <1>0 DEF StaleTyped
<1>2. /\ DOMAIN v2 = 1..Len(v2) /\ Len(v2) \in Nat /\ Len(v2) <= ForStale.MaxProposals
      /\ \A i \in DOMAIN v2 : v2[i] \in ProposalState
  BY <1>0 DEF StaleTyped, Stale!IInv, Stale!SeenBefore
<1>3. Stale!IdleRunner \in RunnerState /\ Stale!IdleRunner.pc = "idle"
  BY <1>0 DEF Stale!IdleRunner, RunnerState
<1>4. v5[q].pc # "idle" =>
        /\ v5[q].of \in DOMAIN v2
        /\ ForStale.Expects = "observed" => v5[q].expected = v2[v5[q].of].observed
  BY DEF Stale!IInv, Stale!Running, Stale!Observed
\* The runner moves, and nothing else.
<1>5. ASSUME NEW r \in RunnerState, v5' = [v5 EXCEPT ![q] = r], UNCHANGED <<v1, v2, v3, v4, v6, v7>>,
             r.pc # "commit",
             r.pc # "idle" =>
               /\ r.of \in DOMAIN v2
               /\ ForStale.Expects = "observed" => r.expected = v2[r.of].observed
      PROVE  Stale!IInv'
  <2>1. Stale!Running' /\ v5' \in [Calls -> RunnerState]
    BY <1>5, StaleRuns
  <2>2. StaleTyped'
    BY <1>0, <1>5, <2>1 DEF StaleTyped
  <2>3. Stale!SeenBefore' /\ Stale!OneStands' /\ Stale!Logged'
    BY <1>1, <1>5, <2>2, StaleQuiet
  <2>4. Stale!Deciding'
    BY <1>5 DEF Stale!IInv, Stale!Deciding, Stale!Observed
  <2> QED BY <2>1, <2>2, <2>3, <2>4, StaleTypes DEF Stale!IInv
<1>6. CASE \E i \in 1..ForStale.MaxProposals : Stale!Start(q, i)
  <2> SUFFICES ASSUME NEW i \in 1..ForStale.MaxProposals, Stale!Start(q, i) PROVE Stale!IInv'
    BY <1>6
  <2> DEFINE r == [pc |-> "claim", of |-> i,
                   expected |-> IF ForStale.Expects = "observed" THEN v2[i].observed ELSE v1]
  <2>1. v5' = [v5 EXCEPT ![q] = r] /\ UNCHANGED <<v1, v2, v3, v4, v6, v7>> /\ i \in DOMAIN v2
    BY DEF Stale!Start
  <2>2. v2[i].observed \in 1..ForStale.MaxVersion
    BY <1>2, <2>1 DEF ProposalState
  <2>3. /\ r \in RunnerState /\ r.pc = "claim" /\ r.of = i
        /\ ForStale.Expects = "observed" => r.expected = v2[i].observed
    BY <1>0, <1>1, <2>2 DEF RunnerState
  <2> HIDE DEF r
  <2> QED BY <1>5, <2>1, <2>3
<1>7. ASSUME Stale!Claim(q) PROVE Stale!IInv'
  <2> DEFINE of == v5[q].of
             r == [v5[q] EXCEPT !.pc = "commit"]
  <2>1. v5[q].pc = "claim" /\ UNCHANGED <<v1, v3, v4, v6, v7>>
    BY <1>7 DEF Stale!Claim
  <2>2. CASE v2[of].status = "approved"
    <3>1. Stale!Settle(of, "executed") /\ v5' = [v5 EXCEPT ![q] = r]
      BY <1>1, <1>7, <2>2 DEF Stale!Claim
    <3>2. /\ v2' \in Seq(ProposalState) /\ DOMAIN v2' = DOMAIN v2
          /\ \A j \in DOMAIN v2 : v2'[j].observed = v2[j].observed
          /\ \A j \in DOMAIN v2 : v2'[j].status = IF j = of THEN "executed" ELSE v2[j].status
      BY <1>0, <1>4, <2>1, <3>1, StaleSettles DEF Stale!Observed
    <3>3. r \in RunnerState /\ r.pc = "commit" /\ r.of = of /\ r.expected = v5[q].expected
      BY <1>1 DEF RunnerState
    <3>4. \A i \in DOMAIN v2 : v2[i].status # "executed"
      BY <1>4, <2>1, <2>2 DEF Stale!IInv, Stale!OneStands
    <3>5. \A c \in Calls : v5[c].pc # "commit"
      BY <3>4 DEF Stale!IInv, Stale!Running
    <3>6. v7.applied = <<>>
      <4>1. \A k \in DOMAIN v7.applied : FALSE
        BY <3>4 DEF Stale!IInv, Stale!Logged
      <4>2. v7.applied \in Seq(Supersession)
        BY <1>0 DEF StaleTyped
      <4>3. Len(v7.applied) \in Nat /\ DOMAIN v7.applied = 1..Len(v7.applied)
        BY <4>2
      <4>4. Len(v7.applied) = 0
        BY <4>1, <4>3
      <4> QED BY <4>2, <4>4
    <3> HIDE DEF r
    <3>7. Stale!Running' /\ v5' \in [Calls -> RunnerState]
      BY <1>4, <2>1, <3>1, <3>2, <3>3, <3>5, <3>6, StaleRuns
    <3>8. Stale!SeenBefore' /\ Stale!OneStands'
      BY <1>4, <2>1, <2>2, <3>1, StaleStatus
    <3>9. Stale!Deciding'
      BY <2>1, <3>2 DEF Stale!IInv, Stale!Deciding, Stale!Observed
    <3>10. Stale!Logged'
      BY <2>1, <3>2, <3>6 DEF Stale!IInv, Stale!Logged, Stale!Observed
    <3>11. StaleTyped'
      BY <1>0, <2>1, <3>2, <3>7 DEF StaleTyped
    <3> QED BY <3>7, <3>8, <3>9, <3>10, <3>11, StaleTypes DEF Stale!IInv
  <2>3. CASE v2[of].status # "approved"
    BY <1>3, <1>5, <1>7, <2>1, <2>3 DEF Stale!Claim
  <2> QED BY <2>2, <2>3
<1>8. ASSUME Stale!CommitApproved(q) PROVE Stale!IInv'
  <2>1. v5[q].pc = "commit" /\ v5' = [v5 EXCEPT ![q] = Stale!IdleRunner] /\ UNCHANGED <<v2, v3, v4, v6>>
    BY <1>8 DEF Stale!CommitApproved
  <2>2. CASE v1 < ForStale.MaxVersion /\ (ForStale.Commutes \/ v5[q].expected = v1)
    <3> DEFINE e == [of |-> v5[q].of, at |-> v1]
    <3>1. v7' = [v7 EXCEPT !.applied = Append(@, e)] /\ v1' = v1 + 1
      BY <1>8, <2>2 DEF Stale!CommitApproved
    <3>2. e \in Supersession
      <4>1. v5[q].of \in DOMAIN v2
        BY <1>4, <2>1
      <4>2. v5[q].of \in 1..ForStale.MaxProposals
        BY <1>0, <1>2, <4>1
      <4> QED BY <1>1, <4>2 DEF Supersession
    <3>3. v7.applied = <<>> /\ v2[e.of].status = "executed" /\ e.of \in DOMAIN v2
      BY <1>4, <2>1 DEF Stale!IInv, Stale!Running
    <3>4. ForStale.Expects = "observed" => ForStale.Commutes \/ e.at = v2[e.of].observed
      BY <1>4, <2>1, <2>2
    <3> HIDE DEF e
    <3>5. /\ v7'.applied = <<e>> /\ v7'.approved = v7.approved /\ v7'.superseded = v7.superseded
          /\ v7' \in [approved : SUBSET Approval, superseded : SUBSET Supersession,
                       applied : Seq(Supersession)]
      <4>1. Append(<<>>, e) = <<e>> /\ <<e>> \in Seq(Supersession)
        BY <3>2
      <4>2. /\ v7 \in [approved : SUBSET Approval, superseded : SUBSET Supersession,
                        applied : Seq(Supersession)]
            /\ v7' = [v7 EXCEPT !.applied = <<e>>]
        BY <1>0, <3>1, <3>3, <4>1 DEF StaleTyped
      <4> QED BY <4>1, <4>2
    <3>6. \A c \in Calls : v5'[c] = IF c = q THEN Stale!IdleRunner ELSE v5[c]
      BY <1>1, <2>1
    <3>7. \A c \in Calls : v5'[c].pc # "commit"
      BY <1>3, <2>1, <3>6 DEF Stale!IInv, Stale!Running
    <3>8. Stale!Running'
      BY <1>3, <2>1, <3>6, <3>7 DEF Stale!IInv, Stale!Running, Stale!Observed
    <3>9. Stale!Logged'
      <4>1. Len(<<e>>) <= 1 /\ \A k \in DOMAIN <<e>> : <<e>>[k] = e
        OBVIOUS
      <4> QED BY <2>1, <3>3, <3>4, <3>5, <4>1 DEF Stale!IInv, Stale!Logged, Stale!Observed
    <3>10. Stale!OneStands' /\ v1 <= v1' /\ v1' \in 1..ForStale.MaxVersion
      BY <1>0, <1>1, <2>1, <2>2, <3>1 DEF Stale!IInv, Stale!OneStands
    <3>11. Stale!SeenBefore' /\ Stale!Deciding'
      <4>1. \A i \in DOMAIN v2 : v2[i].observed \in Nat
        BY <1>0, <1>2 DEF ProposalState
      <4>2. \A c \in Calls : v6[c] \in 0..ForStale.MaxVersion
        BY <1>0 DEF StaleTyped
      <4>3. Stale!SeenBefore'
        BY <1>1, <2>1, <3>1, <4>1 DEF Stale!IInv, Stale!SeenBefore, Stale!Observed
      <4>4. ASSUME NEW c \in Calls, v4[c].pc # "idle"
            PROVE  /\ v4[c].of \in DOMAIN v2 /\ v6[c] \in 1..(v1 + 1)
                   /\ v4[c].pc = "approve" => ForStale.Commutes \/ v6[c] <= v2[v4[c].of].observed
                   /\ v4[c].pc = "supersede" => v2[v4[c].of].observed < v1 + 1
        BY <1>1, <4>1, <4>2, <4>4 DEF Stale!IInv, Stale!Deciding, Stale!Observed
      <4> QED BY <2>1, <3>1, <4>3, <4>4 DEF Stale!Deciding, Stale!Observed
    <3>12. v5' \in [Calls -> RunnerState]
      BY <1>1, <1>3, <2>1
    <3>13. StaleTyped'
      BY <1>0, <2>1, <3>5, <3>10, <3>12 DEF StaleTyped
    <3> QED BY <3>8, <3>9, <3>10, <3>11, <3>13, StaleTypes DEF Stale!IInv
  <2>3. CASE ~(v1 < ForStale.MaxVersion /\ (ForStale.Commutes \/ v5[q].expected = v1))
    BY <1>3, <1>5, <1>8, <2>1, <2>3 DEF Stale!CommitApproved
  <2> QED BY <2>2, <2>3
<1> QED BY <1>6, <1>7, <1>8

\* Every step keeps the invariant.
LEMMA StaleInductive ==
  ASSUME Stale!IInv, [Stale!Next]_(Stale!vars)
  PROVE  Stale!IInv'
<1>0. StaleTyped /\ ForStale.MaxVersion \in Nat /\ ForStale.MaxProposals \in Nat
  BY ServicesAssumption, StaleTypes DEF Stale!StaleAssumption, Stale!IInv
<1>1. v1 \in 1..ForStale.MaxVersion /\ v1 \in Nat
  BY <1>0 DEF StaleTyped
<1>2. /\ DOMAIN v2 = 1..Len(v2) /\ Len(v2) \in Nat
      /\ \A i \in DOMAIN v2 : v2[i] \in ProposalState
  BY <1>0 DEF StaleTyped
<1>3. ASSUME Stale!Advance PROVE Stale!IInv'
  <2>1. v1' = v1 + 1 /\ v1' \in 1..ForStale.MaxVersion /\ v1 <= v1' /\ UNCHANGED <<v2, v3, v4, v5, v6, v7>>
    BY <1>0, <1>1, <1>3 DEF Stale!Advance
  <2>2. StaleTyped'
    BY <1>0, <2>1 DEF StaleTyped
  <2>3. Stale!SeenBefore' /\ Stale!OneStands' /\ Stale!Logged' /\ Stale!Running'
    BY <2>1, <2>2, StaleQuiet
  <2>4. \A i \in DOMAIN v2 : v2[i].observed \in Nat
    BY <1>0, <1>2 DEF ProposalState
  <2>5. \A c \in Calls : v6[c] \in 0..ForStale.MaxVersion
    BY <1>0 DEF StaleTyped
  <2>6. ASSUME NEW c \in Calls, v4[c].pc # "idle"
        PROVE  /\ v4[c].of \in DOMAIN v2 /\ v6[c] \in 1..(v1 + 1)
               /\ v4[c].pc = "approve" => ForStale.Commutes \/ v6[c] <= v2[v4[c].of].observed
               /\ v4[c].pc = "supersede" => v2[v4[c].of].observed < v1 + 1
    BY <1>1, <2>4, <2>5, <2>6 DEF Stale!IInv, Stale!Deciding, Stale!Observed
  <2>7. Stale!Deciding'
    BY <2>1, <2>6 DEF Stale!Deciding, Stale!Observed
  <2> QED BY <2>2, <2>3, <2>7, StaleTypes DEF Stale!IInv
<1>4. ASSUME Stale!Propose PROVE Stale!IInv'
  <2> DEFINE p == [status |-> "proposed", observed |-> v1]
  <2>1. /\ v2' = Append(v2, p) /\ v3' = "paused" /\ UNCHANGED <<v1, v4, v5, v6, v7>>
        /\ Len(v2) < ForStale.MaxProposals
        /\ \A i \in DOMAIN v2 : v2[i].status \notin {"proposed", "approved", "executed"}
    BY <1>4 DEF Stale!Propose, Stale!Live, Stale!Decided
  <2>2. p \in ProposalState /\ p.observed = v1
    BY <1>1 DEF ProposalState
  <2> HIDE DEF p
  <2>3. /\ v2' \in Seq(ProposalState) /\ Len(v2') = Len(v2) + 1 /\ DOMAIN v2' = 1..(Len(v2) + 1)
        /\ \A i \in DOMAIN v2 : i \in DOMAIN v2' /\ v2'[i] = v2[i]
        /\ v2'[Len(v2) + 1] = p
    BY <1>0, <1>2, <2>1, <2>2 DEF StaleTyped
  <2>4. StaleTyped'
    BY <1>0, <2>1, <2>3 DEF StaleTyped
  <2>5. \A i \in DOMAIN v2' : i \in DOMAIN v2 \/ (v2'[i] = p /\ i = Len(v2) + 1)
    BY <1>2, <2>3
  <2>6. Stale!SeenBefore'
    <3>1. Len(v2') <= ForStale.MaxProposals
      BY <1>0, <1>2, <2>1, <2>3
    <3>2. \A i \in DOMAIN v2' : v2'[i].observed <= v1
      BY <1>1, <2>2, <2>3, <2>5 DEF Stale!IInv, Stale!SeenBefore, Stale!Observed
    <3> QED BY <2>1, <3>1, <3>2 DEF Stale!SeenBefore, Stale!Observed
  <2>7. Stale!OneStands'
    <3>1. \A i \in DOMAIN v2' :
            v2'[i].status \in {"proposed", "approved", "executed"} => i = Len(v2) + 1
      BY <2>1, <2>3, <2>5
    <3> QED BY <3>1 DEF Stale!OneStands
  <2>8. Stale!Deciding'
    <3>1. ASSUME NEW c \in Calls, v4[c].pc # "idle"
          PROVE  /\ v4[c].of \in DOMAIN v2' /\ v6[c] \in 1..v1
                 /\ v4[c].pc = "approve" => ForStale.Commutes \/ v6[c] <= v2'[v4[c].of].observed
                 /\ v4[c].pc = "supersede" => v2'[v4[c].of].observed < v1
      BY <2>3, <3>1 DEF Stale!IInv, Stale!Deciding, Stale!Observed
    <3> QED BY <2>1, <3>1 DEF Stale!Deciding, Stale!Observed
  <2>9. Stale!Running'
    <3>1. ASSUME NEW c \in Calls, v5[c].pc # "idle"
          PROVE  /\ v5[c].of \in DOMAIN v2'
                 /\ ForStale.Expects = "observed" => v5[c].expected = v2'[v5[c].of].observed
                 /\ v5[c].pc = "commit" => v2'[v5[c].of].status = "executed" /\ v7.applied = <<>>
      BY <2>3, <3>1 DEF Stale!IInv, Stale!Running, Stale!Observed
    <3> QED BY <2>1, <3>1 DEF Stale!IInv, Stale!Running, Stale!Observed
  <2>10. Stale!Logged'
    <3>1. \A k \in DOMAIN v7.applied : FALSE
      BY <2>1 DEF Stale!IInv, Stale!Logged
    <3>2. \A a \in v7.approved :
            a.of \in DOMAIN v2' /\ (ForStale.Commutes \/ v2'[a.of].observed \in a.from..a.by)
      BY <2>3 DEF Stale!IInv, Stale!Logged, Stale!Observed
    <3>3. \A s \in v7.superseded : s.of \in DOMAIN v2' /\ s.at # v2'[s.of].observed
      BY <2>3 DEF Stale!IInv, Stale!Logged, Stale!Observed
    <3> QED BY <2>1, <3>1, <3>2, <3>3 DEF Stale!IInv, Stale!Logged, Stale!Observed
  <2> QED BY <2>4, <2>6, <2>7, <2>8, <2>9, <2>10, StaleTypes DEF Stale!IInv
<1>5. CASE UNCHANGED Stale!vars
  BY <1>5 DEF Stale!vars, Stale!IInv, Stale!TypeOK, Stale!SeenBefore, Stale!OneStands,
     Stale!Deciding, Stale!Running, Stale!Logged, Stale!Observed
<1> QED BY <1>3, <1>4, <1>5, StaleDecides, StaleCarriesOut DEF Stale!Next

\* An approval commits only what its approver saw, if only at some moment of the
\* request; only a state that moved on supersedes; and an operation is applied at most
\* once, to the version its proposal observed, however many decisions and calls carry
\* it out at the same time (approveWithReconciliation, executeActionPipeline).  The
\* caller commits against the version observed: with the current one the second
\* sentence of index.ts:804 fails.
THEOREM ApprovedAsItWasSeen ==
  ASSUME ForStale.Expects = "observed"
  PROVE  Services => []ApprovedAsSeen
<1> DEFINE Kept == running = "stale" => Stale!IInv
<1>1. ServicesInit => Kept
  BY StaleAlone, StaleFirst
<1>2. Kept /\ [ServicesNext]_<<running, vars, slots>> => Kept'
  <2> SUFFICES ASSUME Kept, [ServicesNext]_<<running, vars, slots>>, running' = "stale"
               PROVE  Stale!IInv'
    OBVIOUS
  <2>1. running = "stale"
    BY DEF ServicesNext, In
  <2> QED BY <2>1, StaleAlone, StaleInductive
<1>3. Kept => ApprovedAsSeen
  <2> SUFFICES ASSUME Stale!IInv PROVE Stale!TypeOK /\ Stale!ApprovedAsSeen /\ Stale!NeverAppliedToNewer
    BY DEF ApprovedAsSeen
  <2>1. Stale!TypeOK /\ Stale!ApprovedAsSeen
    BY DEF Stale!IInv, Stale!ApprovedAsSeen, Stale!Logged, Stale!Observed
  <2>2. Stale!NeverAppliedToNewer
    BY DEF Stale!IInv, Stale!NeverAppliedToNewer, Stale!Logged, Stale!Observed
  <2> QED BY <2>1, <2>2
<1> QED BY <1>1, <1>2, <1>3, PTL DEF Services

-----------------------------------------------------------------------------
(* The password policy.  v1: row, v2: log, v3: req, v4: calls, v5: accepted. *)

LEMMA PasswordAlone ==
  ASSUME running = "password"
  PROVE  /\ ServicesInit => Password!Init
         /\ [ServicesNext]_<<running, vars, slots>> =>
              running' = running /\ [Password!Next]_(Password!vars)
  BY DEF ServicesInit, ServicesNext, In, slots, Password!vars

\* A request of PasswordPolicy.
PolicyRequest ==
  [at : {"idle", "reading", "auditing", "looking", "updating", "inserting", "failing", "checking"},
   by : ForPassword.Admins \cup {None},
   sent : Password!Changes \cup Password!Password \cup {None}, policy : Password!Policy]

\* A policy with the fields that were sent is a policy, and keeps the bounds.
LEMMA ChangedWithinLimits ==
  ASSUME NEW p \in Password!Policy, p.minLength \in ForPassword.Limits,
         NEW c \in Password!Changes, Password!WithinLimits(c)
  PROVE  /\ Password!Changed(p, c) \in Password!Policy
         /\ Password!Changed(p, c).minLength \in ForPassword.Limits
<1> DEFINE r == Password!Changed(p, c)
<1>1. DOMAIN p = {"minLength", "requireNumber"}
  BY DEF Password!Policy
<1>2. r = [f \in {"minLength", "requireNumber"} |-> IF f \in DOMAIN c THEN c[f] ELSE p[f]]
  BY <1>1 DEF Password!Changed
<1>3. r.minLength \in ForPassword.Limits
  BY <1>2 DEF Password!WithinLimits
<1>4. r.minLength \in ForPassword.Lengths
  BY <1>3, ServicesAssumption DEF Password!PasswordAssumption
<1>5. r.requireNumber \in BOOLEAN
  <2>1. CASE c \in [minLength : ForPassword.Lengths]
    BY <1>2, <2>1 DEF Password!Policy
  <2>2. CASE c \in [requireNumber : BOOLEAN]
    BY <1>2, <2>2 DEF Password!Policy
  <2> QED BY <2>1, <2>2 DEF Password!Changes
<1>6. r \in Password!Policy
  <2>1. r = [minLength |-> r.minLength, requireNumber |-> r.requireNumber]
    BY <1>2
  <2> HIDE DEF r
  <2> QED BY <1>4, <1>5, <2>1 DEF Password!Policy
<1> QED BY <1>3, <1>6

LEMMA PasswordFirst == Password!Init => Password!IInv
<1> SUFFICES ASSUME Password!Init PROVE Password!IInv
  OBVIOUS
<1>1. Password!Idle \in PolicyRequest /\ Password!Idle.at = "idle" /\ Password!Idle.policy = ForPassword.Default
  BY ServicesAssumption DEF Password!PasswordAssumption, Password!Idle, PolicyRequest
<1>2. \A q \in Calls : v3[q] = Password!Idle
  BY DEF Password!Init
<1>3. Password!TypeOK
  BY <1>1, ServicesAssumption DEF Password!PasswordAssumption, Password!TypeOK, Password!Init, PolicyRequest
<1>4. Password!WithinBounds /\ Password!Asked /\ Password!Announced
  BY <1>1, <1>2, ServicesAssumption DEF Password!PasswordAssumption, Password!WithinBounds,
     Password!Asked, Password!Announced, Password!At, Password!Init
<1>5. Password!PolicyIsKept
  BY DEF Password!Init, Password!PolicyIsKept, Password!NobodyBelowTheFloor, Password!PolicyIsOnRecord
<1> QED BY <1>3, <1>4, <1>5 DEF Password!IInv

\* A request moves on, while nothing but the log, which grows, and the calls change.
LEMMA PasswordGoes ==
  ASSUME Password!IInv, NEW q \in Calls, NEW r \in PolicyRequest, v3' = [v3 EXCEPT ![q] = r],
         UNCHANGED v1, v2 \subseteq v2', v4' \in 0..ForPassword.MaxCalls,
         v2' \subseteq [by : ForPassword.Admins, policy : Password!Policy,
                        outcome : {"attempted", "failed"}],
         r.policy.minLength \in ForPassword.Limits,
         r.at \notin {"idle", "checking"} => r.by \in ForPassword.Admins,
         r.at = "reading" => r.sent \in Password!Changes,
         r.at = "checking" => r.sent \in Password!Password,
         r.at \in {"looking", "updating", "inserting"} =>
           \E l \in v2' : l.outcome = "attempted" /\ l.policy = r.policy
  PROVE  /\ v3' \in [Calls -> PolicyRequest]
         /\ UNCHANGED v5 => Password!IInv'
<1>1. v3 \in [Calls -> PolicyRequest]
  BY DEF Password!IInv, Password!TypeOK, PolicyRequest
<1>2. v3' \in [Calls -> PolicyRequest] /\ \A c \in Calls : v3'[c] = IF c = q THEN r ELSE v3[c]
  BY <1>1
<1>3. Password!WithinBounds'
  BY <1>2 DEF Password!IInv, Password!WithinBounds
<1>4. Password!Asked'
  BY <1>2 DEF Password!IInv, Password!Asked, Password!At
<1>5. Password!Announced'
  BY <1>2 DEF Password!IInv, Password!Announced
<1>6. Password!PolicyIsOnRecord'
  BY DEF Password!IInv, Password!PolicyIsKept, Password!PolicyIsOnRecord
<1>7. ASSUME UNCHANGED v5 PROVE Password!TypeOK' /\ Password!NobodyBelowTheFloor'
  BY <1>2, <1>7 DEF Password!IInv, Password!TypeOK, Password!PolicyIsKept,
     Password!NobodyBelowTheFloor, PolicyRequest
<1> QED BY <1>2, <1>3, <1>4, <1>5, <1>6, <1>7 DEF Password!IInv, Password!PolicyIsKept

LEMMA PasswordInductive ==
  ASSUME Password!IInv, [Password!Next]_(Password!vars)
  PROVE  Password!IInv'
<1>0. CASE UNCHANGED Password!vars
  BY <1>0 DEF Password!vars, Password!IInv, Password!TypeOK, Password!WithinBounds, Password!Asked,
     Password!Announced, Password!At, Password!PolicyIsKept, Password!NobodyBelowTheFloor,
     Password!PolicyIsOnRecord
<1> SUFFICES ASSUME NEW q \in Calls,
                    \/ \E a \in ForPassword.Admins, c \in Password!Changes : Password!BeginChange(q, a, c)
                    \/ Password!Read(q) \/ Password!Record(q) \/ Password!Look(q) \/ Password!Save(q)
                    \/ Password!NoteFailure(q)
                    \/ \E password \in Password!Password : Password!BeginSignUp(q, password)
                    \/ Password!Check(q)
             PROVE  Password!IInv'
  BY <1>0 DEF Password!Next
<1> DEFINE Log == [by : ForPassword.Admins, policy : Password!Policy, outcome : {"attempted", "failed"}]
           At(w) == [v3[q] EXCEPT !.at = w]
<1>1. /\ v3 \in [Calls -> PolicyRequest] /\ v3[q] \in PolicyRequest /\ v2 \subseteq Log
      /\ v4 \in 0..ForPassword.MaxCalls /\ v1 \in Password!Policy \cup {None}
      /\ v5 \subseteq Password!Password
  BY DEF Password!IInv, Password!TypeOK, PolicyRequest
<1>2. /\ ForPassword.Default \in Password!Policy /\ ForPassword.Default.minLength \in ForPassword.Limits
      /\ ForPassword.MaxCalls \in Nat
  BY ServicesAssumption DEF Password!PasswordAssumption
<1>3. /\ Password!Idle \in PolicyRequest /\ Password!Idle.at = "idle"
      /\ Password!Idle.policy.minLength \in ForPassword.Limits
  BY <1>2 DEF Password!Idle, PolicyRequest
<1>4. v3[q].policy \in Password!Policy /\ v3[q].policy.minLength \in ForPassword.Limits
  BY <1>1 DEF PolicyRequest, Password!IInv, Password!WithinBounds
<1>5. /\ v3[q].at \notin {"idle", "checking"} => v3[q].by \in ForPassword.Admins
      /\ v3[q].at = "reading" => v3[q].sent \in Password!Changes
      /\ v3[q].at = "checking" => v3[q].sent \in Password!Password
  BY DEF Password!IInv, Password!Asked, Password!At
<1>6. v3[q].at \in {"looking", "updating", "inserting"} =>
        \E l \in v2 : l.outcome = "attempted" /\ l.policy = v3[q].policy
  BY DEF Password!IInv, Password!Announced
<1>7. \A w \in {"looking", "updating", "inserting", "failing"} :
        /\ At(w) \in PolicyRequest /\ At(w).at = w /\ At(w).by = v3[q].by
        /\ At(w).policy = v3[q].policy
  BY <1>1 DEF PolicyRequest
\* What is read is a policy within the bounds.
<1>8. \A p \in Password!Readings : p \in Password!Policy /\ p.minLength \in ForPassword.Limits
  BY <1>1, <1>2 DEF Password!Readings, Password!IInv, Password!WithinBounds
\* The request is over.
<1>9. ASSUME Password!Done(q), UNCHANGED <<v1, v4, v5>>, v2 \subseteq v2', v2' \subseteq Log
      PROVE  Password!IInv'
  BY <1>1, <1>3, <1>9, PasswordGoes DEF Password!Done
\* The request moves on.
<1>10. ASSUME NEW w \in {"looking", "updating", "inserting", "failing"}, Password!Goto(q, w),
              v3[q].at \notin {"idle", "checking"},
              UNCHANGED <<v1, v4, v5>>, v2 \subseteq v2', v2' \subseteq Log,
              w # "failing" => \E l \in v2' : l.outcome = "attempted" /\ l.policy = v3[q].policy
       PROVE  Password!IInv'
  <2>1. v3' = [v3 EXCEPT ![q] = At(w)]
    BY <1>10 DEF Password!Goto
  <2> QED BY <1>1, <1>4, <1>5, <1>7, <1>10, <2>1, PasswordGoes
<1>11. CASE \E a \in ForPassword.Admins, c \in Password!Changes : Password!BeginChange(q, a, c)
  <2> SUFFICES ASSUME NEW a \in ForPassword.Admins, NEW c \in Password!Changes,
                      Password!BeginChange(q, a, c)
               PROVE  Password!IInv'
    BY <1>11
  <2> DEFINE r == [Password!Idle EXCEPT !.at = "reading", !.by = a, !.sent = c]
  <2>1. v3' = [v3 EXCEPT ![q] = r] /\ UNCHANGED <<v1, v2, v5>> /\ v4' \in 0..ForPassword.MaxCalls
    <3>1. v3' = [v3 EXCEPT ![q] = r] /\ UNCHANGED <<v1, v2, v5>>
      BY DEF Password!BeginChange, Password!Begins
    <3>2. v4 < ForPassword.MaxCalls /\ v4' = v4 + 1
      BY DEF Password!BeginChange, Password!Begins
    <3> QED BY <1>1, <1>2, <3>1, <3>2
  <2>2. /\ r \in PolicyRequest /\ r.at = "reading" /\ r.by = a /\ r.sent = c
        /\ r.policy.minLength \in ForPassword.Limits
    BY <1>2 DEF Password!Idle, PolicyRequest
  <2> HIDE DEF r
  <2> QED BY <1>1, <2>1, <2>2, PasswordGoes
<1>12. CASE \E password \in Password!Password : Password!BeginSignUp(q, password)
  <2> SUFFICES ASSUME NEW password \in Password!Password, Password!BeginSignUp(q, password)
               PROVE  Password!IInv'
    BY <1>12
  <2> DEFINE r == [Password!Idle EXCEPT !.at = "checking", !.sent = password]
  <2>1. v3' = [v3 EXCEPT ![q] = r] /\ UNCHANGED <<v1, v2, v5>> /\ v4' \in 0..ForPassword.MaxCalls
    <3>1. v3' = [v3 EXCEPT ![q] = r] /\ UNCHANGED <<v1, v2, v5>>
      BY DEF Password!BeginSignUp, Password!Begins
    <3>2. v4 < ForPassword.MaxCalls /\ v4' = v4 + 1
      BY DEF Password!BeginSignUp, Password!Begins
    <3> QED BY <1>1, <1>2, <3>1, <3>2
  <2>2. /\ r \in PolicyRequest /\ r.at = "checking" /\ r.sent = password
        /\ r.policy.minLength \in ForPassword.Limits
    BY <1>2 DEF Password!Idle, PolicyRequest
  <2> HIDE DEF r
  <2> QED BY <1>1, <2>1, <2>2, PasswordGoes
<1>13. ASSUME Password!Read(q) PROVE Password!IInv'
  <2>1. v3[q].at = "reading" /\ UNCHANGED <<v1, v2, v4, v5>>
    BY <1>13 DEF Password!Read, Password!At
  <2>2. CASE Password!WithinLimits(v3[q].sent)
    <3> SUFFICES ASSUME NEW p \in Password!Readings,
                        v3' = [v3 EXCEPT ![q].at = "auditing",
                                         ![q].policy = Password!Changed(p, v3[q].sent)]
                 PROVE  Password!IInv'
      BY <1>13, <2>2 DEF Password!Read
    <3> DEFINE r == [v3[q] EXCEPT !.at = "auditing", !.policy = Password!Changed(p, v3[q].sent)]
    <3>1. /\ Password!Changed(p, v3[q].sent) \in Password!Policy
          /\ Password!Changed(p, v3[q].sent).minLength \in ForPassword.Limits
      BY <1>5, <1>8, <2>1, <2>2, ChangedWithinLimits
    <3>2. v3' = [v3 EXCEPT ![q] = r]
      BY <1>1
    <3>3. /\ r \in PolicyRequest /\ r.at = "auditing" /\ r.by = v3[q].by
          /\ r.policy.minLength \in ForPassword.Limits
      BY <1>1, <3>1 DEF PolicyRequest
    <3> HIDE DEF r
    <3> QED BY <1>1, <1>5, <2>1, <3>2, <3>3, PasswordGoes
  <2>3. CASE ~Password!WithinLimits(v3[q].sent)
    BY <1>1, <1>9, <1>13, <2>1, <2>3 DEF Password!Read
  <2> QED BY <2>2, <2>3
<1>14. ASSUME NEW outcome \in {"attempted", "failed"}, v3[q].at \notin {"idle", "checking"}
       PROVE  /\ Password!Note(q, outcome) \in Log
              /\ Password!Note(q, outcome).outcome = outcome
              /\ Password!Note(q, outcome).policy = v3[q].policy
  BY <1>4, <1>5, <1>14 DEF Password!Note
<1>15. ASSUME Password!Record(q) PROVE Password!IInv'
  <2>1. v3[q].at = "auditing" /\ UNCHANGED <<v1, v4, v5>>
    BY <1>15 DEF Password!Record, Password!At
  <2>2. CASE Password!Goto(q, "looking") /\ v2' = v2 \cup {Password!Note(q, "attempted")}
    <3>1. v2 \subseteq v2' /\ v2' \subseteq Log
      BY <1>1, <1>14, <2>1, <2>2
    <3>2. \E l \in v2' : l.outcome = "attempted" /\ l.policy = v3[q].policy
      BY <1>14, <2>1, <2>2
    <3> QED BY <1>10, <2>1, <2>2, <3>1, <3>2
  <2>3. CASE Password!Done(q) /\ UNCHANGED v2
    BY <1>1, <1>9, <2>1, <2>3
  <2> QED BY <1>15, <2>2, <2>3 DEF Password!Record
<1>16. ASSUME Password!Look(q) PROVE Password!IInv'
  <2>1. v3[q].at = "looking" /\ UNCHANGED <<v1, v2, v4, v5>>
    BY <1>16 DEF Password!Look, Password!At
  <2>2. \E w \in {"updating", "inserting", "failing"} : Password!Goto(q, w)
    BY <1>16 DEF Password!Look
  <2> QED BY <1>1, <1>6, <1>10, <2>1, <2>2
<1>17. ASSUME Password!NoteFailure(q) PROVE Password!IInv'
  <2>1. v3[q].at = "failing" /\ UNCHANGED <<v1, v4, v5>> /\ Password!Done(q)
    BY <1>17 DEF Password!NoteFailure, Password!At
  <2>2. v2 \subseteq v2' /\ v2' \subseteq Log
    BY <1>1, <1>14, <1>17, <2>1 DEF Password!NoteFailure
  <2> QED BY <1>9, <2>1, <2>2
<1>18. ASSUME Password!Check(q) PROVE Password!IInv'
  <2>1. v3[q].at = "checking" /\ UNCHANGED <<v1, v2, v4>> /\ Password!Done(q)
    BY <1>18 DEF Password!Check, Password!At
  <2>2. v3' \in [Calls -> PolicyRequest] /\ v3' = [v3 EXCEPT ![q] = Password!Idle]
    BY <1>1, <1>3, <2>1 DEF Password!Done
  <2>3. \A password \in v5' :
          /\ password \in Password!Password /\ ~password.common
          /\ \E floor \in ForPassword.Limits : password.length >= floor
    <3> SUFFICES ASSUME NEW p \in Password!Readings, NEW password \in v5',
                        v5' = IF Password!Meets(v3[q].sent, p) THEN v5 \cup {v3[q].sent} ELSE v5
                 PROVE  /\ password \in Password!Password /\ ~password.common
                        /\ \E floor \in ForPassword.Limits : password.length >= floor
      BY <1>18 DEF Password!Check
    <3>1. CASE password \in v5
      BY <1>1, <3>1 DEF Password!IInv, Password!PolicyIsKept, Password!NobodyBelowTheFloor
    <3>2. CASE password \notin v5
      BY <1>5, <1>8, <2>1, <3>2 DEF Password!Meets
    <3> QED BY <3>1, <3>2
  <2>4. Password!TypeOK'
    BY <1>1, <2>1, <2>2, <2>3 DEF Password!TypeOK, PolicyRequest
  <2>5. \A c \in Calls : v3'[c] = IF c = q THEN Password!Idle ELSE v3[c]
    BY <1>1, <2>2
  <2>6. Password!WithinBounds' /\ Password!Asked' /\ Password!Announced'
    BY <1>3, <2>1, <2>5 DEF Password!IInv, Password!WithinBounds, Password!Asked, Password!Announced,
       Password!At
  <2>7. Password!PolicyIsKept'
    BY <2>1, <2>3 DEF Password!IInv, Password!PolicyIsKept, Password!NobodyBelowTheFloor,
       Password!PolicyIsOnRecord
  <2> QED BY <2>4, <2>6, <2>7 DEF Password!IInv
<1>19. ASSUME Password!Save(q) PROVE Password!IInv'
  <2>1. v3[q].at \in {"updating", "inserting"} /\ UNCHANGED <<v2, v4, v5>>
    BY <1>19 DEF Password!Save, Password!At
  <2>2. CASE UNCHANGED v1
    BY <1>1, <1>9, <1>10, <1>19, <2>1, <2>2 DEF Password!Save
  <2>3. CASE v1' = v3[q].policy
    <3>1. \E r \in PolicyRequest : /\ v3' = [v3 EXCEPT ![q] = r] /\ r.at \in {"idle", "failing"}
                                   /\ r.policy.minLength \in ForPassword.Limits
                                   /\ r.at = "failing" => r.by \in ForPassword.Admins
      <4>1. CASE Password!Done(q)
        BY <1>3, <4>1 DEF Password!Done
      <4>2. CASE Password!Goto(q, "failing")
        <5>1. v3' = [v3 EXCEPT ![q] = At("failing")]
          BY <4>2 DEF Password!Goto
        <5> QED BY <1>4, <1>5, <1>7, <2>1, <5>1
      <4> QED BY <1>19, <4>1, <4>2 DEF Password!Save
    <3> SUFFICES ASSUME NEW r \in PolicyRequest, v3' = [v3 EXCEPT ![q] = r], r.at \in {"idle", "failing"},
                        r.policy.minLength \in ForPassword.Limits,
                        r.at = "failing" => r.by \in ForPassword.Admins
                 PROVE  Password!IInv'
      BY <3>1
    <3>2. v3' \in [Calls -> PolicyRequest] /\ \A c \in Calls : v3'[c] = IF c = q THEN r ELSE v3[c]
      BY <1>1
    <3>3. Password!TypeOK'
      BY <1>1, <1>4, <2>1, <2>3, <3>2 DEF Password!TypeOK, PolicyRequest
    <3>4. Password!WithinBounds' /\ Password!Asked' /\ Password!Announced'
      BY <1>4, <2>1, <2>3, <3>2 DEF Password!IInv, Password!WithinBounds, Password!Asked,
         Password!Announced, Password!At
    <3>5. Password!PolicyIsKept'
      BY <1>6, <2>1, <2>3 DEF Password!IInv, Password!PolicyIsKept, Password!NobodyBelowTheFloor,
         Password!PolicyIsOnRecord
    <3> QED BY <3>3, <3>4, <3>5 DEF Password!IInv
  <2> QED BY <1>19, <2>2, <2>3 DEF Password!Save
<1> QED BY <1>11, <1>12, <1>13, <1>15, <1>16, <1>17, <1>18, <1>19

\* No account is made with a password below the lowest bound, or a common one, and no
\* policy is in force that nobody put on record (applyPasswordPolicyChange,
\* getGlobalPasswordPolicy), whatever changes and sign-ups come in between and fail.
THEOREM PasswordPolicyIsKept == Services => []PolicyIsKept
<1> DEFINE Kept == running = "password" => Password!IInv
<1>1. ServicesInit => Kept
  BY PasswordAlone, PasswordFirst
<1>2. Kept /\ [ServicesNext]_<<running, vars, slots>> => Kept'
  <2> SUFFICES ASSUME Kept, [ServicesNext]_<<running, vars, slots>>, running' = "password"
               PROVE  Password!IInv'
    OBVIOUS
  <2>1. running = "password"
    BY DEF ServicesNext, In
  <2> QED BY <2>1, PasswordAlone, PasswordInductive
<1>3. Kept => PolicyIsKept
  BY DEF PolicyIsKept, Password!IInv
<1> QED BY <1>1, <1>2, <1>3, PTL DEF Services

-----------------------------------------------------------------------------
(* The gate in front of features.  v1: now, v2: account, v3: blocked, v4:  *)
(* lists, v5: cache, v6: desk, v7: check, v8: held, v9: changes.           *)

LEMMA GateAlone ==
  ASSUME running = "gate"
  PROVE  /\ ServicesInit => Gate!Init
         /\ [ServicesNext]_<<running, vars, slots>> => running' = running /\ [Gate!Next]_(Gate!vars)
  BY DEF ServicesInit, ServicesNext, In, slots, Gate!vars

\* The records of AccountGate.
AccountRow == [status : Gate!Statuses, until : 0..ForGate.MaxTime]
ListRow == [value : Gate!ListValues, since : 0..ForGate.MaxTime]
CacheRow == [value : Gate!ListValues, until : 0..(ForGate.MaxTime + ForGate.TTL)]
DeskState == [op : {"none", "block", "unblock"}, pc : {"idle", "record", "write"}]
CheckState ==
  [pc : {"idle", "known", "blocks", "actual", "account", "provision", "reread", "list", "done"},
   status : Gate!Statuses, answer : {"none", "allowed", "denied", "notProvisioned"}]

GateTyped ==
  /\ v1 \in 1..ForGate.MaxTime
  /\ v2 \in AccountRow
  /\ v3 \in BOOLEAN
  /\ v4 \in [Gate!ListNames -> ListRow]
  /\ v5 \in [Gate!ListNames -> CacheRow]
  /\ v6 \in DeskState
  /\ v7 \in [ForGate.Checks -> CheckState]
  /\ v8 \in [ForGate.Checks -> SUBSET Gate!Bars]
  /\ v9 \in 0..ForGate.MaxChanges

LEMMA GateTypes == (Gate!TypeOK <=> GateTyped) /\ (Gate!TypeOK' <=> GateTyped')
  BY DEF Gate!TypeOK, GateTyped, AccountRow, ListRow, CacheRow, DeskState, CheckState

LEMMA GateBounds ==
  /\ ForGate.TTL \in Nat /\ ForGate.MaxTime \in Nat \ {0} /\ ForGate.MaxChanges \in Nat
  /\ ForGate.Registered \in Gate!ListValues
  BY ServicesAssumption DEF Gate!GateAssumption

LEMMA GateFirst == Gate!Init => Gate!IInv
<1> SUFFICES ASSUME Gate!Init PROVE Gate!IInv
  OBVIOUS
<1>1. v1 = 1 /\ v1 \in 1..ForGate.MaxTime /\ 0 \in 0..ForGate.MaxTime
      /\ 0 \in 0..(ForGate.MaxTime + ForGate.TTL) /\ 0 \in 0..ForGate.MaxChanges
  BY GateBounds DEF Gate!Init
<1>2. \A k \in Gate!ListNames :
        /\ v4[k] = [value |-> IF k = "known" THEN "unset" ELSE "lists", since |-> 0]
        /\ v5[k] = [value |-> "unset", until |-> 0]
  BY DEF Gate!Init, Gate!NoEntry
<1>3. \A c \in ForGate.Checks :
        v7[c] = [pc |-> "idle", status |-> "none", answer |-> "none"] /\ v8[c] = {}
  BY DEF Gate!Init, Gate!Idle
<1>4. GateTyped
  <2>1. v2 \in AccountRow
    <3>1. PICK s \in {"none", "active", "suspended"} : v2 = [status |-> s, until |-> 0]
      BY DEF Gate!Init
    <3> QED BY <1>1, <3>1 DEF AccountRow, Gate!Statuses
  <2>2. v4 \in [Gate!ListNames -> ListRow]
    <3>1. v4 = [k \in Gate!ListNames |-> [value |-> IF k = "known" THEN "unset" ELSE "lists", since |-> 0]]
      BY DEF Gate!Init
    <3>2. \A k \in Gate!ListNames : [value |-> IF k = "known" THEN "unset" ELSE "lists", since |-> 0] \in ListRow
      BY <1>1 DEF ListRow, Gate!ListValues
    <3> QED BY <3>1, <3>2
  <2>3. v5 \in [Gate!ListNames -> CacheRow]
    <3>1. v5 = [k \in Gate!ListNames |-> [value |-> "unset", until |-> 0]]
      BY DEF Gate!Init, Gate!NoEntry
    <3>2. [value |-> "unset", until |-> 0] \in CacheRow
      BY <1>1 DEF CacheRow, Gate!ListValues
    <3> QED BY <3>1, <3>2
  <2>4. v7 \in [ForGate.Checks -> CheckState]
    BY DEF Gate!Init, Gate!Idle, CheckState, Gate!Statuses
  <2> QED BY <1>1, <2>1, <2>2, <2>3, <2>4 DEF GateTyped, Gate!Init, DeskState, Gate!NoOp
<1>5. Gate!HeldInForce /\ Gate!CopiesAge /\ Gate!SeededListsStay
  BY <1>2, <1>3 DEF Gate!HeldInForce, Gate!CopiesAge, Gate!SeededListsStay, Gate!ListNames
<1>6. Gate!RuledOut /\ Gate!NoBarIsPassed
  BY <1>3 DEF Gate!RuledOut, Gate!NoBarIsPassed, Gate!At
<1> QED BY <1>4, <1>5, <1>6, GateTypes DEF Gate!IInv

\* The checks' copies and records while the world and a check go on.
LEMMA GateKeeps ==
  ASSUME Gate!IInv, GateTyped', Gate!HeldInForce', Gate!CopiesAge', Gate!SeededListsStay',
         v2.status # "none" => v2'.status # "none",
         \A d \in ForGate.Checks :
           \/ v7'[d] = v7[d] /\ v8'[d] \subseteq v8[d]
           \/ /\ v7'[d].pc \in {"blocks", "account", "provision", "reread", "list"} =>
                   "unknown" \notin v8'[d]
              /\ v7'[d].pc \in {"account", "provision", "reread", "list"} => "blocked" \notin v8'[d]
              /\ v7'[d].pc = "reread" => v2'.status # "none"
              /\ v7'[d].pc = "list" =>
                   v7'[d].status \in {"restricted", "suspended"} /\ v8'[d] \subseteq {v7'[d].status}
              /\ v7'[d].answer # "none" => v7'[d].pc = "done"
              /\ v7'[d].answer = "allowed" => v8'[d] = {}
  PROVE  Gate!IInv'
<1>1. Gate!RuledOut' /\ Gate!NoBarIsPassed'
  <2>1. ASSUME NEW d \in ForGate.Checks
        PROVE  /\ v7'[d].pc \in {"blocks", "account", "provision", "reread", "list"} =>
                    "unknown" \notin v8'[d]
               /\ v7'[d].pc \in {"account", "provision", "reread", "list"} => "blocked" \notin v8'[d]
               /\ v7'[d].pc = "reread" => v2'.status # "none"
               /\ v7'[d].pc = "list" =>
                    v7'[d].status \in {"restricted", "suspended"} /\ v8'[d] \subseteq {v7'[d].status}
               /\ v7'[d].answer # "none" => v7'[d].pc = "done"
               /\ v7'[d].answer = "allowed" => v8'[d] = {}
    <3>1. CASE v7'[d] = v7[d] /\ v8'[d] \subseteq v8[d]
      BY <3>1 DEF Gate!IInv, Gate!RuledOut, Gate!NoBarIsPassed, Gate!At
    <3> QED BY <3>1
  <2> QED BY <2>1 DEF Gate!RuledOut, Gate!NoBarIsPassed, Gate!At
<1> QED BY <1>1, GateTypes DEF Gate!IInv

\* A check moves on in the same world.
LEMMA GateGoes ==
  ASSUME Gate!IInv, NEW c \in ForGate.Checks, NEW r \in CheckState, v7' = [v7 EXCEPT ![c] = r],
         NEW h \in SUBSET Gate!Bars, v8' = [v8 EXCEPT ![c] = h], UNCHANGED Gate!world,
         \A b \in h : Gate!InForce(b) /\ Gate!Settled(b),
         v5' \in [Gate!ListNames -> CacheRow], Gate!CopiesAge',
         r.pc \in {"blocks", "account", "provision", "reread", "list"} => "unknown" \notin h,
         r.pc \in {"account", "provision", "reread", "list"} => "blocked" \notin h,
         r.pc = "reread" => v2.status # "none",
         r.pc = "list" => r.status \in {"restricted", "suspended"} /\ h \subseteq {r.status},
         r.answer # "none" => r.pc = "done",
         r.answer = "allowed" => h = {}
  PROVE  Gate!IInv'
<1>1. GateTyped /\ UNCHANGED <<v1, v2, v3, v4, v6, v9>>
  BY GateTypes DEF Gate!IInv, Gate!world
<1>2. /\ \A d \in ForGate.Checks : v7'[d] = IF d = c THEN r ELSE v7[d]
      /\ \A d \in ForGate.Checks : v8'[d] = IF d = c THEN h ELSE v8[d]
  BY <1>1 DEF GateTyped
<1>3. GateTyped'
  BY <1>1 DEF GateTyped
<1>4. Gate!HeldInForce'
  BY <1>1, <1>2 DEF Gate!IInv, Gate!HeldInForce, Gate!InForce, Gate!Settled, Gate!isExpired
<1>5. Gate!SeededListsStay'
  BY <1>1 DEF Gate!IInv, Gate!SeededListsStay
<1> QED BY <1>1, <1>2, <1>3, <1>4, <1>5, GateKeeps

\* A list that says so of a bar that held all along says so in its copies too.
LEMMA GateCopyAgrees ==
  ASSUME Gate!IInv, NEW c \in ForGate.Checks, NEW b \in v8[c], NEW k \in Gate!ListNames,
         k = IF b = "unknown" THEN "known" ELSE b,
         NEW got \in Gate!getConfig(k), got.value # "unset"
  PROVE  got.value = v4[k].value
<1>1. GateTyped
  BY GateTypes DEF Gate!IInv
<1>2. /\ v1 \in Nat /\ v4[k].since \in Nat /\ v5[k].until \in Nat
  BY <1>1, GateBounds DEF GateTyped, ListRow, CacheRow
<1>3. v4[k].since = 0 \/ v4[k].since + ForGate.TTL < v1
  BY DEF Gate!IInv, Gate!HeldInForce, Gate!Settled
<1>4. CASE v5[k].until >= v1
  <2>1. got.value = v5[k].value
    BY <1>4 DEF Gate!getConfig
  <2>2. /\ v5[k].until \in (ForGate.TTL + 1)..(v1 + ForGate.TTL)
        /\ v5[k].value = v4[k].value \/ v5[k].until <= v4[k].since + ForGate.TTL
    BY <2>1 DEF Gate!IInv, Gate!CopiesAge
  <2>3. ~(v5[k].until <= v4[k].since + ForGate.TTL)
    BY <1>2, <1>3, <1>4, <2>2, GateBounds
  <2> QED BY <2>1, <2>2, <2>3
<1>5. CASE ~(v5[k].until >= v1)
  BY <1>5 DEF Gate!getConfig
<1> QED BY <1>4, <1>5

\* What a read keeps of a list is a copy like the others.
LEMMA GateCopyKept ==
  ASSUME Gate!IInv, NEW k \in Gate!ListNames, NEW got \in Gate!getConfig(k), UNCHANGED <<v1, v4>>,
         v5' = [v5 EXCEPT ![k] = got.kept]
  PROVE  v5' \in [Gate!ListNames -> CacheRow] /\ Gate!CopiesAge'
<1>1. GateTyped
  BY GateTypes DEF Gate!IInv
<1>2. /\ v1 \in 1..ForGate.MaxTime /\ v4[k] \in ListRow /\ v5[k] \in CacheRow
      /\ v5 \in [Gate!ListNames -> CacheRow]
  BY <1>1 DEF GateTyped
<1>3. \/ got.kept = v5[k]
      \/ got.kept = [value |-> v4[k].value, until |-> v1 + ForGate.TTL]
  BY DEF Gate!getConfig
<1>4. v1 + ForGate.TTL \in 0..(ForGate.MaxTime + ForGate.TTL)
  BY <1>2, GateBounds
<1>5. v1 + ForGate.TTL \in (ForGate.TTL + 1)..(v1 + ForGate.TTL)
  BY <1>2, GateBounds
<1>6. got.kept \in CacheRow
  BY <1>2, <1>3, <1>4 DEF CacheRow, ListRow
<1>7. \A j \in Gate!ListNames : v5'[j] = IF j = k THEN got.kept ELSE v5[j]
  BY <1>2
<1>8. Gate!CopiesAge'
  <2>1. ASSUME NEW j \in Gate!ListNames, v5'[j].value # "unset"
        PROVE  /\ v5'[j].until \in (ForGate.TTL + 1)..(v1 + ForGate.TTL)
               /\ v5'[j].value = v4[j].value \/ v5'[j].until <= v4[j].since + ForGate.TTL
    <3>1. CASE v5'[j] = v5[j]
      BY <2>1, <3>1 DEF Gate!IInv, Gate!CopiesAge
    <3>2. CASE v5'[j] # v5[j]
      BY <1>3, <1>5, <1>7, <3>2
    <3> QED BY <3>1, <3>2
  <2> QED BY <2>1 DEF Gate!CopiesAge
<1> QED BY <1>2, <1>6, <1>8

\* The world moves on under the checks, which watch.
LEMMA GateWatched ==
  ASSUME Gate!IInv, GateTyped', UNCHANGED v7, Gate!Watch, v1 <= v1',
         v2.status # "none" => v2'.status # "none", Gate!CopiesAge', Gate!SeededListsStay',
         \A b \in Gate!Bars : Gate!InForce(b) /\ Gate!Settled(b) /\ Gate!InForce(b)' => Gate!Settled(b)'
  PROVE  Gate!IInv'
<1>1. GateTyped
  BY GateTypes DEF Gate!IInv
<1>2. \A c \in ForGate.Checks : v8[c] \subseteq Gate!Bars
  BY <1>1 DEF GateTyped
<1>3. \A c \in ForGate.Checks : v8'[c] = {b \in v8[c] : Gate!InForce(b)'}
  BY DEF Gate!Watch
<1>4. Gate!HeldInForce'
  BY <1>2, <1>3 DEF Gate!IInv, Gate!HeldInForce
<1> QED BY <1>3, <1>4, GateKeeps

\* The reads of a check keep the invariant.
LEMMA GateChecks ==
  ASSUME Gate!IInv, NEW c \in ForGate.Checks,
         \/ Gate!Begin(c) \/ Gate!LoadKnown(c) \/ Gate!LoadBlocks(c) \/ Gate!LoadActual(c)
         \/ Gate!LoadAccount(c) \/ Gate!Reread(c) \/ Gate!LoadList(c) \/ Gate!Return(c)
  PROVE  Gate!IInv'
<1> DEFINE Goes(w) == [v7[c] EXCEPT !.pc = w]
           Says(a) == [v7[c] EXCEPT !.pc = "done", !.answer = a]
           Lists(s) == [v7[c] EXCEPT !.pc = "list", !.status = s]
<1>1. GateTyped
  BY GateTypes DEF Gate!IInv
<1>2. /\ v7[c] \in CheckState /\ v8[c] \in SUBSET Gate!Bars /\ v5 \in [Gate!ListNames -> CacheRow]
      /\ v7 \in [ForGate.Checks -> CheckState] /\ v8 \in [ForGate.Checks -> SUBSET Gate!Bars]
      /\ v2 \in AccountRow
  BY <1>1 DEF GateTyped
<1>3. \A b \in v8[c] : Gate!InForce(b) /\ Gate!Settled(b)
  BY DEF Gate!IInv, Gate!HeldInForce
<1>4. /\ v7[c].pc \in {"blocks", "account", "provision", "reread", "list"} => "unknown" \notin v8[c]
      /\ v7[c].pc \in {"account", "provision", "reread", "list"} => "blocked" \notin v8[c]
      /\ v7[c].pc = "reread" => v2.status # "none"
      /\ v7[c].pc = "list" =>
           v7[c].status \in {"restricted", "suspended"} /\ v8[c] \subseteq {v7[c].status}
      /\ v7[c].pc # "done" => v7[c].answer = "none"
  BY DEF Gate!IInv, Gate!RuledOut, Gate!At
<1>5. /\ \A w \in {"known", "blocks", "actual", "account", "provision", "reread", "done"} :
           Goes(w) \in CheckState /\ Goes(w).pc = w /\ Goes(w).answer = v7[c].answer
      /\ \A a \in {"allowed", "denied", "notProvisioned"} :
           Says(a) \in CheckState /\ Says(a).pc = "done" /\ Says(a).answer = a
      /\ \A s \in Gate!Statuses :
           /\ Lists(s) \in CheckState /\ Lists(s).pc = "list" /\ Lists(s).status = s
           /\ Lists(s).answer = v7[c].answer
  BY <1>2 DEF CheckState
<1> HIDE DEF Goes, Says, Lists
<1>6. Gate!Idle \in CheckState /\ Gate!Idle.pc = "idle" /\ Gate!Idle.answer = "none"
  BY DEF Gate!Idle, CheckState, Gate!Statuses
\* The check changes, and nothing else but a copy.
<1>7. ASSUME NEW r \in CheckState, v7' = [v7 EXCEPT ![c] = r], UNCHANGED Gate!world,
             v8' = v8 \/ v8' = [v8 EXCEPT ![c] = @ \ {"unknown"}] \/ v8' = [v8 EXCEPT ![c] = {}],
             v5' \in [Gate!ListNames -> CacheRow], Gate!CopiesAge',
             r.pc \in {"blocks", "account", "provision", "reread", "list"} => "unknown" \notin v8'[c],
             r.pc \in {"account", "provision", "reread", "list"} => "blocked" \notin v8'[c],
             r.pc = "reread" => v2.status # "none",
             r.pc = "list" => r.status \in {"restricted", "suspended"} /\ v8'[c] \subseteq {r.status},
             r.answer # "none" => r.pc = "done", r.answer = "allowed" => v8'[c] = {}
      PROVE  Gate!IInv'
  <2> DEFINE h == v8'[c]
  <2>1. h \subseteq v8[c] /\ h \in SUBSET Gate!Bars /\ v8' = [v8 EXCEPT ![c] = h]
    BY <1>2, <1>7
  <2>2. \A b \in h : Gate!InForce(b) /\ Gate!Settled(b)
    BY <1>3, <2>1
  <2> QED BY <1>7, <2>1, <2>2, GateGoes
<1>8. UNCHANGED Gate!world /\ UNCHANGED v5 => v5' \in [Gate!ListNames -> CacheRow] /\ Gate!CopiesAge'
  BY <1>2 DEF Gate!world, Gate!IInv, Gate!CopiesAge
\* An answer that is no permission.
<1>9. ASSUME NEW a \in {"denied", "notProvisioned"}, Gate!Answer(c, a), UNCHANGED Gate!world,
             v8' = v8 \/ v8' = [v8 EXCEPT ![c] = @ \ {"unknown"}],
             v5' \in [Gate!ListNames -> CacheRow], Gate!CopiesAge'
      PROVE  Gate!IInv'
  <2>1. v7' = [v7 EXCEPT ![c] = Says(a)]
    BY <1>9 DEF Gate!Answer, Says
  <2> QED BY <1>5, <1>7, <1>9, <2>1
<1>10. ASSUME Gate!Begin(c) PROVE Gate!IInv'
  <2> DEFINE h == {b \in Gate!Bars : Gate!InForce(b) /\ Gate!Settled(b)}
  <2>1. /\ v7' = [v7 EXCEPT ![c] = Goes("known")] /\ v8' = [v8 EXCEPT ![c] = h]
        /\ UNCHANGED Gate!world /\ UNCHANGED v5 /\ v7[c].pc = "idle"
    BY <1>10 DEF Gate!Begin, Gate!Goto, Gate!At, Goes
  <2>2. h \in SUBSET Gate!Bars /\ \A b \in h : Gate!InForce(b) /\ Gate!Settled(b)
    OBVIOUS
  <2>3. /\ Goes("known") \in CheckState /\ Goes("known").pc = "known"
        /\ Goes("known").answer = "none"
    BY <1>4, <1>5, <2>1
  <2>4. v5' \in [Gate!ListNames -> CacheRow] /\ Gate!CopiesAge'
    BY <1>8, <2>1
  <2> HIDE DEF h
  <2> QED BY <2>1, <2>2, <2>3, <2>4, GateGoes
<1>11. ASSUME Gate!LoadKnown(c) PROVE Gate!IInv'
  <2> SUFFICES ASSUME NEW got \in Gate!getConfig("known"),
                      IF Gate!Known(got.value) THEN Gate!Goto(c, "blocks") ELSE Gate!Answer(c, "denied"),
                      v5' = [v5 EXCEPT !["known"] = got.kept],
                      v8' = IF got.value = "unset" THEN [v8 EXCEPT ![c] = @ \ {"unknown"}] ELSE v8,
                      v7[c].pc = "known", UNCHANGED Gate!world
               PROVE  Gate!IInv'
    BY <1>11 DEF Gate!LoadKnown, Gate!At
  <2>1. "known" \in Gate!ListNames /\ UNCHANGED <<v1, v4>>
    BY DEF Gate!ListNames, Gate!world
  <2>2. v5' \in [Gate!ListNames -> CacheRow] /\ Gate!CopiesAge'
    BY <2>1, GateCopyKept
  <2>3. v8' = v8 \/ v8' = [v8 EXCEPT ![c] = @ \ {"unknown"}]
    OBVIOUS
  <2>4. CASE Gate!Known(got.value)
    <3>1. v7' = [v7 EXCEPT ![c] = Goes("blocks")]
      BY <2>4 DEF Gate!Goto, Goes
    <3>2. "unknown" \notin v8'[c]
      <4>1. CASE got.value = "unset"
        BY <1>2, <4>1
      <4>2. CASE got.value # "unset"
        <5>1. got.value # "omits"
          BY <2>4, <4>2 DEF Gate!Known
        <5>2. "unknown" \in v8[c] => got.value = v4["known"].value /\ v4["known"].value = "omits"
          BY <1>3, <2>1, <4>2, GateCopyAgrees DEF Gate!InForce
        <5> QED BY <4>2, <5>1, <5>2
      <4> QED BY <4>1, <4>2
    <3> QED BY <1>4, <1>5, <1>7, <2>2, <2>3, <3>1, <3>2
  <2>5. CASE ~Gate!Known(got.value)
    BY <1>9, <2>2, <2>3, <2>5
  <2> QED BY <2>4, <2>5
<1>12. ASSUME Gate!LoadBlocks(c) PROVE Gate!IInv'
  <2> SUFFICES ASSUME NEW read \in {IF v3 THEN "blocked" ELSE "clear", "failed"},
                      IF Gate!BlocksPass(read) THEN Gate!Goto(c, "account")
                      ELSE IF read = "failed" THEN Gate!Answer(c, "denied") ELSE Gate!Goto(c, "actual"),
                      v7[c].pc = "blocks", UNCHANGED Gate!world, UNCHANGED <<v5, v8>>
               PROVE  Gate!IInv'
    BY <1>12 DEF Gate!LoadBlocks, Gate!At
  <2>1. CASE Gate!BlocksPass(read)
    <3>1. v7' = [v7 EXCEPT ![c] = Goes("account")]
      BY <2>1 DEF Gate!Goto, Goes
    <3>2. ~v3
      BY <2>1 DEF Gate!BlocksPass
    <3>3. "blocked" \notin v8[c]
      BY <1>3, <3>2 DEF Gate!InForce
    <3> QED BY <1>4, <1>5, <1>7, <1>8, <3>1, <3>3
  <2>2. CASE ~Gate!BlocksPass(read) /\ read = "failed"
    BY <1>8, <1>9, <2>2
  <2>3. CASE ~Gate!BlocksPass(read) /\ read # "failed"
    <3>1. v7' = [v7 EXCEPT ![c] = Goes("actual")]
      BY <2>3 DEF Gate!Goto, Goes
    <3> QED BY <1>4, <1>5, <1>7, <1>8, <3>1
  <2> QED BY <2>1, <2>2, <2>3
<1>13. CASE Gate!LoadActual(c)
  BY <1>8, <1>9, <1>13 DEF Gate!LoadActual
\* What the standing read says of the bars.
<1>14. ASSUME Gate!Decide(c, v2.status), v2.status # "none", v7[c].pc \in {"account", "reread"},
              UNCHANGED Gate!world, UNCHANGED <<v5, v8>>
       PROVE  Gate!IInv'
  <2>1. \A b \in v8[c] : b = v2.status /\ (b # "banned" => ~Gate!isExpired(v2.until))
    BY <1>2, <1>3, <1>4, <1>14 DEF Gate!InForce, Gate!Bars
  <2>2. CASE Gate!Answer(c, "denied")
    BY <1>8, <1>9, <1>14, <2>2
  <2>3. CASE Gate!Answer(c, "allowed") /\ v8[c] = {}
    <3>1. v7' = [v7 EXCEPT ![c] = Says("allowed")]
      BY <2>3 DEF Gate!Answer, Says
    <3> QED BY <1>5, <1>7, <1>8, <1>14, <2>3, <3>1
  <2>4. CASE /\ v7' = [v7 EXCEPT ![c] = Lists(v2.status)]
             /\ v2.status \in {"restricted", "suspended"}
    <3> DEFINE r == Lists(v2.status)
    <3>1. /\ r \in CheckState /\ r.pc = "list" /\ r.status = v2.status /\ r.answer = "none"
      BY <1>4, <1>5, <1>14, <2>4 DEF Gate!Statuses
    <3>2. v8'[c] = v8[c] /\ v8[c] \subseteq {v2.status}
      BY <1>14, <2>1
    <3>3. v5' \in [Gate!ListNames -> CacheRow] /\ Gate!CopiesAge'
      BY <1>8, <1>14
    <3>4. "unknown" \notin v8'[c] /\ "blocked" \notin v8'[c]
      BY <2>4, <3>2
    <3>5. v7' = [v7 EXCEPT ![c] = r]
      BY <2>4
    <3> HIDE DEF r
    <3>6. /\ r.pc = "reread" => v2.status # "none"
          /\ r.pc = "list" => r.status \in {"restricted", "suspended"} /\ v8'[c] \subseteq {r.status}
          /\ r.answer # "none" => r.pc = "done"
          /\ r.answer = "allowed" => v8'[c] = {}
      BY <2>4, <3>1, <3>2
    <3>7. UNCHANGED Gate!world /\ v8' = v8
      BY <1>14
    <3> QED BY <1>7, <3>1, <3>3, <3>4, <3>5, <3>6, <3>7
  <2>5. v2.status = "active" => Gate!Answer(c, "allowed") /\ v8[c] = {}
    BY <1>2, <1>14, <2>1 DEF Gate!Decide, Gate!Bars
  <2>6. v2.status = "banned" => Gate!Answer(c, "denied")
    BY <1>14 DEF Gate!Decide
  <2>7. v2.status \in {"restricted", "suspended"} /\ Gate!isExpired(v2.until) =>
          Gate!Answer(c, "allowed") /\ v8[c] = {}
    BY <1>14, <2>1 DEF Gate!Decide
  <2>8. v2.status \in {"restricted", "suspended"} /\ ~Gate!isExpired(v2.until) =>
          v7' = [v7 EXCEPT ![c] = Lists(v2.status)]
    BY <1>14 DEF Gate!Decide, Lists
  <2>9. v2.status \in {"active", "banned", "restricted", "suspended"}
    BY <1>2, <1>14 DEF AccountRow, Gate!Statuses
  <2>10. CASE v2.status = "active"
    BY <2>3, <2>5, <2>10
  <2>11. CASE v2.status = "banned"
    BY <2>2, <2>6, <2>11
  <2>12. CASE v2.status \in {"restricted", "suspended"} /\ Gate!isExpired(v2.until)
    <3>1. Gate!Answer(c, "allowed") /\ v8[c] = {}
      BY <2>7, <2>12
    <3> QED BY <2>3, <3>1
  <2>13. CASE v2.status \in {"restricted", "suspended"} /\ ~Gate!isExpired(v2.until)
    <3>1. v7' = [v7 EXCEPT ![c] = Lists(v2.status)]
      BY <2>8, <2>13
    <3> QED BY <2>4, <2>13, <3>1
  <2> QED BY <2>9, <2>10, <2>11, <2>12, <2>13
<1>15. ASSUME Gate!LoadAccount(c) PROVE Gate!IInv'
  <2>1. v7[c].pc = "account" /\ UNCHANGED Gate!world /\ UNCHANGED <<v5, v8>>
    BY <1>15 DEF Gate!LoadAccount, Gate!At
  <2>2. CASE Gate!Goto(c, "provision")
    <3>1. v7' = [v7 EXCEPT ![c] = Goes("provision")]
      BY <2>2 DEF Gate!Goto, Goes
    <3> QED BY <1>4, <1>5, <1>7, <1>8, <2>1, <3>1
  <2> QED BY <1>8, <1>9, <1>14, <1>15, <2>1, <2>2 DEF Gate!LoadAccount
<1>16. ASSUME Gate!Reread(c) PROVE Gate!IInv'
  BY <1>4, <1>8, <1>9, <1>14, <1>16 DEF Gate!Reread, Gate!At
<1>17. ASSUME Gate!LoadList(c) PROVE Gate!IInv'
  <2> DEFINE k == v7[c].status
  <2>1. /\ v7[c].pc = "list" /\ UNCHANGED Gate!world /\ UNCHANGED v8
        /\ k \in {"restricted", "suspended"} /\ v8[c] \subseteq {k}
    BY <1>4, <1>17 DEF Gate!LoadList, Gate!At
  <2>2. PICK got \in Gate!getConfig(k) :
          /\ Gate!Answer(c, IF got.value = "omits" THEN "allowed" ELSE "denied")
          /\ v5' = [v5 EXCEPT ![k] = got.kept]
    BY <1>17 DEF Gate!LoadList
  <2>3. k \in Gate!ListNames /\ UNCHANGED <<v1, v4>>
    BY <2>1 DEF Gate!ListNames, Gate!world
  <2>4. v5' \in [Gate!ListNames -> CacheRow] /\ Gate!CopiesAge'
    BY <2>2, <2>3, GateCopyKept
  <2>5. CASE got.value = "omits"
    <3>1. v7' = [v7 EXCEPT ![c] = Says("allowed")]
      BY <2>2, <2>5 DEF Gate!Answer, Says
    <3>2. k \in v8[c] => FALSE
      <4>1. SUFFICES ASSUME k \in v8[c] PROVE FALSE
        OBVIOUS
      <4>2. got.value = v4[k].value
        BY <2>1, <2>2, <2>3, <2>5, <4>1, GateCopyAgrees
      <4>3. v4[k].value # "omits"
        BY <1>3, <2>1, <4>1 DEF Gate!InForce
      <4> QED BY <2>5, <4>2, <4>3
    <3>3. v8[c] = {}
      BY <2>1, <3>2
    <3> QED BY <1>5, <1>7, <2>1, <2>4, <3>1, <3>3
  <2>6. CASE got.value # "omits"
    BY <1>9, <2>1, <2>2, <2>4, <2>6
  <2> QED BY <2>5, <2>6
<1>18. CASE Gate!Return(c)
  BY <1>2, <1>6, <1>7, <1>8, <1>18 DEF Gate!Return
<1> QED BY <1>10, <1>11, <1>12, <1>13, <1>15, <1>16, <1>17, <1>18

\* What the copies say goes on being so while neither they nor the lists change.
LEMMA GateCopiesStay ==
  ASSUME Gate!IInv, v1' \in Nat, v1 <= v1', UNCHANGED <<v4, v5>>
  PROVE  Gate!CopiesAge' /\ Gate!SeededListsStay'
<1>1. GateTyped
  BY GateTypes DEF Gate!IInv
<1>2. v1 \in Nat
  BY <1>1 DEF GateTyped
<1>3. \A u : u \in (ForGate.TTL + 1)..(v1 + ForGate.TTL) => u \in (ForGate.TTL + 1)..(v1' + ForGate.TTL)
  BY <1>2, GateBounds
<1>4. Gate!CopiesAge'
  BY <1>3 DEF Gate!IInv, Gate!CopiesAge
<1> QED BY <1>4 DEF Gate!IInv, Gate!SeededListsStay

\* A write to the tables leaves the clock, the lists and their copies alone.
LEMMA GateWrites ==
  ASSUME Gate!IInv, GateTyped', UNCHANGED <<v1, v4, v5, v7>>, Gate!Watch,
         v2.status # "none" => v2'.status # "none"
  PROVE  Gate!IInv'
<1>1. v1 \in Nat /\ v1' \in Nat /\ v1 <= v1'
  BY GateTypes DEF Gate!IInv, GateTyped
<1>2. Gate!CopiesAge' /\ Gate!SeededListsStay'
  BY <1>1, GateCopiesStay
<1>3. \A b \in Gate!Bars : Gate!Settled(b) => Gate!Settled(b)'
  BY DEF Gate!Settled
<1> QED BY <1>1, <1>2, <1>3, GateWatched

\* The records of what the checks have been through only shrink while they watch.
LEMMA GateWatchTyped ==
  ASSUME GateTyped, Gate!Watch
  PROVE  v8' \in [ForGate.Checks -> SUBSET Gate!Bars]
BY DEF GateTyped, Gate!Watch

\* The first use creates the row.
LEMMA GateProvisions ==
  ASSUME Gate!IInv, NEW c \in ForGate.Checks, Gate!Provision(c)
  PROVE  Gate!IInv'
<1>1. GateTyped /\ v7[c].pc = "provision" /\ Gate!Watch /\ UNCHANGED <<v1, v3, v4, v5, v6, v9>>
  BY GateTypes DEF Gate!IInv, Gate!Provision, Gate!At
<1>2. PICK r \in CheckState :
        /\ v7' = [v7 EXCEPT ![c] = r]
        /\ \/ r.pc = "reread" /\ r.answer = "none" /\ v2'.status # "none"
           \/ r.pc = "done" /\ r.answer = "notProvisioned"
  <2>1. v7[c] \in CheckState /\ v7[c].answer = "none"
    BY <1>1 DEF GateTyped, Gate!IInv, Gate!RuledOut, Gate!At
  <2>2. CASE Gate!Goto(c, "reread") /\ v2' = IF v2.status = "none" THEN [status |-> "active", until |-> 0] ELSE v2
    <3> DEFINE r == [v7[c] EXCEPT !.pc = "reread"]
    <3>1. r \in CheckState /\ r.pc = "reread" /\ r.answer = "none"
      BY <2>1 DEF CheckState
    <3>2. v7' = [v7 EXCEPT ![c] = r]
      BY <2>2 DEF Gate!Goto
    <3>3. v2'.status # "none"
      BY <2>2
    <3> QED BY <3>1, <3>2, <3>3
  <2>3. CASE Gate!Answer(c, "notProvisioned")
    <3> DEFINE r == [v7[c] EXCEPT !.pc = "done", !.answer = "notProvisioned"]
    <3>1. r \in CheckState /\ r.pc = "done" /\ r.answer = "notProvisioned"
      BY <2>1 DEF CheckState
    <3>2. v7' = [v7 EXCEPT ![c] = r]
      BY <2>3 DEF Gate!Answer
    <3> QED BY <3>1, <3>2
  <2> QED BY <2>2, <2>3 DEF Gate!Provision
<1>3. /\ v2' = v2 \/ v2' = [status |-> "active", until |-> 0]
      /\ v2.status # "none" => v2' = v2
  BY DEF Gate!Provision
<1>4. GateTyped'
  <2>1. v7' \in [ForGate.Checks -> CheckState]
    BY <1>1, <1>2 DEF GateTyped
  <2>2. 0 \in 0..ForGate.MaxTime
    BY GateBounds
  <2>3. v2' \in AccountRow
    BY <1>1, <1>3, <2>2 DEF GateTyped, AccountRow, Gate!Statuses
  <2> QED BY <1>1, <2>1, <2>3, GateWatchTyped DEF GateTyped
<1>5. \A d \in ForGate.Checks : v8'[d] \subseteq v8[d]
  BY <1>1 DEF Gate!Watch
<1>6. Gate!HeldInForce'
  <2>1. \A d \in ForGate.Checks : \A b \in v8'[d] : b \in v8[d] /\ Gate!InForce(b)'
    BY <1>1 DEF Gate!Watch
  <2>2. \A d \in ForGate.Checks : \A b \in v8[d] : Gate!Settled(b)
    BY DEF Gate!IInv, Gate!HeldInForce
  <2>3. \A b : Gate!Settled(b) => Gate!Settled(b)'
    BY <1>1 DEF Gate!Settled
  <2> QED BY <2>1, <2>2, <2>3 DEF Gate!HeldInForce
<1>7. Gate!CopiesAge' /\ Gate!SeededListsStay'
  <2>1. v1 \in Nat /\ v1' \in Nat /\ v1 <= v1'
    BY <1>1 DEF GateTyped
  <2> QED BY <1>1, <2>1, GateCopiesStay
<1>9. v7'[c].pc \in {"reread", "done"} /\ (v7'[c].pc = "reread" => v7'[c].answer = "none")
      /\ (v7'[c].pc = "reread" => v2'.status # "none") /\ v7'[c].answer # "allowed"
  BY <1>1, <1>2 DEF GateTyped
<1>10. "unknown" \notin v8[c] /\ "blocked" \notin v8[c]
  BY <1>1 DEF Gate!IInv, Gate!RuledOut, Gate!At
<1>11. \A d \in ForGate.Checks \ {c} : v7'[d] = v7[d]
  BY <1>1, <1>2 DEF GateTyped
<1>12. v2.status # "none" => v2'.status # "none"
  BY <1>3
<1> QED
  <2>1. ASSUME NEW d \in ForGate.Checks
        PROVE  \/ v7'[d] = v7[d] /\ v8'[d] \subseteq v8[d]
               \/ /\ v7'[d].pc \in {"blocks", "account", "provision", "reread", "list"} =>
                       "unknown" \notin v8'[d]
                  /\ v7'[d].pc \in {"account", "provision", "reread", "list"} => "blocked" \notin v8'[d]
                  /\ v7'[d].pc = "reread" => v2'.status # "none"
                  /\ v7'[d].pc = "list" =>
                       v7'[d].status \in {"restricted", "suspended"} /\ v8'[d] \subseteq {v7'[d].status}
                  /\ v7'[d].answer # "none" => v7'[d].pc = "done"
                  /\ v7'[d].answer = "allowed" => v8'[d] = {}
    <3>1. CASE d = c
      BY <1>5, <1>9, <1>10, <3>1
    <3>2. CASE d # c
      BY <1>5, <1>11, <3>2
    <3> QED BY <3>1, <3>2
  <2> QED BY <1>4, <1>6, <1>7, <1>12, <2>1, GateKeeps

\* A list is written: a bar that held all along goes on, or its list says otherwise.
LEMMA GateLists ==
  ASSUME Gate!IInv, NEW k \in Gate!ListNames, NEW v \in {"lists", "omits"}, Gate!SetList(k, v)
  PROVE  Gate!IInv'
<1>1. GateTyped
  BY GateTypes DEF Gate!IInv
<1>2. /\ UNCHANGED <<v1, v2, v3, v6, v7>> /\ Gate!Watch /\ v4[k].value # v
      /\ v9 < ForGate.MaxChanges /\ v9' = v9 + 1
  BY DEF Gate!SetList
<1>3. /\ v1 \in 1..ForGate.MaxTime /\ v4 \in [Gate!ListNames -> ListRow] /\ v9 \in 0..ForGate.MaxChanges
      /\ v5 \in [Gate!ListNames -> CacheRow]
  BY <1>1 DEF GateTyped
<1>4. v1 \in Nat /\ v1 \in 0..ForGate.MaxTime /\ 0 \in 0..(ForGate.MaxTime + ForGate.TTL)
      /\ v1' <= v1 /\ v1 <= v1'
  BY <1>2, <1>3, GateBounds
<1>5. [value |-> v, since |-> v1] \in ListRow /\ Gate!NoEntry \in CacheRow
  BY <1>4 DEF ListRow, CacheRow, Gate!NoEntry, Gate!ListValues
<1>6. \A j \in Gate!ListNames :
        /\ v4'[j] = IF j = k THEN [value |-> v, since |-> v1] ELSE v4[j]
        /\ v5'[j] = v5[j] \/ v5'[j] = Gate!NoEntry
  BY <1>3 DEF Gate!SetList
<1>7. GateTyped'
  <2>1. v4' \in [Gate!ListNames -> ListRow] /\ v5' \in [Gate!ListNames -> CacheRow]
    BY <1>3, <1>5 DEF Gate!SetList
  <2>2. v9' \in 0..ForGate.MaxChanges
    BY <1>2, <1>3, GateBounds
  <2> QED BY <1>1, <1>2, <2>1, <2>2, GateWatchTyped DEF GateTyped
<1>8. Gate!CopiesAge'
  <2>1. ASSUME NEW j \in Gate!ListNames, v5'[j].value # "unset"
        PROVE  /\ v5'[j].until \in (ForGate.TTL + 1)..(v1' + ForGate.TTL)
               /\ v5'[j].value = v4'[j].value \/ v5'[j].until <= v4'[j].since + ForGate.TTL
    <3>1. v5'[j] = v5[j]
      BY <1>6, <2>1 DEF Gate!NoEntry
    <3>2. /\ v5[j].until \in (ForGate.TTL + 1)..(v1 + ForGate.TTL)
          /\ v5[j].value = v4[j].value \/ v5[j].until <= v4[j].since + ForGate.TTL
      BY <2>1, <3>1 DEF Gate!IInv, Gate!CopiesAge
    <3>3. CASE j = k
      <4>1. v4'[j].since = v1
        BY <1>6, <3>3
      <4>2. v5[j].until <= v1 + ForGate.TTL
        BY <1>4, <3>2, GateBounds
      <4> QED BY <1>2, <3>1, <3>2, <4>1, <4>2
    <3>4. CASE j # k
      BY <1>2, <1>6, <3>1, <3>2, <3>4
    <3> QED BY <3>3, <3>4
  <2> QED BY <2>1 DEF Gate!CopiesAge
<1>9. Gate!SeededListsStay'
  BY <1>6 DEF Gate!IInv, Gate!SeededListsStay, Gate!ListNames
<1>10. ASSUME NEW b \in Gate!Bars, Gate!InForce(b), Gate!Settled(b), Gate!InForce(b)'
       PROVE  Gate!Settled(b)'
  <2> DEFINE j == IF b = "unknown" THEN "known" ELSE b
  <2>1. CASE j # k
    BY <1>2, <1>6, <1>10, <2>1 DEF Gate!Settled
  <2>2. CASE j = k
    <3>1. v4[k].value # v4'[k].value /\ v4'[k].value = v /\ v \in {"lists", "omits"}
      BY <1>2, <1>6
    <3>2. CASE b = "unknown"
      BY <1>10, <2>2, <3>1, <3>2 DEF Gate!InForce
    <3>3. CASE b # "unknown"
      <4>1. k \in {"restricted", "suspended"} /\ b = k
        BY <2>2, <3>3 DEF Gate!ListNames, Gate!Bars
      <4>2. v4[k].value # "omits" /\ v4'[k].value # "omits"
        BY <1>10, <4>1 DEF Gate!InForce
      <4>3. v4[k].value = "lists" /\ v4'[k].value = "lists"
        BY <1>3, <3>1, <4>1, <4>2 DEF ListRow, Gate!ListValues, Gate!IInv, Gate!SeededListsStay
      <4> QED BY <3>1, <4>3
    <3> QED BY <3>2, <3>3
  <2> QED BY <2>1, <2>2
<1> QED BY <1>2, <1>4, <1>7, <1>8, <1>9, <1>10, GateWatched

\* The clock runs: a bar that held all along goes on, or its time has run out.
LEMMA GateTicks ==
  ASSUME Gate!IInv, Gate!Tick
  PROVE  Gate!IInv'
<1>1. GateTyped
  BY GateTypes DEF Gate!IInv
<1>2. /\ UNCHANGED <<v2, v3, v4, v5, v6, v7, v9>> /\ Gate!Watch
      /\ v1 < ForGate.MaxTime /\ v1' = v1 + 1 /\ v1 \in 1..ForGate.MaxTime
  BY <1>1 DEF Gate!Tick, GateTyped
<1>3. v1' \in 1..ForGate.MaxTime /\ v1 \in Nat /\ v1' \in Nat /\ v1 <= v1'
  BY <1>2, GateBounds
<1>4. GateTyped'
  BY <1>1, <1>2, <1>3, GateWatchTyped DEF GateTyped
<1>5. Gate!CopiesAge' /\ Gate!SeededListsStay'
  BY <1>2, <1>3, GateCopiesStay
<1>6. \A j \in Gate!ListNames : v4[j].since \in Nat
  BY <1>1 DEF GateTyped, ListRow
<1>7. ASSUME NEW b \in Gate!Bars, Gate!Settled(b) PROVE Gate!Settled(b)'
  <2> DEFINE j == IF b = "unknown" THEN "known" ELSE b
  <2>1. j \in Gate!ListNames => v4[j].since = 0 \/ v4[j].since + ForGate.TTL < v1
    BY <1>7 DEF Gate!Settled
  <2>2. j \in Gate!ListNames => v4[j].since = 0 \/ v4[j].since + ForGate.TTL < v1'
    BY <1>2, <1>3, <1>6, <2>1, GateBounds
  <2> QED BY <1>2, <2>2 DEF Gate!Settled
<1> QED BY <1>2, <1>3, <1>4, <1>5, <1>7, GateWatched

\* The administrator's blocks and the account's standing.
LEMMA GateWorld ==
  ASSUME Gate!IInv,
         \/ \E op \in {"block", "unblock"} : Gate!AskBlock(op)
         \/ Gate!RecordBlock \/ Gate!handleBlockUserFeature \/ Gate!handleUnblockUserFeature
         \/ \E s \in Gate!Statuses \ {"none"}, until \in {0, v1} : Gate!SetStatus(s, until)
         \/ UNCHANGED Gate!vars
  PROVE  Gate!IInv'
<1>1. GateTyped
  BY GateTypes DEF Gate!IInv
<1>2. /\ v1 \in Nat /\ v1 \in 0..ForGate.MaxTime /\ 0 \in 0..ForGate.MaxTime
      /\ v9 < ForGate.MaxChanges => v9 + 1 \in 0..ForGate.MaxChanges
  BY <1>1, GateBounds DEF GateTyped
\* Nothing a check looks at.
<1>3. ASSUME UNCHANGED <<v1, v2, v3, v4, v5, v7, v8>>, v6' \in DeskState, v9' \in 0..ForGate.MaxChanges
      PROVE  Gate!IInv'
  <2>1. GateTyped'
    BY <1>1, <1>3 DEF GateTyped
  <2>2. Gate!CopiesAge' /\ Gate!SeededListsStay'
    BY <1>2, <1>3, GateCopiesStay
  <2>3. Gate!HeldInForce'
    BY <1>3 DEF Gate!IInv, Gate!HeldInForce, Gate!InForce, Gate!Settled, Gate!isExpired
  <2> QED BY <1>3, <2>1, <2>2, <2>3, GateKeeps
<1>4. ASSUME NEW op \in {"block", "unblock"}, Gate!AskBlock(op) PROVE Gate!IInv'
  <2>1. v6' \in DeskState
    BY <1>4 DEF Gate!AskBlock, DeskState
  <2> QED BY <1>2, <1>3, <1>4, <2>1 DEF Gate!AskBlock
<1>5. ASSUME Gate!RecordBlock PROVE Gate!IInv'
  <2>1. v6' \in DeskState
    BY <1>1, <1>5 DEF Gate!RecordBlock, DeskState, Gate!NoOp, GateTyped
  <2>2. v9' \in 0..ForGate.MaxChanges
    BY <1>1, <1>5 DEF Gate!RecordBlock, GateTyped
  <2> QED BY <1>3, <1>5, <2>1, <2>2 DEF Gate!RecordBlock
<1>6. ASSUME Gate!handleBlockUserFeature \/ Gate!handleUnblockUserFeature PROVE Gate!IInv'
  <2>1. UNCHANGED <<v1, v2, v4, v5, v7, v9>> /\ Gate!Watch /\ v3' \in BOOLEAN /\ v6' = Gate!NoOp
    BY <1>1, <1>6 DEF Gate!handleBlockUserFeature, Gate!handleUnblockUserFeature, GateTyped
  <2>2. GateTyped'
    BY <1>1, <2>1, GateWatchTyped DEF GateTyped, DeskState, Gate!NoOp
  <2> QED BY <2>1, <2>2, GateWrites
<1>7. ASSUME NEW s \in Gate!Statuses \ {"none"}, NEW until \in {0, v1}, Gate!SetStatus(s, until)
      PROVE  Gate!IInv'
  <2>1. /\ UNCHANGED <<v1, v3, v4, v5, v6, v7>> /\ Gate!Watch /\ v2' = [status |-> s, until |-> until]
        /\ v9' \in 0..ForGate.MaxChanges
    BY <1>2, <1>7 DEF Gate!SetStatus
  <2>2. GateTyped'
    BY <1>1, <1>2, <2>1, GateWatchTyped DEF GateTyped, AccountRow
  <2>3. v2'.status # "none"
    BY <2>1
  <2> QED BY <2>1, <2>2, <2>3, GateWrites
<1>8. ASSUME UNCHANGED Gate!vars PROVE Gate!IInv'
  BY <1>1, <1>3, <1>8 DEF Gate!vars, GateTyped
<1> QED BY <1>4, <1>5, <1>6, <1>7, <1>8

LEMMA GateInductive == Gate!IInv /\ [Gate!Next]_(Gate!vars) => Gate!IInv'
<1> SUFFICES ASSUME Gate!IInv, [Gate!Next]_(Gate!vars) PROVE Gate!IInv'
  OBVIOUS
<1> QED BY GateChecks, GateProvisions, GateWorld, GateLists, GateTicks DEF Gate!Next

\* A check allows a feature only if no bar was in force all the while: an unknown feature, a
\* block, a ban, a restriction or suspension, whatever reads fail and whatever changes in
\* between (account-status-guard.ts).
THEOREM NoBarIsEverPassed == Services => []NoBarIsPassed
<1> DEFINE Kept == running = "gate" => Gate!IInv
<1>1. ServicesInit => Kept
  BY GateAlone, GateFirst
<1>2. Kept /\ [ServicesNext]_<<running, vars, slots>> => Kept'
  <2> SUFFICES ASSUME Kept, [ServicesNext]_<<running, vars, slots>>, running' = "gate"
               PROVE  Gate!IInv'
    OBVIOUS
  <2>1. running = "gate"
    BY DEF ServicesNext, In
  <2> QED BY <2>1, GateAlone, GateInductive
<1>3. Kept => NoBarIsPassed
  BY DEF NoBarIsPassed, Gate!IInv
<1> QED BY <1>1, <1>2, <1>3, PTL DEF Services

-----------------------------------------------------------------------------
(* Compensation.  v1: steps, v2: walk, v3: done, v4: faults.               *)

LEMMA UnwindAlone ==
  ASSUME running = "unwind"
  PROVE  /\ ServicesInit => Unwind!Init
         /\ [ServicesNext]_<<running, vars, slots>> => running' = running /\ [Unwind!Next]_(Unwind!vars)
  BY DEF ServicesInit, ServicesNext, In, slots, Unwind!vars

\* The records of Compensation.
WalkState ==
  [pc : {"idle", "walk", "record", "done", "dead"}, todo : Seq(Nat \ {0}), read : Nat,
   already : SUBSET Nat, ok : BOOLEAN, compensated : Nat, skipped : Nat, failures : SUBSET Nat]
Deed == [walk : Calls, step : Nat]

UnwindTyped ==
  /\ v1 \in Seq(Unwind!Step) /\ v2 \in [Calls -> WalkState] /\ v3 \in Seq(Deed)
  /\ v4 \in 0..ForUnwind.MaxFaults

LEMMA UnwindTypes == (Unwind!TypeOK <=> UnwindTyped) /\ (Unwind!TypeOK' <=> UnwindTyped')
  BY DEF Unwind!TypeOK, UnwindTyped, WalkState, Deed

LEMMA UnwindBounds ==
  /\ ForUnwind.Kinds \subseteq {"commit", "note", "final"}
  /\ ForUnwind.Length \in Nat /\ ForUnwind.MaxLate \in Nat /\ ForUnwind.MaxFaults \in Nat
  BY ServicesAssumption DEF Unwind!UnwindAssumption


\* The failures are counted one by one.
LEMMA UnwindCounts ==
  /\ Unwind!IsFiniteSet({}) /\ Unwind!Cardinality({}) = 0
  /\ \A S : Unwind!IsFiniteSet(S) => Unwind!Cardinality(S) \in Nat
  /\ \A S, n : Unwind!IsFiniteSet(S) /\ n \notin S =>
       /\ Unwind!IsFiniteSet(S \cup {n})
       /\ Unwind!Cardinality(S \cup {n}) = Unwind!Cardinality(S) + 1
<1>1. \A S : Unwind!IsFiniteSet(S) <=> IsFiniteSet(S)
  BY DEF Unwind!IsFiniteSet, IsFiniteSet
<1>2. \A S : Unwind!Cardinality(S) = Cardinality(S)
  BY DEF Unwind!Cardinality, Cardinality
<1> QED BY <1>1, <1>2, FS_EmptySet, FS_AddElement, FS_CardinalityType

\* At the end nothing is left: the accounts add up to what was read.
LEMMA UnwindAddsUp == Unwind!IInv => Unwind!UnwindIsReverse
<1> SUFFICES ASSUME Unwind!IInv, NEW w \in Calls
             PROVE  /\ \A i, j \in Unwind!DoneBy(w) : i < j => v3[i].step > v3[j].step
                    /\ v2[w].pc = "done" =>
                         /\ Unwind!Total(v2[w]) = v2[w].read
                         /\ \A i \in Unwind!DoneBy(w) : Unwind!HasRecord(v3[i].step)
  BY DEF Unwind!UnwindIsReverse
<1>1. v2[w] \in WalkState /\ Unwind!LastFirst(w) /\ Unwind!Accounted(w) /\ Unwind!Undone(w)
  BY UnwindTypes DEF Unwind!IInv, UnwindTyped
<1>2. ASSUME v2[w].pc = "done"
      PROVE  /\ Unwind!Total(v2[w]) = v2[w].read
             /\ \A i \in Unwind!DoneBy(w) : Unwind!HasRecord(v3[i].step)
  <2>1. Len(v2[w].todo) = 0 /\ v2[w].read \in Nat /\ Unwind!Ahead(v2[w]) = 0
    BY <1>1, <1>2 DEF Unwind!LastFirst, WalkState, Unwind!Ahead
  <2>2. Unwind!Total(v2[w]) = v2[w].read - 0 + 0
    BY <1>1, <1>2, <2>1 DEF Unwind!Accounted
  <2> QED BY <1>1, <1>2, <2>1, <2>2 DEF Unwind!Undone
<1> QED BY <1>1, <1>2 DEF Unwind!Undone

LEMMA UnwindFirst == Unwind!Init => Unwind!IInv
<1> SUFFICES ASSUME Unwind!Init PROVE Unwind!IInv
  OBVIOUS
<1>1. PICK kinds \in [1..ForUnwind.Length -> ForUnwind.Kinds] :
        v1 = [i \in 1..ForUnwind.Length |-> Unwind!Recorded(kinds[i])]
  BY DEF Unwind!Init
<1>2. v1 \in Seq(Unwind!Step)
  <2>1. \A i \in 1..ForUnwind.Length : Unwind!Recorded(kinds[i]) \in Unwind!Step
    BY UnwindBounds DEF Unwind!Recorded, Unwind!Step
  <2> QED BY <1>1, <2>1, UnwindBounds
<1>3. /\ v2 = [w \in Calls |-> Unwind!Idle] /\ v3 = <<>> /\ v4 = 0
  BY DEF Unwind!Init
<1>4. /\ Unwind!Idle \in WalkState /\ Unwind!Idle.todo = <<>> /\ Unwind!Idle.read = 0
      /\ Unwind!Idle.pc = "idle" /\ Unwind!Idle.failures = {}
  BY DEF Unwind!Idle, WalkState
<1>5. UnwindTyped
  BY <1>2, <1>3, <1>4, UnwindBounds DEF UnwindTyped
<1>6. ASSUME NEW w \in Calls PROVE Unwind!LastFirst(w) /\ Unwind!Accounted(w) /\ Unwind!Undone(w)
  <2>1. v2[w] = Unwind!Idle /\ Unwind!DoneBy(w) = {}
    BY <1>3 DEF Unwind!DoneBy
  <2>2. Len(v1) \in Nat /\ Len(<<>>) = 0
    BY <1>2
  <2>3. Unwind!LastFirst(w)
    BY <1>4, <2>1, <2>2 DEF Unwind!LastFirst
  <2>4. Unwind!Accounted(w)
    BY <1>4, <2>1, UnwindCounts DEF Unwind!Accounted
  <2>5. Unwind!Undone(w)
    BY <2>1 DEF Unwind!Undone
  <2> QED BY <2>3, <2>4, <2>5
<1> QED BY <1>5, <1>6, UnwindTypes DEF Unwind!IInv

\* The history grows.
Cancels(s, n) == \E k \in DOMAIN s : s[k].kind = "undo" /\ s[k].of = n
Grows(s, t) == Len(s) <= Len(t) /\ \A k \in DOMAIN s : k \in DOMAIN t /\ t[k] = s[k]

\* A walk goes on: the history grows, and what is done is done by it.
LEMMA UnwindGoes ==
  ASSUME Unwind!IInv, NEW w \in Calls, NEW r \in WalkState, v2' = [v2 EXCEPT ![w] = r],
         v1' \in Seq(Unwind!Step), Grows(v1, v1'), v4' \in 0..ForUnwind.MaxFaults,
         \/ v3' = v3
         \/ \E n \in Nat : v3' = Append(v3, [walk |-> w, step |-> n]),
         r.pc # "idle", r.read <= Len(v1'), Len(r.todo) <= r.read,
         \A i \in DOMAIN r.todo : r.todo[i] = Len(r.todo) - i + 1,
         r.pc = "record" => r.todo # <<>>, r.pc = "done" => r.todo = <<>>,
         Unwind!IsFiniteSet(r.failures),
         r.pc \in {"walk", "record", "done"} =>
            /\ Unwind!Total(r) = r.read - Len(r.todo) + Unwind!Ahead(r)
            /\ \A n \in r.failures : n > Len(r.todo) - Unwind!Ahead(r),
         \A i \in DOMAIN v3' : v3'[i].walk = w =>
            \/ v3'[i].step > Len(r.todo) /\ Cancels(v1', v3'[i].step)
            \/ v3'[i].step = Len(r.todo) /\ r.pc \in {"record", "dead"},
         \A i, j \in DOMAIN v3' : v3'[i].walk = w /\ v3'[j].walk = w /\ i < j =>
            v3'[i].step > v3'[j].step
  PROVE  Unwind!IInv'
<1>1. UnwindTyped
  BY UnwindTypes DEF Unwind!IInv
<1>2. /\ v2'[w] = r /\ \A u \in Calls \ {w} : v2'[u] = v2[u]
      /\ v2' \in [Calls -> WalkState] /\ v1 \in Seq(Unwind!Step) /\ v3 \in Seq(Deed)
  BY <1>1 DEF UnwindTyped
<1>3. /\ v3' \in Seq(Deed)
      /\ \A i \in DOMAIN v3 : i \in DOMAIN v3' /\ v3'[i] = v3[i]
      /\ \A i \in DOMAIN v3' : v3'[i].walk # w => i \in DOMAIN v3
  <2>1. CASE v3' = v3
    BY <1>2, <2>1
  <2>2. ASSUME NEW n \in Nat, v3' = Append(v3, [walk |-> w, step |-> n])
        PROVE  <1>3!1 /\ <1>3!2 /\ <1>3!3
    <3>1. [walk |-> w, step |-> n] \in Deed
      BY DEF Deed
    <3> QED BY <1>2, <2>2, <3>1
  <2> QED BY <2>1, <2>2
<1>4. UnwindTyped'
  BY <1>2, <1>3 DEF UnwindTyped
<1>5. ASSUME NEW n, Unwind!HasRecord(n) PROVE Cancels(v1', n)
  BY <1>5 DEF Unwind!HasRecord, Cancels, Grows
<1>6. Unwind!LastFirst(w)' /\ Unwind!Accounted(w)'
  <2>1. Unwind!LastFirst(w)'
    BY <1>2 DEF Unwind!LastFirst
  <2>2. Unwind!Accounted(w)'
    BY <1>2 DEF Unwind!Accounted
  <2> QED BY <2>1, <2>2
<1>7. Unwind!Undone(w)'
  <2>1. \A i \in Unwind!DoneBy(w)' : i \in DOMAIN v3' /\ v3'[i].walk = w
    BY DEF Unwind!DoneBy
  <2>2. \A i \in Unwind!DoneBy(w)' :
          \/ v3'[i].step > Len(v2'[w].todo) /\ Cancels(v1', v3'[i].step)
          \/ v3'[i].step = Len(v2'[w].todo) /\ v2'[w].pc \in {"record", "dead"}
    BY <1>2, <2>1
  <2>3. \A i, j \in Unwind!DoneBy(w)' : i < j => v3'[i].step > v3'[j].step
    BY <2>1
  <2>4. v2'[w].pc # "idle"
    BY <1>2
  <2> QED BY <2>2, <2>3, <2>4 DEF Unwind!Undone, Unwind!HasRecord, Cancels
<1>8. ASSUME NEW u \in Calls \ {w}
      PROVE  Unwind!LastFirst(u)' /\ Unwind!Accounted(u)' /\ Unwind!Undone(u)'
  <2>1. Unwind!LastFirst(u) /\ Unwind!Accounted(u) /\ Unwind!Undone(u) /\ v2'[u] = v2[u]
        /\ v2[u] \in WalkState
    BY <1>1, <1>2 DEF Unwind!IInv, UnwindTyped
  <2>2. v2[u].read <= Len(v1')
    <3>1. Len(v1) \in Nat /\ Len(v1') \in Nat /\ v2[u].read \in Nat
      BY <1>2, <2>1 DEF WalkState
    <3> QED BY <2>1, <3>1 DEF Unwind!LastFirst, Grows
  <2>3. Unwind!LastFirst(u)' /\ Unwind!Accounted(u)'
    BY <2>1, <2>2 DEF Unwind!LastFirst, Unwind!Accounted
  <2>4. Unwind!DoneBy(u)' = Unwind!DoneBy(u) /\ \A i \in Unwind!DoneBy(u) : v3'[i] = v3[i]
    BY <1>3 DEF Unwind!DoneBy
  <2>5. Unwind!Undone(u)'
    <3>1. \A i \in Unwind!DoneBy(u) :
            \/ v3'[i].step > Len(v2'[u].todo) /\ Cancels(v1', v3'[i].step)
            \/ v3'[i].step = Len(v2'[u].todo) /\ v2'[u].pc \in {"record", "dead"}
      BY <1>5, <2>1, <2>4 DEF Unwind!Undone
    <3>2. \A i, j \in Unwind!DoneBy(u) : i < j => v3'[i].step > v3'[j].step
      BY <2>1, <2>4 DEF Unwind!Undone
    <3>3. v2'[u].pc = "idle" => Unwind!DoneBy(u)' = {}
      BY <2>1, <2>4 DEF Unwind!Undone
    <3> QED BY <2>4, <3>1, <3>2, <3>3 DEF Unwind!Undone, Unwind!HasRecord, Cancels
  <2> QED BY <2>3, <2>5
<1> QED BY <1>4, <1>6, <1>7, <1>8, UnwindTypes DEF Unwind!IInv

\* What is left, and what is left after this step.
LEMMA UnwindTail ==
  ASSUME Unwind!IInv, NEW w \in Calls, v2[w].todo # <<>>
  PROVE  /\ Len(v2[w].todo) \in Nat \ {0} /\ Unwind!On(w) = Len(v2[w].todo)
         /\ Tail(v2[w].todo) \in Seq(Nat \ {0}) /\ Len(Tail(v2[w].todo)) = Len(v2[w].todo) - 1
         /\ \A i \in DOMAIN Tail(v2[w].todo) :
              Tail(v2[w].todo)[i] = Len(Tail(v2[w].todo)) - i + 1
<1> DEFINE todo == v2[w].todo
<1>1. todo \in Seq(Nat \ {0}) /\ \A i \in DOMAIN todo : todo[i] = Len(todo) - i + 1
  BY UnwindTypes DEF Unwind!IInv, UnwindTyped, WalkState, Unwind!LastFirst
<1>2. Len(todo) \in Nat \ {0} /\ 1 \in DOMAIN todo /\ Head(todo) = todo[1]
  BY <1>1
<1>3. Len(todo) - 1 + 1 = Len(todo)
  BY <1>2
<1>4. Unwind!On(w) = Len(todo)
  BY <1>1, <1>2, <1>3 DEF Unwind!On
<1>5. Tail(todo) \in Seq(Nat \ {0}) /\ Len(Tail(todo)) = Len(todo) - 1
      /\ \A i \in 1..(Len(todo) - 1) : Tail(todo)[i] = todo[i + 1]
  BY <1>1, <1>2
<1>6. DOMAIN Tail(todo) = 1..(Len(todo) - 1)
  BY <1>5
<1>7. \A i \in 1..(Len(todo) - 1) :
        i + 1 \in DOMAIN todo /\ Len(todo) - (i + 1) + 1 = Len(todo) - 1 - i + 1
  BY <1>1, <1>2
<1> QED BY <1>1, <1>2, <1>4, <1>5, <1>6, <1>7

LEMMA UnwindStays ==
  ASSUME Unwind!IInv
  PROVE  v1 \in Seq(Unwind!Step) /\ Grows(v1, v1) /\ v4 \in 0..ForUnwind.MaxFaults
         /\ (v4 < ForUnwind.MaxFaults => v4 + 1 \in 0..ForUnwind.MaxFaults)
         /\ \A w \in Calls : v2[w] \in WalkState
<1>1. UnwindTyped
  BY UnwindTypes DEF Unwind!IInv
<1>2. v4 \in 0..ForUnwind.MaxFaults /\ (v4 < ForUnwind.MaxFaults => v4 + 1 \in 0..ForUnwind.MaxFaults)
  BY <1>1, UnwindBounds DEF UnwindTyped
<1> QED BY <1>1, <1>2 DEF UnwindTyped, Grows

\* What a walk has done so far.
LEMMA UnwindDone ==
  ASSUME Unwind!IInv, NEW w \in Calls
  PROVE  /\ \A i \in DOMAIN v3 : v3[i].walk = w =>
              \/ v3[i].step > Len(v2[w].todo) /\ Cancels(v1, v3[i].step)
              \/ v3[i].step = Len(v2[w].todo) /\ v2[w].pc \in {"record", "dead"}
         /\ \A i, j \in DOMAIN v3 : v3[i].walk = w /\ v3[j].walk = w /\ i < j =>
              v3[i].step > v3[j].step
         /\ v2[w].pc = "idle" => \A i \in DOMAIN v3 : v3[i].walk # w
  BY DEF Unwind!IInv, Unwind!Undone, Unwind!DoneBy, Unwind!HasRecord, Cancels

LEMMA UnwindDeeds == Unwind!IInv => \A i \in DOMAIN v3 : v3[i].step \in Nat
<1> SUFFICES ASSUME Unwind!IInv PROVE \A i \in DOMAIN v3 : v3[i].step \in Nat
  OBVIOUS
<1>1. v3 \in Seq(Deed)
  BY UnwindTypes DEF Unwind!IInv, UnwindTyped
<1>2. \A i \in DOMAIN v3 : v3[i] \in Deed
  BY <1>1
<1> QED BY <1>2 DEF Deed

\* A walk begins with all that is recorded, last first.
LEMMA UnwindBegins ==
  ASSUME Unwind!IInv, NEW w \in Calls, Unwind!Begin(w)
  PROVE  Unwind!IInv'
<1> DEFINE n == Len(v1)
           todo == Unwind!Reversed(n)
           r == [Unwind!Idle EXCEPT !.pc = "walk", !.todo = todo, !.read = n,
                                    !.already = {v1[i].of : i \in DOMAIN v1} \ {0}]
<1>1. v2' = [v2 EXCEPT ![w] = r] /\ UNCHANGED <<v1, v3, v4>> /\ v2[w].pc = "idle"
  BY DEF Unwind!Begin
<1>2. n \in Nat /\ \A i \in DOMAIN v1 : v1[i].of \in Nat
  <2>1. v1 \in Seq(Unwind!Step)
    BY UnwindStays
  <2>2. n \in Nat /\ \A i \in DOMAIN v1 : v1[i] \in Unwind!Step
    BY <2>1
  <2> QED BY <2>2 DEF Unwind!Step
<1>3. todo = [i \in 1..n |-> n - i + 1]
  <2> DEFINE up == [i \in 1..n |-> i]
  <2>1. up \in Seq(Nat) /\ Len(up) = n
    BY <1>2
  <2>2. \A i \in 1..n : n - i + 1 \in 1..n
    BY <1>2
  <2>3. Unwind!Reverse(up) = [i \in 1..n |-> up[(n - i) + 1]]
    BY <2>1 DEF Unwind!Reverse
  <2> QED BY <2>2, <2>3 DEF Unwind!Reversed
<1>4. todo \in Seq(Nat \ {0}) /\ Len(todo) = n
  <2>1. \A i \in 1..n : n - i + 1 \in Nat \ {0}
    BY <1>2
  <2> QED BY <1>2, <1>3, <2>1
<1>5. DOMAIN todo = 1..n
  BY <1>3
<1>6. {v1[i].of : i \in DOMAIN v1} \ {0} \in SUBSET Nat
  BY <1>2
<1> HIDE DEF todo
<1>7. /\ r \in WalkState /\ r.pc = "walk" /\ r.todo = todo /\ r.read = n /\ r.failures = {}
      /\ r.skipped = 0 /\ r.compensated = 0
  BY <1>2, <1>4, <1>6 DEF WalkState, Unwind!Idle
<1> HIDE DEF r
<1>8. Unwind!Total(r) = 0 /\ Unwind!Ahead(r) = 0
  BY <1>7, UnwindCounts DEF Unwind!Total, Unwind!Ahead
<1>9. Unwind!Total(r) = r.read - Len(r.todo) + Unwind!Ahead(r)
  BY <1>2, <1>4, <1>7, <1>8
<1>10. \A i \in DOMAIN r.todo : r.todo[i] = Len(r.todo) - i + 1
  BY <1>3, <1>4, <1>5, <1>7
<1>11. \A i \in DOMAIN v3 : v3[i].walk # w
  BY <1>1, UnwindDone
<1>12. r.read <= Len(v1) /\ Len(r.todo) <= r.read /\ Unwind!IsFiniteSet(r.failures)
  BY <1>2, <1>4, <1>7, UnwindCounts
<1> QED BY <1>1, <1>7, <1>9, <1>10, <1>11, <1>12, UnwindStays, UnwindGoes

\* The sum of the accounts goes up as what is left goes down.
LEMMA OneMore ==
  ASSUME NEW s1 \in Nat, NEW f1 \in Nat, NEW s2 \in Nat, NEW f2 \in Nat, NEW k \in Nat,
         NEW n \in Nat, NEW l \in Nat, s1 + k + f1 = n - l + 0, s2 + f2 = s1 + f1 + 1
  PROVE  s2 + k + f2 = n - (l - 1) + 0
  OBVIOUS

\* A step is passed over, or found not to be compensable.
LEMMA UnwindPasses ==
  ASSUME Unwind!IInv, NEW w \in Calls, Unwind!Skip(w) \/ Unwind!ReportFinal(w)
  PROVE  Unwind!IInv'
<1> DEFINE o == v2[w]
           left == Len(o.todo)
<1>1. /\ o.pc = "walk" /\ o.todo # <<>> /\ UNCHANGED <<v1, v3, v4>> /\ o \in WalkState
  BY UnwindStays DEF Unwind!Skip, Unwind!ReportFinal, Unwind!Visiting
<1>2. /\ left \in Nat \ {0} /\ Unwind!On(w) = left /\ Tail(o.todo) \in Seq(Nat \ {0})
      /\ Len(Tail(o.todo)) = left - 1
      /\ \A i \in DOMAIN Tail(o.todo) : Tail(o.todo)[i] = Len(Tail(o.todo)) - i + 1
  BY <1>1, UnwindTail
<1>3. /\ o.read <= Len(v1) /\ left <= o.read /\ Unwind!IsFiniteSet(o.failures)
      /\ o.skipped + o.compensated + Unwind!Cardinality(o.failures) = o.read - left + 0
      /\ \A n \in o.failures : n > left - 0
  BY <1>1 DEF Unwind!IInv, Unwind!LastFirst, Unwind!Accounted, Unwind!Total, Unwind!Ahead
<1>4. /\ o.read \in Nat /\ o.skipped \in Nat /\ o.compensated \in Nat /\ o.failures \in SUBSET Nat
      /\ Unwind!Cardinality(o.failures) \in Nat /\ Len(v1) \in Nat
  BY <1>1, <1>3, UnwindCounts, UnwindStays DEF WalkState
<1>5. \A i \in DOMAIN v3 : v3[i].walk = w => v3[i].step > left /\ Cancels(v1, v3[i].step)
  BY <1>1, UnwindDone
<1>6. \A i \in DOMAIN v3 : v3[i].walk = w => v3[i].step \in Nat
  BY UnwindDeeds
\* The step is left behind.
<1>7. ASSUME NEW r \in WalkState, v2' = [v2 EXCEPT ![w] = r],
             r.pc = "walk", r.todo = Tail(o.todo), r.read = o.read, r.compensated = o.compensated,
             Unwind!IsFiniteSet(r.failures), r.failures \subseteq o.failures \cup {left},
             r.skipped + Unwind!Cardinality(r.failures)
               = o.skipped + Unwind!Cardinality(o.failures) + 1
      PROVE  Unwind!IInv'
  <2>1. Unwind!Ahead(r) = 0 /\ Len(r.todo) = left - 1
    BY <1>2, <1>7 DEF Unwind!Ahead
  <2>2. r.skipped \in Nat /\ Unwind!Cardinality(r.failures) \in Nat
    BY <1>7, UnwindCounts DEF WalkState
  <2>3. Unwind!Total(r) = r.read - Len(r.todo) + Unwind!Ahead(r)
    <3>1. /\ r.read = o.read /\ r.compensated = o.compensated
          /\ r.skipped + Unwind!Cardinality(r.failures)
               = o.skipped + Unwind!Cardinality(o.failures) + 1
      BY <1>7
    <3>2. /\ o.skipped + o.compensated + Unwind!Cardinality(o.failures) = o.read - left + 0
          /\ left \in Nat
      BY <1>2, <1>3
    <3> DEFINE s2 == r.skipped
               f2 == Unwind!Cardinality(r.failures)
               s1 == o.skipped
               f1 == Unwind!Cardinality(o.failures)
               k == o.compensated
               n == o.read
    <3>3. s1 \in Nat /\ f1 \in Nat /\ s2 \in Nat /\ f2 \in Nat /\ k \in Nat /\ n \in Nat
      BY <1>4, <2>2
    <3>4. s1 + k + f1 = n - left + 0 /\ s2 + f2 = s1 + f1 + 1 /\ left \in Nat
      BY <3>1, <3>2
    <3>5. s2 + k + f2 = n - (left - 1) + 0
      <4> HIDE DEF s1, s2, f1, f2, k, n, left
      <4> QED BY <3>3, <3>4, OneMore
    <3> QED BY <2>1, <3>1, <3>5 DEF Unwind!Total
  <2>4. \A n \in r.failures : n > Len(r.todo) - Unwind!Ahead(r)
    <3> SUFFICES ASSUME NEW n \in r.failures PROVE n > left - 1 - 0
      BY <2>1
    <3>1. n \in o.failures \/ n = left
      BY <1>7
    <3>2. n \in o.failures => n \in Nat /\ n > left - 0
      BY <1>3, <1>4
    <3> QED BY <1>2, <3>1, <3>2
  <2>5. r.read <= Len(v1) /\ Len(r.todo) <= r.read
    BY <1>2, <1>3, <1>4, <1>7, <2>1
  <2>6. \A i \in DOMAIN r.todo : r.todo[i] = Len(r.todo) - i + 1
    BY <1>2, <1>7
  <2>7. \A i \in DOMAIN v3 : v3[i].walk = w => v3[i].step > Len(r.todo) /\ Cancels(v1, v3[i].step)
    BY <1>2, <1>5, <1>6, <2>1
  <2>8. /\ \A i \in DOMAIN v3' : v3'[i].walk = w =>
             v3'[i].step > Len(r.todo) /\ Cancels(v1', v3'[i].step)
        /\ \A i, j \in DOMAIN v3' : v3'[i].walk = w /\ v3'[j].walk = w /\ i < j =>
             v3'[i].step > v3'[j].step
    BY <1>1, <2>7, UnwindDone
  <2>9. /\ v1' \in Seq(Unwind!Step) /\ Grows(v1, v1') /\ v4' \in 0..ForUnwind.MaxFaults
        /\ v3' = v3 /\ r.read <= Len(v1')
    BY <1>1, <2>5, UnwindStays
  <2> QED BY <1>7, <2>3, <2>4, <2>5, <2>6, <2>8, <2>9, UnwindGoes
<1>8. CASE Unwind!Skip(w)
  <2> DEFINE r == [[o EXCEPT !.skipped = @ + 1] EXCEPT !.todo = Tail(@), !.pc = "walk"]
  <2>1. v2' = [v2 EXCEPT ![w] = r]
    BY <1>8 DEF Unwind!Skip, Unwind!Next_
  <2>2. o.skipped + 1 \in Nat
    BY <1>4
  <2>3. /\ r \in WalkState /\ r.pc = "walk" /\ r.todo = Tail(o.todo) /\ r.read = o.read
        /\ r.compensated = o.compensated /\ r.skipped = o.skipped + 1 /\ r.failures = o.failures
    BY <1>1, <1>2, <2>2 DEF WalkState
  <2> HIDE DEF r
  <2>4. r.skipped + Unwind!Cardinality(r.failures) = o.skipped + Unwind!Cardinality(o.failures) + 1
    BY <1>4, <2>3
  <2> QED BY <1>3, <1>7, <2>1, <2>3, <2>4
<1>9. CASE Unwind!ReportFinal(w)
  <2> DEFINE r == [[o EXCEPT !.failures = @ \cup {left}] EXCEPT !.todo = Tail(@), !.pc = "walk"]
  <2>1. v2' = [v2 EXCEPT ![w] = r]
    BY <1>2, <1>9 DEF Unwind!ReportFinal, Unwind!Next_
  <2>2. o.failures \cup {left} \in SUBSET Nat
    BY <1>2, <1>4
  <2>3. /\ r \in WalkState /\ r.pc = "walk" /\ r.todo = Tail(o.todo) /\ r.read = o.read
        /\ r.compensated = o.compensated /\ r.skipped = o.skipped
        /\ r.failures = o.failures \cup {left}
    BY <1>1, <1>2, <2>2 DEF WalkState
  <2> HIDE DEF r
  <2>4. left \notin o.failures
    BY <1>2, <1>3
  <2>5. /\ Unwind!IsFiniteSet(r.failures)
        /\ Unwind!Cardinality(r.failures) = Unwind!Cardinality(o.failures) + 1
    BY <1>3, <2>3, <2>4, UnwindCounts
  <2>6. r.skipped + Unwind!Cardinality(r.failures) = o.skipped + Unwind!Cardinality(o.failures) + 1
    BY <1>4, <2>3, <2>5
  <2> QED BY <1>7, <2>1, <2>3, <2>5, <2>6
<1> QED BY <1>8, <1>9

\* A step is compensated, or its compensation fails, and may have been done all the same.
LEMMA UnwindPerforms ==
  ASSUME Unwind!IInv, NEW w \in Calls, Unwind!Perform(w)
  PROVE  Unwind!IInv'
<1> DEFINE o == v2[w]
           left == Len(o.todo)
<1>1. /\ o.pc = "walk" /\ o.todo # <<>> /\ v1' = v1 /\ o \in WalkState
  BY UnwindStays DEF Unwind!Perform, Unwind!Visiting
<1>2. left \in Nat \ {0} /\ Unwind!On(w) = left
  BY <1>1, UnwindTail
<1>3. /\ o.read <= Len(v1) /\ left <= o.read /\ Unwind!IsFiniteSet(o.failures)
      /\ \A i \in DOMAIN o.todo : o.todo[i] = left - i + 1
      /\ o.skipped + o.compensated + Unwind!Cardinality(o.failures) = o.read - left + 0
      /\ \A n \in o.failures : n > left - 0
  BY <1>1 DEF Unwind!IInv, Unwind!LastFirst, Unwind!Accounted, Unwind!Total, Unwind!Ahead
<1>4. /\ o.read \in Nat /\ o.skipped \in Nat /\ o.compensated \in Nat /\ o.failures \in SUBSET Nat
      /\ Unwind!Cardinality(o.failures) \in Nat
  BY <1>1, <1>3, UnwindCounts DEF WalkState
<1>5. \/ v3' = v3
      \/ v3' = Append(v3, [walk |-> w, step |-> left])
  BY <1>2 DEF Unwind!Perform, Unwind!Did
<1>6. v4' \in 0..ForUnwind.MaxFaults
  BY UnwindStays DEF Unwind!Perform
\* What it has done is done in order.
<1>7. /\ \A i \in DOMAIN v3' : v3'[i].walk = w =>
           \/ v3'[i].step > left /\ Cancels(v1', v3'[i].step)
           \/ v3'[i].step = left
      /\ \A i, j \in DOMAIN v3' : v3'[i].walk = w /\ v3'[j].walk = w /\ i < j =>
           v3'[i].step > v3'[j].step
  <2>1. /\ \A i \in DOMAIN v3 : v3[i].walk = w => v3[i].step > left /\ Cancels(v1', v3[i].step)
        /\ \A i, j \in DOMAIN v3 : v3[i].walk = w /\ v3[j].walk = w /\ i < j =>
             v3[i].step > v3[j].step
    BY <1>1, UnwindDone
  <2>2. CASE v3' = v3
    BY <2>1, <2>2
  <2>3. CASE v3' = Append(v3, [walk |-> w, step |-> left])
    <3>1. v3 \in Seq(Deed) /\ [walk |-> w, step |-> left] \in Deed
      BY <1>2, UnwindTypes DEF Unwind!IInv, UnwindTyped, Deed
    <3>2. /\ DOMAIN v3 = 1..Len(v3) /\ DOMAIN v3' = 1..(Len(v3) + 1) /\ Len(v3) \in Nat
          /\ \A i \in DOMAIN v3 : v3'[i] = v3[i]
          /\ v3'[Len(v3) + 1] = [walk |-> w, step |-> left]
      BY <2>3, <3>1
    <3>3. \A i \in DOMAIN v3' : i \in DOMAIN v3 \/ i = Len(v3) + 1
      BY <3>2
    <3>4. \A i, j \in DOMAIN v3' : i < j => i \in DOMAIN v3
      BY <3>2
    <3>5. v3'[Len(v3) + 1].step = left
      BY <3>2
    <3>6. ASSUME NEW i \in DOMAIN v3', v3'[i].walk = w
          PROVE  (v3'[i].step > left /\ Cancels(v1', v3'[i].step)) \/ v3'[i].step = left
      BY <2>1, <3>2, <3>3, <3>5, <3>6
    <3>7. ASSUME NEW i \in DOMAIN v3', NEW j \in DOMAIN v3', v3'[i].walk = w, v3'[j].walk = w, i < j
          PROVE  v3'[i].step > v3'[j].step
      <4>1. i \in DOMAIN v3 /\ v3[i].walk = w /\ v3'[i] = v3[i]
        BY <3>2, <3>4, <3>7
      <4>2. CASE j \in DOMAIN v3
        BY <2>1, <3>2, <3>7, <4>1, <4>2
      <4>3. CASE j = Len(v3) + 1
        BY <2>1, <3>5, <4>1, <4>3
      <4> QED BY <3>3, <4>2, <4>3
    <3> QED BY <3>6, <3>7
  <2> QED BY <1>5, <2>2, <2>3
<1>8. ASSUME NEW r \in WalkState, v2' = [v2 EXCEPT ![w] = r], r.pc = "record",
             r.todo = o.todo, r.read = o.read, Unwind!IsFiniteSet(r.failures),
             Unwind!Total(r) = o.read - left + Unwind!Ahead(r),
             \A n \in r.failures : n > left - Unwind!Ahead(r)
      PROVE  Unwind!IInv'
  <2>1. /\ v1' \in Seq(Unwind!Step) /\ Grows(v1, v1') /\ r.read <= Len(v1')
        /\ Len(r.todo) <= r.read /\ r.pc # "idle" /\ r.pc # "done" /\ r.todo # <<>>
    BY <1>1, <1>3, <1>8, UnwindStays
  <2>2. \A i \in DOMAIN v3' : v3'[i].walk = w =>
           \/ v3'[i].step > Len(r.todo) /\ Cancels(v1', v3'[i].step)
           \/ v3'[i].step = Len(r.todo) /\ r.pc \in {"record", "dead"}
    BY <1>7, <1>8
  <2>3. /\ \A i \in DOMAIN r.todo : r.todo[i] = Len(r.todo) - i + 1
        /\ Unwind!Total(r) = r.read - Len(r.todo) + Unwind!Ahead(r)
        /\ \A n \in r.failures : n > Len(r.todo) - Unwind!Ahead(r)
    BY <1>3, <1>8
  <2>4. v3' = v3 \/ \E n \in Nat : v3' = Append(v3, [walk |-> w, step |-> n])
    BY <1>2, <1>5
  <2> QED BY <1>6, <1>7, <1>8, <2>1, <2>2, <2>3, <2>4, UnwindGoes
<1>9. CASE v2' = [v2 EXCEPT ![w].pc = "record", ![w].ok = TRUE]
  <2> DEFINE r == [o EXCEPT !.pc = "record", !.ok = TRUE]
  <2>1. v2' = [v2 EXCEPT ![w] = r]
    BY <1>9
  <2>2. /\ r \in WalkState /\ r.pc = "record" /\ r.ok = TRUE /\ r.todo = o.todo /\ r.read = o.read
        /\ r.skipped = o.skipped /\ r.compensated = o.compensated /\ r.failures = o.failures
    BY <1>1 DEF WalkState
  <2> HIDE DEF r
  <2>3. Unwind!Ahead(r) = 0
    BY <2>2 DEF Unwind!Ahead
  <2>4. Unwind!Total(r) = o.read - left + Unwind!Ahead(r)
    BY <1>3, <2>2, <2>3 DEF Unwind!Total
  <2>5. \A n \in r.failures : n > left - Unwind!Ahead(r)
    BY <1>3, <2>2, <2>3
  <2> QED BY <1>3, <1>8, <2>1, <2>2, <2>4, <2>5
<1>10. CASE v2' = [v2 EXCEPT ![w].pc = "record", ![w].ok = FALSE, ![w].failures = @ \cup {Unwind!On(w)}]
  <2> DEFINE r == [o EXCEPT !.pc = "record", !.ok = FALSE, !.failures = @ \cup {left}]
  <2>1. v2' = [v2 EXCEPT ![w] = r]
    BY <1>2, <1>10
  <2>2. o.failures \cup {left} \in SUBSET Nat /\ left \notin o.failures
    BY <1>2, <1>3, <1>4
  <2>3. /\ r \in WalkState /\ r.pc = "record" /\ r.ok = FALSE /\ r.todo = o.todo /\ r.read = o.read
        /\ r.skipped = o.skipped /\ r.compensated = o.compensated
        /\ r.failures = o.failures \cup {left}
    BY <1>1, <2>2 DEF WalkState
  <2> HIDE DEF r
  <2>4. Unwind!Ahead(r) = 1
    BY <2>3 DEF Unwind!Ahead
  <2>5. /\ Unwind!IsFiniteSet(r.failures)
        /\ Unwind!Cardinality(r.failures) = Unwind!Cardinality(o.failures) + 1
    BY <1>3, <2>2, <2>3, UnwindCounts
  <2> DEFINE sum == o.skipped + o.compensated
             f == Unwind!Cardinality(o.failures)
             q == o.read
  <2>6. sum + (f + 1) = q - left + 1
    <3>1. sum \in Nat /\ f \in Nat /\ q \in Nat /\ left \in Nat /\ sum + f = q - left + 0
      BY <1>2, <1>3, <1>4
    <3> HIDE DEF sum, f, q, left
    <3> QED BY <3>1
  <2>7. Unwind!Total(r) = o.read - left + Unwind!Ahead(r)
    BY <2>3, <2>4, <2>5, <2>6 DEF Unwind!Total
  <2>8. \A n \in r.failures : n > left - Unwind!Ahead(r)
    <3> SUFFICES ASSUME NEW m \in r.failures PROVE m > left - 1
      BY <2>4
    <3>1. m = left \/ (m \in Nat /\ m > left - 0)
      BY <1>3, <1>4, <2>3
    <3> QED BY <1>2, <3>1
  <2> QED BY <1>8, <2>1, <2>3, <2>5, <2>7, <2>8
<1> QED BY <1>9, <1>10 DEF Unwind!Perform

\* The compensation is recorded, and the step left behind.
LEMMA UnwindRecords ==
  ASSUME Unwind!IInv, NEW w \in Calls, Unwind!Record(w)
  PROVE  Unwind!IInv'
<1> DEFINE o == v2[w]
           left == Len(o.todo)
           undo == [kind |-> "undo", of |-> left, ok |-> o.ok]
           r == [[o EXCEPT !.compensated = IF o.ok THEN @ + 1 ELSE @] EXCEPT !.todo = Tail(@), !.pc = "walk"]
<1>1. /\ o.pc = "record" /\ UNCHANGED <<v3, v4>> /\ o \in WalkState /\ o.todo # <<>>
      /\ v2' = [v2 EXCEPT ![w] = r]
  BY UnwindStays DEF Unwind!Record, Unwind!Next_, Unwind!IInv, Unwind!LastFirst
<1>2. /\ left \in Nat \ {0} /\ Unwind!On(w) = left /\ Tail(o.todo) \in Seq(Nat \ {0})
      /\ Len(Tail(o.todo)) = left - 1
      /\ \A i \in DOMAIN Tail(o.todo) : Tail(o.todo)[i] = Len(Tail(o.todo)) - i + 1
  BY <1>1, UnwindTail
<1>3. v1' = Append(v1, undo) /\ undo \in Unwind!Step /\ v1 \in Seq(Unwind!Step)
  <2>1. o.ok \in BOOLEAN
    BY <1>1 DEF WalkState
  <2> QED BY <1>2, <2>1, UnwindStays DEF Unwind!Record, Unwind!Step
<1>4. /\ v1' \in Seq(Unwind!Step) /\ Grows(v1, v1') /\ Len(v1') = Len(v1) + 1 /\ Len(v1) \in Nat
      /\ \A n : Cancels(v1, n) => Cancels(v1', n)
      /\ Cancels(v1', left)
  <2>1. /\ v1' \in Seq(Unwind!Step) /\ Len(v1') = Len(v1) + 1 /\ Len(v1) \in Nat
        /\ DOMAIN v1 = 1..Len(v1) /\ DOMAIN v1' = 1..(Len(v1) + 1)
        /\ \A k \in 1..Len(v1) : v1'[k] = v1[k]
        /\ v1'[Len(v1) + 1] = undo
    BY <1>3
  <2>2. Len(v1) <= Len(v1') /\ \A k \in 1..Len(v1) : k \in 1..(Len(v1) + 1)
    BY <2>1
  <2>3. Grows(v1, v1')
    BY <2>1, <2>2 DEF Grows
  <2>4. Len(v1) + 1 \in DOMAIN v1' /\ undo.kind = "undo" /\ undo.of = left
    BY <2>1
  <2>5. Cancels(v1', left)
    BY <2>1, <2>4 DEF Cancels
  <2> QED BY <2>1, <2>3, <2>5 DEF Cancels, Grows
<1>5. /\ o.read <= Len(v1) /\ left <= o.read /\ Unwind!IsFiniteSet(o.failures)
      /\ Unwind!Total(o) = o.read - left + Unwind!Ahead(o)
      /\ \A n \in o.failures : n > left - Unwind!Ahead(o)
  BY <1>1 DEF Unwind!IInv, Unwind!LastFirst, Unwind!Accounted
<1>6. /\ o.read \in Nat /\ o.skipped \in Nat /\ o.compensated \in Nat /\ o.failures \in SUBSET Nat
      /\ Unwind!Cardinality(o.failures) \in Nat /\ o.ok \in BOOLEAN
  BY <1>1, <1>5, UnwindCounts DEF WalkState
<1>7. (IF o.ok THEN o.compensated + 1 ELSE o.compensated) \in Nat
  BY <1>6
<1>8. /\ r \in WalkState /\ r.pc = "walk" /\ r.todo = Tail(o.todo) /\ r.read = o.read
      /\ r.compensated = IF o.ok THEN o.compensated + 1 ELSE o.compensated
      /\ r.skipped = o.skipped /\ r.failures = o.failures
  BY <1>1, <1>2, <1>7 DEF WalkState
<1> HIDE DEF r
<1>9. Unwind!Ahead(r) = 0 /\ Unwind!Ahead(o) = IF o.ok THEN 0 ELSE 1
  BY <1>1, <1>8 DEF Unwind!Ahead
<1>10. Unwind!Total(r) = r.read - Len(r.todo) + Unwind!Ahead(r)
  <2> DEFINE s == o.skipped
             k == o.compensated
             f == Unwind!Cardinality(o.failures)
             n == o.read
  <2>1. s \in Nat /\ k \in Nat /\ f \in Nat /\ n \in Nat /\ left \in Nat
    BY <1>2, <1>6
  <2>2. s + k + f = n - left + (IF o.ok THEN 0 ELSE 1)
    BY <1>5, <1>9 DEF Unwind!Total
  <2>3. s + (IF o.ok THEN k + 1 ELSE k) + f = n - (left - 1) + 0
    <3> HIDE DEF s, k, f, n, left
    <3> QED BY <2>1, <2>2
  <2> QED BY <1>2, <1>8, <1>9, <2>3 DEF Unwind!Total
<1>11. \A n \in r.failures : n > Len(r.todo) - Unwind!Ahead(r)
  <2> SUFFICES ASSUME NEW n \in r.failures PROVE n > left - 1 - 0
    BY <1>2, <1>8, <1>9
  <2>1. n \in Nat /\ n > left - Unwind!Ahead(o) /\ Unwind!Ahead(o) \in {0, 1}
    BY <1>5, <1>6, <1>8, <1>9
  <2> QED BY <1>2, <2>1
<1>12. r.read <= Len(v1') /\ Len(r.todo) <= r.read
  BY <1>2, <1>4, <1>5, <1>6, <1>8
<1>13. \A i \in DOMAIN v3' : v3'[i].walk = w =>
         v3'[i].step > Len(r.todo) /\ Cancels(v1', v3'[i].step)
  <2> SUFFICES ASSUME NEW i \in DOMAIN v3, v3[i].walk = w
               PROVE  v3[i].step > left - 1 /\ Cancels(v1', v3[i].step)
    BY <1>1, <1>2, <1>8
  <2>1. v3[i].step \in Nat
    BY UnwindDeeds
  <2>2. (v3[i].step > left /\ Cancels(v1, v3[i].step)) \/ v3[i].step = left
    BY UnwindDone
  <2> QED BY <1>2, <1>4, <2>1, <2>2
<1>14. /\ \A i \in DOMAIN r.todo : r.todo[i] = Len(r.todo) - i + 1
       /\ v4' \in 0..ForUnwind.MaxFaults
       /\ \A i, j \in DOMAIN v3' : v3'[i].walk = w /\ v3'[j].walk = w /\ i < j =>
            v3'[i].step > v3'[j].step
  BY <1>1, <1>2, <1>8, UnwindDone, UnwindStays
<1> QED BY <1>1, <1>4, <1>5, <1>8, <1>10, <1>11, <1>12, <1>13, <1>14, UnwindGoes

\* A walk ends, or its process does.
LEMMA UnwindEnds ==
  ASSUME Unwind!IInv, NEW w \in Calls, Unwind!Finish(w) \/ Unwind!Die(w)
  PROVE  Unwind!IInv'
<1> DEFINE o == v2[w]
           End(pc) == [o EXCEPT !.pc = pc]
<1>1. /\ o.pc \in {"walk", "record"} /\ UNCHANGED <<v1, v3>> /\ o \in WalkState
      /\ v4' \in 0..ForUnwind.MaxFaults
  BY UnwindStays DEF Unwind!Finish, Unwind!Die
<1>2. /\ o.read <= Len(v1) /\ Len(o.todo) <= o.read /\ Unwind!IsFiniteSet(o.failures)
      /\ \A i \in DOMAIN o.todo : o.todo[i] = Len(o.todo) - i + 1
      /\ Unwind!Total(o) = o.read - Len(o.todo) + Unwind!Ahead(o)
      /\ \A n \in o.failures : n > Len(o.todo) - Unwind!Ahead(o)
  BY <1>1 DEF Unwind!IInv, Unwind!LastFirst, Unwind!Accounted
<1>3. \A pc \in {"done", "dead"} :
        /\ End(pc) \in WalkState /\ End(pc).pc = pc /\ End(pc).todo = o.todo
        /\ End(pc).read = o.read /\ End(pc).failures = o.failures /\ End(pc).skipped = o.skipped
        /\ End(pc).compensated = o.compensated
  BY <1>1 DEF WalkState
<1>4. /\ \A i \in DOMAIN v3' : v3'[i].walk = w =>
           \/ v3'[i].step > Len(o.todo) /\ Cancels(v1', v3'[i].step)
           \/ v3'[i].step = Len(o.todo) /\ o.pc \in {"record", "dead"}
      /\ \A i, j \in DOMAIN v3' : v3'[i].walk = w /\ v3'[j].walk = w /\ i < j =>
           v3'[i].step > v3'[j].step
      /\ v1' \in Seq(Unwind!Step) /\ Grows(v1, v1') /\ o.read <= Len(v1')
  BY <1>1, <1>2, UnwindDone, UnwindStays
<1> HIDE DEF End
<1>5. CASE Unwind!Finish(w)
  <2> DEFINE r == End("done")
  <2>1. /\ v2' = [v2 EXCEPT ![w] = r] /\ o.pc = "walk" /\ o.todo = <<>>
    BY <1>5 DEF Unwind!Finish, End
  <2>2. /\ r \in WalkState /\ r.pc = "done" /\ r.todo = o.todo /\ r.read = o.read
        /\ r.failures = o.failures /\ r.skipped = o.skipped /\ r.compensated = o.compensated
    BY <1>3
  <2> HIDE DEF r
  <2>3. Unwind!Ahead(r) = 0 /\ Unwind!Ahead(o) = 0 /\ Unwind!Total(r) = Unwind!Total(o)
    BY <2>1, <2>2 DEF Unwind!Ahead, Unwind!Total
  <2>4. /\ Unwind!Total(r) = r.read - Len(r.todo) + Unwind!Ahead(r)
        /\ \A n \in r.failures : n > Len(r.todo) - Unwind!Ahead(r)
    BY <1>2, <2>2, <2>3
  <2>5. \A i \in DOMAIN v3' : v3'[i].walk = w => v3'[i].step > Len(r.todo) /\ Cancels(v1', v3'[i].step)
    BY <1>4, <2>1, <2>2
  <2>6. /\ r.read <= Len(v1') /\ Len(r.todo) <= r.read /\ Unwind!IsFiniteSet(r.failures)
        /\ \A i \in DOMAIN r.todo : r.todo[i] = Len(r.todo) - i + 1
        /\ r.pc # "idle" /\ r.pc # "record" /\ r.todo = <<>> /\ v3' = v3
    BY <1>1, <1>2, <1>4, <2>1, <2>2
  <2> QED BY <1>1, <1>4, <2>1, <2>2, <2>4, <2>5, <2>6, UnwindGoes
<1>6. CASE Unwind!Die(w)
  <2> DEFINE r == End("dead")
  <2>1. v2' = [v2 EXCEPT ![w] = r]
    BY <1>6 DEF Unwind!Die, End
  <2>2. /\ r \in WalkState /\ r.pc = "dead" /\ r.todo = o.todo /\ r.read = o.read
        /\ r.failures = o.failures
    BY <1>3
  <2> HIDE DEF r
  <2>3. /\ r.read <= Len(v1') /\ Len(r.todo) <= r.read /\ Unwind!IsFiniteSet(r.failures)
        /\ \A i \in DOMAIN r.todo : r.todo[i] = Len(r.todo) - i + 1
        /\ r.pc \notin {"idle", "walk", "record", "done"} /\ v3' = v3
    BY <1>1, <1>2, <1>4, <2>1, <2>2
  <2>4. \A i \in DOMAIN v3' : v3'[i].walk = w =>
           \/ v3'[i].step > Len(r.todo) /\ Cancels(v1', v3'[i].step)
           \/ v3'[i].step = Len(r.todo) /\ r.pc \in {"record", "dead"}
    BY <1>4, <2>2
  <2> QED BY <1>1, <1>4, <2>1, <2>2, <2>3, <2>4, UnwindGoes
<1> QED BY <1>5, <1>6

\* Another action is recorded meanwhile.
LEMMA UnwindLate ==
  ASSUME Unwind!IInv, Unwind!CommitLate \/ UNCHANGED Unwind!vars
  PROVE  Unwind!IInv'
<1>1. UnwindTyped
  BY UnwindTypes DEF Unwind!IInv
<1>2. UNCHANGED <<v2, v3, v4>> /\ (v1' = v1 \/ v1' = Append(v1, Unwind!Recorded("commit")))
  BY DEF Unwind!CommitLate, Unwind!vars
<1>3. v1' \in Seq(Unwind!Step) /\ Grows(v1, v1') /\ Len(v1) \in Nat /\ Len(v1') \in Nat
  <2>1. v1 \in Seq(Unwind!Step) /\ Unwind!Recorded("commit") \in Unwind!Step
    BY <1>1 DEF UnwindTyped, Unwind!Recorded, Unwind!Step
  <2> QED BY <1>2, <2>1 DEF Grows
<1>4. UnwindTyped'
  BY <1>1, <1>2, <1>3 DEF UnwindTyped
<1>5. \A n : Unwind!HasRecord(n) => Cancels(v1', n)
  BY <1>3 DEF Unwind!HasRecord, Cancels, Grows
<1>6. ASSUME NEW u \in Calls
      PROVE  Unwind!LastFirst(u)' /\ Unwind!Accounted(u)' /\ Unwind!Undone(u)'
  <2>1. Unwind!LastFirst(u) /\ Unwind!Accounted(u) /\ Unwind!Undone(u) /\ v2[u] \in WalkState
    BY <1>1 DEF Unwind!IInv, UnwindTyped
  <2>2. v2[u].read <= Len(v1')
    <3>1. v2[u].read \in Nat
      BY <2>1 DEF WalkState
    <3> QED BY <1>3, <2>1, <3>1 DEF Unwind!LastFirst, Grows
  <2>3. Unwind!LastFirst(u)' /\ Unwind!Accounted(u)'
    BY <1>2, <2>1, <2>2 DEF Unwind!LastFirst, Unwind!Accounted
  <2>4. Unwind!Undone(u)'
    <3>1. \A i \in Unwind!DoneBy(u) :
            \/ v3[i].step > Len(v2[u].todo) /\ Cancels(v1', v3[i].step)
            \/ v3[i].step = Len(v2[u].todo) /\ v2[u].pc \in {"record", "dead"}
      BY <1>5, <2>1 DEF Unwind!Undone
    <3>2. Unwind!DoneBy(u)' = Unwind!DoneBy(u)
      BY <1>2 DEF Unwind!DoneBy
    <3> QED BY <1>2, <2>1, <3>1, <3>2 DEF Unwind!Undone, Unwind!HasRecord, Cancels
  <2> QED BY <2>3, <2>4
<1> QED BY <1>4, <1>6, UnwindTypes DEF Unwind!IInv

LEMMA UnwindInductive == Unwind!IInv /\ [Unwind!Next]_(Unwind!vars) => Unwind!IInv'
<1> SUFFICES ASSUME Unwind!IInv, [Unwind!Next]_(Unwind!vars) PROVE Unwind!IInv'
  OBVIOUS
<1> QED BY UnwindBegins, UnwindPasses, UnwindPerforms, UnwindRecords, UnwindEnds, UnwindLate
        DEF Unwind!Next

\* A walk that compensates a trajectory cancels the last step first and each once, and a walk
\* that ends has accounted for every step it read (compensateTrajectory), whatever other walks
\* and actions are recorded meanwhile.
THEOREM UnwindsInReverse == Services => []UnwindIsReverse
<1> DEFINE Kept == running = "unwind" => Unwind!IInv
<1>1. ServicesInit => Kept
  BY UnwindAlone, UnwindFirst
<1>2. Kept /\ [ServicesNext]_<<running, vars, slots>> => Kept'
  <2> SUFFICES ASSUME Kept, [ServicesNext]_<<running, vars, slots>>, running' = "unwind"
               PROVE  Unwind!IInv'
    OBVIOUS
  <2>1. running = "unwind"
    BY DEF ServicesNext, In
  <2> QED BY <2>1, UnwindAlone, UnwindInductive
<1>3. Kept => UnwindIsReverse
  BY UnwindAddsUp DEF UnwindIsReverse, Unwind!IInv
<1> QED BY <1>1, <1>2, <1>3, PTL DEF Services

-----------------------------------------------------------------------------
(* The review desk.  v1: row, v2: page, v3: draft, v4: busy, v5: assist,   *)
(* v6: reads, v7: calls, v8: submitted, v9: sent.                          *)

LEMMA DeskAlone ==
  ASSUME running = "desk"
  PROVE  /\ ServicesInit => Desk!Init
         /\ [ServicesNext]_<<running, vars, slots>> => running' = running /\ [Desk!Next]_(Desk!vars)
  BY DEF ServicesInit, ServicesNext, In, slots, Desk!vars

\* The records of ReviewDesk.
DeskRow ==
  [status : {"pending", "claimed", "resolved"}, by : {ForDesk.Me, ForDesk.Colleague, None},
   decision : ForDesk.Decisions \cup {None}]
DeskList == [ForDesk.Items -> {"hidden", "pending", "claimed", "resolved"}]
DeskPage ==
  [open : BOOLEAN, filter : ForDesk.Filters, loading : BOOLEAN, error : BOOLEAN,
   latest : 0..ForDesk.MaxReads, shown : DeskList, from : 0..ForDesk.MaxReads]
DeskDraft == [item : ForDesk.Items, decision : ForDesk.Decisions, notes : BOOLEAN]
DeskReply == [kind : {"unanswered", "queue", "failed"}, list : DeskList]
DeskRead == [n : 1..ForDesk.MaxReads, filter : ForDesk.Filters, reply : DeskReply]
DeskCall ==
  [n : Nat, item : ForDesk.Items, action : {"claim", "unclaim", "resolve"},
   decision : ForDesk.Decisions \cup {None}, filter : ForDesk.Filters,
   step : {"read", "write", "ok", "refused"}]

DeskTyped ==
  /\ v1 \in [ForDesk.Items -> DeskRow] /\ v2 \in DeskPage
  /\ v3 = None \/ v3 \in DeskDraft
  /\ v4 \in ForDesk.Items \cup {None}
  /\ v5 \in [ForDesk.Items -> {"unasked", "loading", "none"} \cup ForDesk.Decisions]
  /\ v6 \subseteq DeskRead /\ v7 \subseteq DeskCall
  /\ v8 \subseteq [item : ForDesk.Items, decision : ForDesk.Decisions] /\ v9 \in Nat

\* What a page says of its reads, and rows of what was submitted.
Coherent(page, reads) ==
  /\ \A r \in reads : r.n <= page.latest
  /\ \A r, s \in reads : s.n = r.n => s = r
  /\ page.open =>
       /\ page.loading = \E r \in reads : r.n = page.latest
       /\ (\A r \in reads : r.n # page.latest) => page.from = page.latest
Decided(row, sentOff, did) ==
  /\ \A c \in sentOff : c.action = "resolve" => [item |-> c.item, decision |-> c.decision] \in did
  /\ \A i \in ForDesk.Items : row[i].status = "resolved" /\ row[i].by = ForDesk.Me =>
       [item |-> i, decision |-> row[i].decision] \in did

DeskKept == DeskTyped /\ Coherent(v2, v6) /\ Decided(v1, v7, v8)

LEMMA DeskInvariant == (Desk!IInv <=> DeskKept) /\ (Desk!IInv' <=> DeskKept')
<1>1. Desk!IInv <=> DeskKept
  <2>1. Desk!TypeOK /\ Desk!ReadsTyped /\ Desk!CallsTyped <=> DeskTyped
    BY DEF Desk!TypeOK, Desk!ReadsTyped, Desk!CallsTyped, DeskTyped, DeskRow, DeskPage, DeskDraft,
           DeskRead, DeskReply, DeskCall, DeskList, Desk!Rows, Desk!Shows, Desk!Submissions
  <2>2. Desk!Numbered /\ Desk!ShowsTheNewestRead <=> Coherent(v2, v6)
    BY DEF Desk!Numbered, Desk!ShowsTheNewestRead, Coherent
  <2>3. Desk!SubmittedFirst /\ Desk!DecidedAsSubmitted <=> Decided(v1, v7, v8)
    BY DEF Desk!SubmittedFirst, Desk!DecidedAsSubmitted, Decided
  <2> QED BY <2>1, <2>2, <2>3 DEF Desk!IInv, DeskKept
<1>2. Desk!IInv' <=> DeskKept'
  <2>1. Desk!TypeOK' /\ Desk!ReadsTyped' /\ Desk!CallsTyped' <=> DeskTyped'
    BY DEF Desk!TypeOK, Desk!ReadsTyped, Desk!CallsTyped, DeskTyped, DeskRow, DeskPage, DeskDraft,
           DeskRead, DeskReply, DeskCall, DeskList, Desk!Rows, Desk!Shows, Desk!Submissions
  <2>2. Desk!Numbered' /\ Desk!ShowsTheNewestRead' <=> Coherent(v2', v6')
    BY DEF Desk!Numbered, Desk!ShowsTheNewestRead, Coherent
  <2>3. Desk!SubmittedFirst' /\ Desk!DecidedAsSubmitted' <=> Decided(v1', v7', v8')
    BY DEF Desk!SubmittedFirst, Desk!DecidedAsSubmitted, Decided
  <2> QED BY <2>1, <2>2, <2>3 DEF Desk!IInv, DeskKept
<1> QED BY <1>1, <1>2

LEMMA DeskBounds ==
  /\ "all" \in ForDesk.Filters /\ "uphold" \in ForDesk.Decisions
  /\ ForDesk.Me # ForDesk.Colleague /\ ForDesk.MaxReads \in Nat \ {0}
  BY ServicesAssumption DEF Desk!DeskAssumption

\* A page that changes in other things.
LEMMA SamePage ==
  ASSUME NEW p \in DeskPage, NEW q \in DeskPage, NEW s, Coherent(p, s), q.open => p.open,
         q.latest = p.latest, q.loading = p.loading, q.from = p.from
  PROVE  Coherent(q, s)
  BY DEF Coherent

\* The newest read: none before it has its number.
LEMMA NewestRead ==
  ASSUME NEW p \in DeskPage, NEW q \in DeskPage, NEW s \in SUBSET DeskRead, Coherent(p, s),
         NEW x \in DeskRead, x.n = p.latest + 1, q.latest = p.latest + 1, q.loading = TRUE
  PROVE  Coherent(q, s \cup {x})
<1>1. p.latest \in Nat /\ \A r \in s : r.n \in Nat /\ r.n <= p.latest
  BY DeskBounds DEF Coherent, DeskPage, DeskRead
<1>2. \A r \in s : r.n # x.n /\ r.n <= q.latest
  BY <1>1
<1>3. \A r, t \in s \cup {x} : t.n = r.n => t = r
  BY <1>2 DEF Coherent
<1>4. x.n <= q.latest
  BY <1>1
<1> QED BY <1>2, <1>3, <1>4 DEF Coherent

LEMMA AnsweredRead ==
  ASSUME NEW p \in DeskPage, NEW s \in SUBSET DeskRead, Coherent(p, s), NEW r \in s,
         NEW x, x.n = r.n
  PROVE  Coherent(p, (s \ {r}) \cup {x})
<1>1. \A t \in s \ {r} : t.n # x.n
  BY DEF Coherent
<1>2. \A t, u \in (s \ {r}) \cup {x} : t.n = u.n => t = u
  BY <1>1 DEF Coherent
<1>3. \A n : (\E t \in s : t.n = n) <=> (\E t \in (s \ {r}) \cup {x} : t.n = n)
  OBVIOUS
<1> QED BY <1>2, <1>3 DEF Coherent

LEMMA ShownRead ==
  ASSUME NEW p \in DeskPage, NEW q \in DeskPage, NEW s \in SUBSET DeskRead, Coherent(p, s), NEW r \in s,
         q.latest = p.latest, q.open = p.open,
         IF r.n = p.latest THEN q.loading = FALSE /\ q.from = r.n
                           ELSE q.loading = p.loading /\ q.from = p.from
  PROVE  Coherent(q, s \ {r})
<1>1. \A t \in s \ {r} : t.n # r.n
  BY DEF Coherent
<1> QED BY <1>1 DEF Coherent

\* Calls that go on, rows that are not resolved, more that was submitted.
LEMMA StillDecided ==
  ASSUME NEW row, NEW s, NEW t, NEW did, NEW more, Decided(row, s, did), did \subseteq more,
         \A c \in t : c.action = "resolve" =>
           \/ [item |-> c.item, decision |-> c.decision] \in more
           \/ \E d \in s : d.action = c.action /\ d.item = c.item /\ d.decision = c.decision
  PROVE  Decided(row, t, more)
<1>1. ASSUME NEW c \in t, c.action = "resolve"
      PROVE  [item |-> c.item, decision |-> c.decision] \in more
  BY <1>1 DEF Decided
<1> QED BY <1>1 DEF Decided

LEMMA RowDecided ==
  ASSUME NEW row \in [ForDesk.Items -> DeskRow], NEW s, NEW did, Decided(row, s, did),
         NEW i \in ForDesk.Items, NEW x, x.status = "resolved" /\ x.by = ForDesk.Me =>
                                           [item |-> i, decision |-> x.decision] \in did
  PROVE  Decided([row EXCEPT ![i] = x], s, did)
  BY DEF Decided

LEMMA DeskFirst == Desk!Init => DeskKept
<1> SUFFICES ASSUME Desk!Init PROVE DeskKept
  OBVIOUS
<1>1. Desk!Table \in DeskList /\ Desk!Unanswered \in DeskReply
  BY DEF Desk!Table, Desk!Unanswered, DeskList, DeskReply
<1>2. DeskTyped
  <2>1. v1 \in [ForDesk.Items -> DeskRow]
    <3>1. [status |-> "pending", by |-> None, decision |-> None] \in DeskRow
          /\ [status |-> "claimed", by |-> ForDesk.Me, decision |-> None] \in DeskRow
      BY DEF DeskRow
    <3> QED BY <3>1 DEF Desk!Init
  <2>2. v2 \in DeskPage
    BY <1>1, DeskBounds DEF Desk!Init, DeskPage
  <2>3. v6 \subseteq DeskRead
    BY <1>1, DeskBounds DEF Desk!Init, DeskRead
  <2>4. v3 = None /\ v4 = None /\ v5 = [i \in ForDesk.Items |-> "unasked"] /\ v7 = {} /\ v8 = {}
        /\ v9 = 0
    BY DEF Desk!Init
  <2> QED BY <2>1, <2>2, <2>3, <2>4 DEF DeskTyped
<1>3. Coherent(v2, v6)
  <2>1. /\ v2.open = TRUE /\ v2.loading = TRUE /\ v2.latest = 1
        /\ v6 = {[n |-> 1, filter |-> "all", reply |-> Desk!Unanswered]}
    BY DEF Desk!Init
  <2>2. \A r \in v6 : r.n = 1
    BY <2>1
  <2>3. \E r \in v6 : r.n = 1
    BY <2>1
  <2>4. \A r \in v6 : r.n <= v2.latest
    BY <2>1, <2>2
  <2>5. \A r, s \in v6 : s = r
    BY <2>1
  <2> QED BY <2>1, <2>3, <2>4, <2>5 DEF Coherent
<1>4. Decided(v1, v7, v8)
  <2>1. v7 = {} /\ \A i \in ForDesk.Items : v1[i].status # "resolved"
    BY DEF Desk!Init
  <2> QED BY <2>1 DEF Decided
<1> QED BY <1>2, <1>3, <1>4 DEF DeskKept

\* A read is sent.
LEMMA DeskAsks ==
  ASSUME DeskKept, NEW f \in ForDesk.Filters, Desk!Reading(f), NEW q,
         q = [v2 EXCEPT !.latest = @ + 1, !.loading = TRUE, !.error = FALSE]
             \/ q = [v2 EXCEPT !.filter = f, !.latest = @ + 1, !.loading = TRUE, !.error = FALSE]
  PROVE  q \in DeskPage /\ v6' \subseteq DeskRead /\ Coherent(q, v6')
<1> DEFINE x == [n |-> v2.latest + 1, filter |-> f, reply |-> Desk!Unanswered]
<1>1. v2 \in DeskPage /\ v6 \in SUBSET DeskRead /\ Coherent(v2, v6) /\ v2.latest < ForDesk.MaxReads
      /\ v6' = v6 \cup {x}
  BY DEF DeskKept, DeskTyped, Desk!Reading
<1>2. v2.latest + 1 \in 1..ForDesk.MaxReads
  BY <1>1, DeskBounds DEF DeskPage
<1>3. x \in DeskRead /\ x.n = v2.latest + 1
  BY <1>2 DEF DeskRead, Desk!Unanswered, DeskReply, Desk!Table, DeskList
<1>4. q \in DeskPage /\ q.latest = v2.latest + 1 /\ q.loading = TRUE
  <2> DEFINE n == v2.latest + 1
  <2>1. n \in 0..ForDesk.MaxReads /\ v2 \in DeskPage
    BY <1>1, <1>2, DeskBounds
  <2>2. \/ q = [v2 EXCEPT !.latest = n, !.loading = TRUE, !.error = FALSE]
        \/ q = [v2 EXCEPT !.filter = f, !.latest = n, !.loading = TRUE, !.error = FALSE]
    OBVIOUS
  <2> HIDE DEF n
  <2>3. q \in DeskPage /\ q.latest = n /\ q.loading = TRUE
    BY <2>1, <2>2 DEF DeskPage
  <2> QED BY <2>3 DEF n
<1> HIDE DEF x
<1>5. Coherent(q, v6 \cup {x})
  BY <1>1, <1>3, <1>4, NewestRead
<1> QED BY <1>1, <1>3, <1>4, <1>5

LEMMA DeskReads ==
  ASSUME DeskKept,
         \/ Desk!Refresh \/ Desk!Leave \/ \E f \in ForDesk.Filters : Desk!SelectFilter(f)
         \/ \E r \in v6 : Desk!ServeRead(r) \/ Desk!ReceiveRead(r)
  PROVE  DeskKept'
<1>0. DeskTyped /\ Coherent(v2, v6) /\ v2 \in DeskPage /\ v6 \in SUBSET DeskRead
  BY DEF DeskKept, DeskTyped
<1>1. UNCHANGED <<v1, v4, v5, v7, v8, v9>> /\ v3' \in {v3, None}
  BY DEF Desk!Refresh, Desk!Leave, Desk!SelectFilter, Desk!ServeRead, Desk!ReceiveRead
<1>2. v2' \in DeskPage /\ v6' \subseteq DeskRead /\ Coherent(v2', v6')
  <2>1. CASE Desk!Refresh
    <3>1. /\ Desk!Reading(v2.filter) /\ v2.filter \in ForDesk.Filters
          /\ v2' = [v2 EXCEPT !.latest = @ + 1, !.loading = TRUE, !.error = FALSE]
      BY <1>0, <2>1 DEF Desk!Refresh, DeskPage
    <3> QED BY <3>1, DeskAsks
  <2>2. CASE Desk!Leave
    <3>1. v2' \in DeskPage /\ v2'.open = FALSE /\ v6' = {}
      BY <1>0, <2>2 DEF Desk!Leave, DeskPage
    <3> QED BY <3>1 DEF Coherent
  <2>3. ASSUME NEW f \in ForDesk.Filters, Desk!SelectFilter(f)
        PROVE  v2' \in DeskPage /\ v6' \subseteq DeskRead /\ Coherent(v2', v6')
    <3>1. /\ Desk!Reading(f)
          /\ v2' = [v2 EXCEPT !.filter = f, !.latest = @ + 1, !.loading = TRUE, !.error = FALSE]
      BY <2>3 DEF Desk!SelectFilter
    <3> QED BY <3>1, DeskAsks
  <2>4. ASSUME NEW r \in v6, Desk!ServeRead(r)
        PROVE  v2' \in DeskPage /\ v6' \subseteq DeskRead /\ Coherent(v2', v6')
    <3>1. PICK reply \in [kind : {"queue"}, list : {Desk!Listed(r.filter), Desk!Table}] \cup {Desk!Failed} :
            v6' = (v6 \ {r}) \cup {[r EXCEPT !.reply = reply]} /\ v2' = v2
      BY <2>4 DEF Desk!ServeRead
    <3>2. Desk!Listed(r.filter) \in DeskList /\ Desk!Table \in DeskList
      <4>1. \A i \in ForDesk.Items : v1[i].status \in {"pending", "claimed", "resolved"}
        BY <1>0 DEF DeskTyped, DeskRow
      <4> QED BY <4>1 DEF Desk!Listed, Desk!Table, DeskList
    <3>3. reply \in DeskReply
      BY <3>1, <3>2 DEF DeskReply, Desk!Failed
    <3>4. [r EXCEPT !.reply = reply] \in DeskRead /\ [r EXCEPT !.reply = reply].n = r.n
      BY <1>0, <3>3 DEF DeskRead
    <3> QED BY <1>0, <3>1, <3>4, AnsweredRead
  <2>5. ASSUME NEW r \in v6, Desk!ReceiveRead(r)
        PROVE  v2' \in DeskPage /\ v6' \subseteq DeskRead /\ Coherent(v2', v6')
    <3>1. v6' = v6 \ {r} /\ r \in DeskRead
      BY <1>0, <2>5 DEF Desk!ReceiveRead
    <3>2. CASE r.n # v2.latest
      <4>1. v2' = v2
        BY <2>5, <3>2 DEF Desk!ReceiveRead, Desk!IsNewest
      <4> QED BY <1>0, <3>1, <3>2, <4>1, ShownRead
    <3>3. CASE r.n = v2.latest
      <4> DEFINE failed == r.reply = Desk!Failed
      <4>1. v2' = [v2 EXCEPT !.loading = FALSE, !.error = failed, !.from = r.n, !.shown = r.reply.list]
        BY <2>5, <3>3 DEF Desk!ReceiveRead, Desk!IsNewest
      <4>2. r.n \in 0..ForDesk.MaxReads /\ r.reply.list \in DeskList /\ failed \in BOOLEAN
        BY <3>1, DeskBounds DEF DeskRead, DeskReply
      <4> HIDE DEF failed
      <4>3. /\ v2' \in DeskPage /\ v2'.open = v2.open /\ v2'.latest = v2.latest
            /\ v2'.loading = FALSE /\ v2'.from = r.n
        BY <1>0, <4>1, <4>2 DEF DeskPage
      <4> QED BY <1>0, <3>1, <3>3, <4>3, ShownRead
    <3> QED BY <3>2, <3>3
  <2> QED BY <2>1, <2>2, <2>3, <2>4, <2>5
<1>3. DeskTyped'
  BY <1>0, <1>1, <1>2 DEF DeskTyped
<1>4. Decided(v1', v7', v8')
  BY <1>1 DEF DeskKept
<1> QED BY <1>2, <1>3, <1>4 DEF DeskKept

\* Suggestions and drafts.
LEMMA DeskDrafts ==
  ASSUME DeskKept,
         \/ Desk!EditDraft \/ Desk!CancelDraft
         \/ \E i \in ForDesk.Items :
              Desk!AskSuggestion(i) \/ Desk!ReceiveSuggestion(i) \/ Desk!OpenDraft(i)
  PROVE  DeskKept'
<1>0. DeskTyped
  BY DEF DeskKept
<1>1. UNCHANGED <<v1, v2, v4, v6, v7, v8, v9>>
  BY DEF Desk!EditDraft, Desk!CancelDraft, Desk!AskSuggestion, Desk!ReceiveSuggestion, Desk!OpenDraft
<1> DEFINE Fit ==
      /\ v3' = None \/ v3' \in DeskDraft
      /\ v5' \in [ForDesk.Items -> {"unasked", "loading", "none"} \cup ForDesk.Decisions]
<1>2. Fit
  <2>1. ASSUME Desk!EditDraft PROVE Fit
    <3>1. v3 \in DeskDraft /\ v5' = v5
      BY <1>0, <2>1 DEF DeskTyped, Desk!EditDraft, Desk!Drafting
    <3>2. PICK d \in ForDesk.Decisions, said \in BOOLEAN :
            v3' = [v3 EXCEPT !.decision = d, !.notes = said]
      BY <2>1 DEF Desk!EditDraft
    <3>3. v3' \in DeskDraft
      BY <3>1, <3>2 DEF DeskDraft
    <3> QED BY <1>0, <3>1, <3>3 DEF DeskTyped
  <2>2. ASSUME Desk!CancelDraft PROVE Fit
    BY <1>0, <2>2 DEF DeskTyped, Desk!CancelDraft
  <2>3. ASSUME NEW i \in ForDesk.Items, Desk!AskSuggestion(i) \/ Desk!ReceiveSuggestion(i)
        PROVE  Fit
    <3>1. v3' = v3 /\ \E s \in {"loading", "none"} \cup ForDesk.Decisions : v5' = [v5 EXCEPT ![i] = s]
      BY <2>3 DEF Desk!AskSuggestion, Desk!ReceiveSuggestion
    <3> QED BY <1>0, <3>1 DEF DeskTyped
  <2>4. ASSUME NEW i \in ForDesk.Items, Desk!OpenDraft(i) PROVE Fit
    <3>1. v5' = v5 /\ v3' = [item |-> i, notes |-> FALSE,
                             decision |-> IF v5[i] \in ForDesk.Decisions THEN v5[i] ELSE "uphold"]
      BY <2>4 DEF Desk!OpenDraft
    <3>2. (IF v5[i] \in ForDesk.Decisions THEN v5[i] ELSE "uphold") \in ForDesk.Decisions
      BY DeskBounds
    <3>3. v3' \in DeskDraft
      BY <3>1, <3>2 DEF DeskDraft
    <3> QED BY <1>0, <3>1, <3>3 DEF DeskTyped
  <2> QED BY <2>1, <2>2, <2>3, <2>4
<1>3. DeskTyped'
  BY <1>0, <1>1, <1>2 DEF DeskTyped
<1> QED BY <1>1, <1>3 DEF DeskKept

\* An action is sent, or refused for want of notes.
LEMMA DeskSends ==
  ASSUME DeskKept,
         Desk!SubmitDraft \/ \E i \in ForDesk.Items : Desk!Claim(i) \/ Desk!Release(i)
  PROVE  DeskKept'
<1>0. DeskTyped /\ v2 \in DeskPage /\ Coherent(v2, v6) /\ Decided(v1, v7, v8)
  BY DEF DeskKept, DeskTyped
<1>1. UNCHANGED <<v1, v3, v5, v6>>
  BY DEF Desk!SubmitDraft, Desk!Claim, Desk!Release
\* What is sent of one case.
<1>2. ASSUME NEW i \in ForDesk.Items, NEW action \in {"claim", "unclaim", "resolve"},
             NEW d \in ForDesk.Decisions \cup {None}, Desk!Send(i, action, d),
             v8 \subseteq v8', v8' \subseteq [item : ForDesk.Items, decision : ForDesk.Decisions],
             action = "resolve" => [item |-> i, decision |-> d] \in v8'
      PROVE  DeskKept'
  <2> DEFINE c == [n |-> v9, item |-> i, action |-> action, decision |-> d, filter |-> v2.filter,
                   step |-> "read"]
  <2>1. /\ v9' = v9 + 1 /\ v4' = i /\ v7' = v7 \cup {c} /\ v2' = [v2 EXCEPT !.error = FALSE]
    BY <1>2 DEF Desk!Send
  <2>2. /\ v2' \in DeskPage /\ v2'.open = v2.open /\ v2'.latest = v2.latest
        /\ v2'.loading = v2.loading /\ v2'.from = v2.from
    BY <1>0, <2>1 DEF DeskPage
  <2>3. c \in DeskCall /\ c.action = action /\ c.item = i /\ c.decision = d
    BY <1>0 DEF DeskTyped, DeskCall, DeskPage
  <2> HIDE DEF c
  <2>4. Coherent(v2', v6')
    BY <1>0, <1>1, <2>2, SamePage
  <2>5. Decided(v1', v7', v8')
    BY <1>0, <1>1, <1>2, <2>1, <2>3, StillDecided
  <2>6. DeskTyped'
    BY <1>0, <1>1, <1>2, <2>1, <2>2, <2>3 DEF DeskTyped
  <2> QED BY <2>4, <2>5, <2>6 DEF DeskKept
<1>3. ASSUME NEW i \in ForDesk.Items, Desk!Claim(i) PROVE DeskKept'
  <2>1. Desk!Send(i, "claim", None) /\ v8' = v8
    BY <1>3 DEF Desk!Claim
  <2> QED BY <1>0, <1>2, <2>1 DEF DeskTyped
<1>4. ASSUME NEW i \in ForDesk.Items, Desk!Release(i) PROVE DeskKept'
  <2>1. Desk!Send(i, "unclaim", None) /\ v8' = v8
    BY <1>4 DEF Desk!Release
  <2> QED BY <1>0, <1>2, <2>1 DEF DeskTyped
<1>5. CASE Desk!SubmitDraft
  <2>1. v3 \in DeskDraft
    BY <1>0, <1>5 DEF DeskTyped, Desk!SubmitDraft, Desk!Drafting
  <2>2. v3.item \in ForDesk.Items /\ v3.decision \in ForDesk.Decisions
    BY <2>1 DEF DeskDraft
  <2>3. CASE v3.notes
    <3>1. /\ Desk!Send(v3.item, "resolve", v3.decision)
          /\ v8' = v8 \cup {[item |-> v3.item, decision |-> v3.decision]}
      BY <1>5, <2>3 DEF Desk!SubmitDraft
    <3>2. v8' \subseteq [item : ForDesk.Items, decision : ForDesk.Decisions]
      BY <1>0, <2>2, <3>1 DEF DeskTyped
    <3> QED BY <1>2, <2>2, <3>1, <3>2
  <2>4. CASE ~v3.notes
    <3>1. v2' = [v2 EXCEPT !.error = TRUE] /\ UNCHANGED <<v4, v7, v8, v9>>
      BY <1>5, <2>4 DEF Desk!SubmitDraft
    <3>2. /\ v2' \in DeskPage /\ v2'.open = v2.open /\ v2'.latest = v2.latest
          /\ v2'.loading = v2.loading /\ v2'.from = v2.from
      BY <1>0, <3>1 DEF DeskPage
    <3>3. Coherent(v2', v6')
      BY <1>0, <1>1, <3>2, SamePage
    <3>4. DeskTyped'
      BY <1>0, <1>1, <3>1, <3>2 DEF DeskTyped
    <3> QED BY <1>0, <1>1, <3>1, <3>3, <3>4 DEF DeskKept
  <2> QED BY <2>3, <2>4
<1> QED BY <1>3, <1>4, <1>5

\* A call is checked and written; colleagues write as well.
LEMMA DeskWrites ==
  ASSUME DeskKept,
         \/ \E c \in v7 : Desk!Check(c) \/ Desk!Write(c)
         \/ \E i \in ForDesk.Items : Desk!ColleagueActs(i) \/ Desk!ClaimExpires(i)
  PROVE  DeskKept'
<1>0. DeskTyped /\ v1 \in [ForDesk.Items -> DeskRow] /\ Coherent(v2, v6) /\ Decided(v1, v7, v8)
  BY DEF DeskKept, DeskTyped
<1>1. UNCHANGED <<v2, v3, v4, v5, v6, v8, v9>>
  BY DEF Desk!Check, Desk!Write, Desk!ColleagueActs, Desk!ClaimExpires
\* The calls: one of them goes on, at most.
<1>2. ASSUME NEW c \in v7, NEW s \in {"write", "ok", "refused"}, Desk!Step(c, s)
      PROVE  v7' \subseteq DeskCall /\ \A row : Decided(row, v7, v8) => Decided(row, v7', v8)
  <2> DEFINE d == [c EXCEPT !.step = s]
  <2>1. v7' = (v7 \ {c}) \cup {d} /\ c \in DeskCall
    BY <1>0, <1>2 DEF Desk!Step, DeskTyped
  <2>2. d \in DeskCall /\ d.action = c.action /\ d.item = c.item /\ d.decision = c.decision
    BY <2>1 DEF DeskCall
  <2> HIDE DEF d
  <2>3. ASSUME NEW row, Decided(row, v7, v8) PROVE Decided(row, v7', v8)
    BY <2>1, <2>2, <2>3, StillDecided
  <2> QED BY <1>0, <2>1, <2>2, <2>3 DEF DeskTyped
\* The rows: one of them changes, at most.
<1>3. ASSUME NEW i \in ForDesk.Items, NEW x \in DeskRow, v1' = [v1 EXCEPT ![i] = x],
             x.status = "resolved" /\ x.by = ForDesk.Me => [item |-> i, decision |-> x.decision] \in v8
      PROVE  v1' \in [ForDesk.Items -> DeskRow] /\ Decided(v1', v7, v8)
  BY <1>0, <1>3, RowDecided
<1>4. ASSUME v1' \in [ForDesk.Items -> DeskRow], v7' \subseteq DeskCall, Decided(v1', v7', v8)
      PROVE  DeskKept'
  <2>1. DeskTyped'
    BY <1>0, <1>1, <1>4 DEF DeskTyped
  <2> QED BY <1>0, <1>1, <1>4, <2>1 DEF DeskKept
<1>5. ASSUME NEW c \in v7, Desk!Check(c) PROVE DeskKept'
  <2>1. v1' = v1 /\ \E s \in {"write", "refused"} : Desk!Step(c, s)
    BY <1>5 DEF Desk!Check
  <2>2. v7' \subseteq DeskCall /\ Decided(v1', v7', v8)
    BY <1>0, <1>2, <2>1
  <2> QED BY <1>0, <1>4, <2>1, <2>2
<1>6. ASSUME NEW c \in v7, Desk!Write(c) PROVE DeskKept'
  <2>1. CASE v1' = v1 /\ Desk!Step(c, "refused")
    BY <1>0, <1>2, <1>4, <2>1
  <2>2. CASE v1' = [v1 EXCEPT ![c.item] = Desk!Written(c)] /\ Desk!Step(c, "ok")
    <3> DEFINE x == Desk!Written(c)
    <3>1. c \in DeskCall /\ c.item \in ForDesk.Items /\ c.decision \in ForDesk.Decisions \cup {None}
      BY <1>0 DEF DeskTyped, DeskCall
    <3>2. v1[c.item] \in DeskRow
      BY <1>0, <3>1
    <3>3. /\ x \in DeskRow
          /\ x.status = "resolved" => c.action \notin {"claim", "unclaim"} /\ x.decision = c.decision
      BY <3>1, <3>2 DEF Desk!Written, DeskRow
    <3>4. c.action \in {"claim", "unclaim", "resolve"}
      BY <3>1 DEF DeskCall
    <3> HIDE DEF x
    <3>5. x.status = "resolved" => [item |-> c.item, decision |-> x.decision] \in v8
      BY <1>0, <3>3, <3>4 DEF Decided
    <3>6. v1' = [v1 EXCEPT ![c.item] = x]
      BY <2>2 DEF x
    <3>7. v1' \in [ForDesk.Items -> DeskRow] /\ Decided(v1', v7, v8)
      BY <1>3, <3>1, <3>3, <3>5, <3>6
    <3> QED BY <1>2, <1>4, <2>2, <3>7
  <2> QED BY <1>6, <2>1, <2>2 DEF Desk!Write
<1>7. ASSUME NEW i \in ForDesk.Items, Desk!ColleagueActs(i) \/ Desk!ClaimExpires(i)
      PROVE  DeskKept'
  <2>1. v1[i] \in DeskRow
    BY <1>0
  <2> DEFINE Changed ==
        /\ v7' = v7
        /\ \E x \in DeskRow :
             v1' = [v1 EXCEPT ![i] = x] /\ (x.status # "resolved" \/ x.by = ForDesk.Colleague)
  <2>2. Changed
    <3>1. ASSUME Desk!ClaimExpires(i) PROVE Changed
      <4> DEFINE x == [status |-> "pending", by |-> None, decision |-> None]
      <4>1. x \in DeskRow /\ x.status # "resolved"
        BY DEF DeskRow
      <4> QED BY <3>1, <4>1 DEF Desk!ClaimExpires
    <3>2. ASSUME v1' = [v1 EXCEPT ![i] = [status |-> "claimed", by |-> ForDesk.Colleague, decision |-> None]]
          PROVE  Changed
      <4> DEFINE x == [status |-> "claimed", by |-> ForDesk.Colleague, decision |-> None]
      <4>1. x \in DeskRow /\ x.status # "resolved"
        BY DEF DeskRow
      <4>2. v7' = v7
        BY <1>7 DEF Desk!ColleagueActs, Desk!ClaimExpires
      <4> QED BY <3>2, <4>1, <4>2
    <3>3. ASSUME NEW d \in ForDesk.Decisions, v1[i].by = ForDesk.Colleague, v7' = v7,
                 v1' = [v1 EXCEPT ![i].status = "resolved", ![i].decision = d]
          PROVE  Changed
      <4> DEFINE x == [v1[i] EXCEPT !.status = "resolved", !.decision = d]
      <4>1. x \in DeskRow /\ x.by = ForDesk.Colleague
        BY <2>1, <3>3 DEF DeskRow
      <4>2. v1' = [v1 EXCEPT ![i] = x]
        BY <1>0, <3>3
      <4> QED BY <3>3, <4>1, <4>2
    <3>4. CASE Desk!ColleagueActs(i)
      <4>1. v7' = v7
        BY <3>4 DEF Desk!ColleagueActs
      <4>2. \/ v1' = [v1 EXCEPT ![i] = [status |-> "claimed", by |-> ForDesk.Colleague, decision |-> None]]
            \/ /\ v1[i].by = ForDesk.Colleague
               /\ \E d \in ForDesk.Decisions :
                    v1' = [v1 EXCEPT ![i].status = "resolved", ![i].decision = d]
        BY <3>4 DEF Desk!ColleagueActs
      <4> HIDE DEF Changed
      <4> QED BY <3>2, <3>3, <4>1, <4>2
    <3> QED BY <1>7, <3>1, <3>4
  <2>3. v1' \in [ForDesk.Items -> DeskRow] /\ Decided(v1', v7, v8)
    <3>1. PICK x \in DeskRow :
            v1' = [v1 EXCEPT ![i] = x] /\ (x.status # "resolved" \/ x.by = ForDesk.Colleague)
      BY <2>2
    <3>2. ~(x.status = "resolved" /\ x.by = ForDesk.Me)
      BY <3>1, DeskBounds
    <3> QED BY <1>3, <3>1, <3>2
  <2> QED BY <1>0, <1>4, <2>2, <2>3 DEF DeskTyped
<1> QED BY <1>5, <1>6, <1>7

\* The page receives the answer of an action, or none.
LEMMA DeskReceives ==
  ASSUME DeskKept, NEW c \in v7, Desk!ReceiveCall(c)
  PROVE  DeskKept'
<1>0. DeskTyped /\ v2 \in DeskPage /\ v6 \subseteq DeskRead /\ Coherent(v2, v6) /\ Decided(v1, v7, v8)
  BY DEF DeskKept, DeskTyped
<1>1. UNCHANGED <<v1, v5, v8, v9>> /\ v7' = v7 \ {c} /\ v4' = None /\ v3' \in {None, v3}
  BY DEF Desk!ReceiveCall, Desk!Succeeds, Desk!Fails
<1>2. v2' \in DeskPage /\ v6' \subseteq DeskRead /\ Coherent(v2', v6')
  <2>1. CASE Desk!Fails(c)
    <3>1. v2' = [v2 EXCEPT !.error = v2.open] /\ v6' = v6
      BY <2>1 DEF Desk!Fails
    <3>2. /\ v2' \in DeskPage /\ v2'.open = v2.open /\ v2'.latest = v2.latest
          /\ v2'.loading = v2.loading /\ v2'.from = v2.from
      BY <1>0, <3>1 DEF DeskPage
    <3> QED BY <1>0, <3>1, <3>2, SamePage
  <2>2. CASE Desk!Succeeds(c) /\ v2.open
    <3>1. /\ Desk!Reading(c.filter)
          /\ v2' = [v2 EXCEPT !.latest = @ + 1, !.loading = TRUE, !.error = FALSE]
      BY <2>2 DEF Desk!Succeeds
    <3>2. c.filter \in ForDesk.Filters
      BY <1>0 DEF DeskTyped, DeskCall
    <3> QED BY <3>1, <3>2, DeskAsks
  <2>3. CASE Desk!Succeeds(c) /\ ~v2.open
    BY <1>0, <2>3 DEF Desk!Succeeds
  <2> QED BY <2>1, <2>2, <2>3 DEF Desk!ReceiveCall
<1>3. Decided(v1', v7', v8')
  BY <1>0, <1>1, StillDecided
<1>4. DeskTyped'
  BY <1>0, <1>1, <1>2 DEF DeskTyped
<1> QED BY <1>2, <1>3, <1>4 DEF DeskKept

LEMMA DeskInductive == DeskKept /\ [Desk!Next]_(Desk!vars) => DeskKept'
<1> SUFFICES ASSUME DeskKept, [Desk!Next]_(Desk!vars) PROVE DeskKept'
  OBVIOUS
<1>1. CASE UNCHANGED Desk!vars
  BY <1>1 DEF Desk!vars, DeskKept, DeskTyped
<1> QED BY <1>1, DeskReads, DeskDrafts, DeskSends, DeskWrites, DeskReceives DEF Desk!Next

\* The desk shows its newest read, and waits for it only while it is on its way
\* (ReviewDashboard); a case is decided as the moderator submitted it, whatever colleagues,
\* lapses and lost answers come between.
THEOREM DeskStaysCoherent == Services => []DeskIsCoherent
<1> DEFINE Kept == running = "desk" => DeskKept
<1>1. ServicesInit => Kept
  BY DeskAlone, DeskFirst
<1>2. Kept /\ [ServicesNext]_<<running, vars, slots>> => Kept'
  <2> SUFFICES ASSUME Kept, [ServicesNext]_<<running, vars, slots>>, running' = "desk"
               PROVE  DeskKept'
    OBVIOUS
  <2>1. running = "desk"
    BY DEF ServicesNext, In
  <2> QED BY <2>1, DeskAlone, DeskInductive
<1>3. Kept => DeskIsCoherent
  BY DeskInvariant DEF DeskIsCoherent, Desk!IInv, Desk!DeskIsCoherent
<1> QED BY <1>1, <1>2, <1>3, PTL DEF Services

-----------------------------------------------------------------------------
(* Groups.  v1: group, v2: member, v3: invite, v4: call, v5: made.         *)

LEMMA GroupAlone ==
  ASSUME running = "groups"
  PROVE  /\ ServicesInit => Group!Init
         /\ [ServicesNext]_<<running, vars, slots>> => running' = running /\ [Group!Next]_(Group!vars)
  BY DEF ServicesInit, ServicesNext, In, slots, Group!vars

\* The records of Groups.
GroupRow == [owner : ForGroup.People, status : {"active", "archived", "suspended"}]
Membership == [rows : 0..ForGroup.MaxRows, active : BOOLEAN, role : {"owner", "member"}]
Invitation ==
  [group : ForGroup.GroupIds, invitee : ForGroup.People,
   status : {"pending", "accepted", "declined", "expired"}]
GroupCall ==
  [step : Group!CallSteps, group : ForGroup.GroupIds, by : ForGroup.People, of : ForGroup.People,
   invite : Nat]

GroupTyped ==
  /\ v1 \in [ForGroup.GroupIds -> GroupRow \cup {None}]
  /\ v2 \in [ForGroup.GroupIds -> [ForGroup.People -> Membership]]
  /\ v3 \in Seq(Invitation) /\ Len(v3) <= ForGroup.MaxInvites
  /\ v4 \in [Calls -> GroupCall \cup {None}]
  /\ v5 \in 0..ForGroup.MaxCalls

LEMMA GroupTypes ==
  /\ Group!TypeOK /\ Group!CallsTyped <=> GroupTyped
  /\ Group!TypeOK' /\ Group!CallsTyped' <=> GroupTyped'
<1>1. Group!TypeOK /\ Group!CallsTyped <=> GroupTyped
  BY DEF Group!TypeOK, Group!CallsTyped, GroupTyped, GroupRow, Membership, Invitation, GroupCall,
         Group!Statuses
<1>2. Group!TypeOK' /\ Group!CallsTyped' <=> GroupTyped'
  BY DEF Group!TypeOK, Group!CallsTyped, GroupTyped, GroupRow, Membership, Invitation, GroupCall,
         Group!Statuses
<1> QED BY <1>1, <1>2

LEMMA GroupBounds ==
  /\ ForGroup.MaxInvites \in Nat /\ ForGroup.MaxRows \in Nat /\ ForGroup.MaxCalls \in Nat
  /\ None \notin GroupRow
  BY ServicesAssumption DEF Group!GroupsAssumption, GroupRow

\* Sets that gain or lose one.
LEMMA GroupCounts ==
  /\ Group!IsFiniteSet({}) /\ Group!Cardinality({}) = 0
  /\ \A S : Group!IsFiniteSet(S) => Group!Cardinality(S) \in Nat
  /\ \A S, n : Group!IsFiniteSet(S) /\ n \notin S =>
       /\ Group!IsFiniteSet(S \cup {n})
       /\ Group!Cardinality(S \cup {n}) = Group!Cardinality(S) + 1
  /\ \A S, n : Group!IsFiniteSet(S) /\ n \in S =>
       /\ Group!IsFiniteSet(S \ {n})
       /\ Group!Cardinality(S \ {n}) = Group!Cardinality(S) - 1
  /\ \A S, T : Group!IsFiniteSet(T) /\ S \subseteq T =>
       /\ Group!IsFiniteSet(S)
       /\ Group!Cardinality(S) <= Group!Cardinality(T)
<1>1. \A S : Group!IsFiniteSet(S) <=> IsFiniteSet(S)
  BY DEF Group!IsFiniteSet, IsFiniteSet
<1>2. \A S : Group!Cardinality(S) = Cardinality(S)
  BY DEF Group!Cardinality, Cardinality
<1>3. \A S, n : IsFiniteSet(S) /\ n \notin S =>
        IsFiniteSet(S \cup {n}) /\ Cardinality(S \cup {n}) = Cardinality(S) + 1
  BY FS_AddElement
<1>4. \A S, n : IsFiniteSet(S) /\ n \in S =>
        IsFiniteSet(S \ {n}) /\ Cardinality(S \ {n}) = Cardinality(S) - 1
  BY FS_RemoveElement
<1>5. \A S, T : IsFiniteSet(T) /\ S \subseteq T => IsFiniteSet(S) /\ Cardinality(S) <= Cardinality(T)
  BY FS_Subset
<1> QED BY <1>1, <1>2, <1>3, <1>4, <1>5, FS_EmptySet, FS_CardinalityType

\* Invites are finitely many.
LEMMA AcceptedAreFinite ==
  ASSUME NEW s \in Seq(Invitation), NEW S, S \subseteq DOMAIN s
  PROVE  Group!IsFiniteSet(S)
<1>1. DOMAIN s = 1..Len(s) /\ Len(s) \in Nat
  OBVIOUS
<1>2. IsFiniteSet(1..Len(s))
  BY <1>1, FS_Interval
<1>3. IsFiniteSet(S)
  BY <1>1, <1>2, FS_Subset
<1> QED BY <1>3 DEF Group!IsFiniteSet, IsFiniteSet

\* Owners stay owners; invites stay, and stay accepted.
OwnersStay(s, t) ==
  \A g \in ForGroup.GroupIds : s[g] # None => t[g] # None /\ t[g].owner = s[g].owner
InvitesStay(s, t) ==
  \A i \in DOMAIN s :
    /\ i \in DOMAIN t /\ t[i].group = s[i].group /\ t[i].invitee = s[i].invitee
    /\ s[i].status = "accepted" => t[i].status = "accepted"

\* A call that may be under way.
Fits(groups, invites, x) ==
  /\ x.step \in {"addOwner", "archive"} => groups[x.group] # None
  /\ x.step = "addOwner" => groups[x.group].owner = x.by
  /\ x.step \in {"accept", "decline"} =>
       /\ x.invite \in DOMAIN invites
       /\ invites[x.invite].group = x.group /\ invites[x.invite].invitee = x.of

LEMMA GroupGoes ==
  ASSUME Group!IInv, GroupTyped', OwnersStay(v1, v1'), InvitesStay(v3, v3'),
         \A d \in Calls : v4'[d] \in {v4[d], None} \/ Fits(v1', v3', v4'[d]),
         \A g \in ForGroup.GroupIds, p \in ForGroup.People : Group!PaidFor(g, p)'
  PROVE  Group!IInv'
<1>1. GroupTyped
  BY GroupTypes DEF Group!IInv
<1>2. Group!GroupsExist'
  <2> SUFFICES ASSUME NEW d \in Calls, v4'[d] # None, v4'[d].step \in {"addOwner", "archive"}
               PROVE  /\ v1'[v4'[d].group] # None
                      /\ v4'[d].step = "addOwner" => v1'[v4'[d].group].owner = v4'[d].by
    BY DEF Group!GroupsExist, Group!At
  <2>1. CASE Fits(v1', v3', v4'[d])
    BY <2>1 DEF Fits
  <2>2. CASE v4'[d] = v4[d]
    <3>1. /\ v1[v4[d].group] # None
          /\ v4[d].step = "addOwner" => v1[v4[d].group].owner = v4[d].by
      BY <2>2 DEF Group!IInv, Group!GroupsExist, Group!At
    <3>2. v4[d].group \in ForGroup.GroupIds
      BY <1>1, <2>2 DEF GroupTyped, GroupCall
    <3> QED BY <2>2, <3>1, <3>2 DEF OwnersStay
  <2> QED BY <2>1, <2>2
<1>3. Group!AnswersOwn'
  <2> SUFFICES ASSUME NEW d \in Calls, v4'[d] # None, v4'[d].step \in {"accept", "decline"}
               PROVE  /\ v4'[d].invite \in DOMAIN v3'
                      /\ v3'[v4'[d].invite].group = v4'[d].group
                      /\ v3'[v4'[d].invite].invitee = v4'[d].of
    BY DEF Group!AnswersOwn, Group!At
  <2>1. CASE Fits(v1', v3', v4'[d])
    BY <2>1 DEF Fits
  <2>2. CASE v4'[d] = v4[d]
    <3>1. /\ v4[d].invite \in DOMAIN v3 /\ v3[v4[d].invite].group = v4[d].group
          /\ v3[v4[d].invite].invitee = v4[d].of
      BY <2>2 DEF Group!IInv, Group!AnswersOwn, Group!At
    <3> QED BY <2>2, <3>1 DEF InvitesStay
  <2> QED BY <2>1, <2>2
<1> QED BY <1>2, <1>3, GroupTypes DEF Group!IInv

\* The balance of a person in a group.
LEMMA GroupBalance ==
  ASSUME Group!IInv, NEW g \in ForGroup.GroupIds, NEW p \in ForGroup.People
  PROVE  /\ Group!IsFiniteSet(Group!Joining(g, p)) /\ Group!IsFiniteSet(Group!Accepted(g, p))
         /\ Group!Cardinality(Group!Joining(g, p)) \in Nat
         /\ Group!Cardinality(Group!Accepted(g, p)) \in Nat
         /\ v2[g][p] \in Membership /\ v2[g][p].rows \in Nat
         /\ \/ v1[g] # None /\ v1[g].owner = p
            \/ v2[g][p].rows + Group!Cardinality(Group!Joining(g, p))
                 <= Group!Cardinality(Group!Accepted(g, p))
<1>1. GroupTyped /\ Group!PaidFor(g, p)
  BY GroupTypes DEF Group!IInv
<1>2. Group!IsFiniteSet(Group!Accepted(g, p))
  <2>1. v3 \in Seq(Invitation) /\ Group!Accepted(g, p) \subseteq DOMAIN v3
    BY <1>1 DEF GroupTyped, Group!Accepted
  <2> QED BY <2>1, AcceptedAreFinite
<1>3. v2[g][p] \in Membership /\ v2[g][p].rows \in Nat
  <2>1. v2[g][p] \in Membership
    BY <1>1 DEF GroupTyped
  <2> QED BY <2>1 DEF Membership
<1> QED BY <1>1, <1>2, <1>3, GroupCounts DEF Group!PaidFor

LEMMA GroupCalm ==
  ASSUME Group!IInv, GroupTyped', OwnersStay(v1, v1'), InvitesStay(v3, v3'),
         \A d \in Calls : v4'[d] \in {v4[d], None} \/ v4'[d].step # "addMember",
         NEW g \in ForGroup.GroupIds, NEW p \in ForGroup.People,
         v2'[g][p].rows = v2[g][p].rows
  PROVE  Group!PaidFor(g, p)'
<1> DEFINE J == Group!Joining(g, p)
           J1 == Group!Joining(g, p)'
           A == Group!Accepted(g, p)
           A1 == Group!Accepted(g, p)'
<1>1. J1 \subseteq J
  BY DEF Group!Joining, Group!At
<1>2. A \subseteq A1
  BY DEF Group!Accepted, InvitesStay
<1>3. Group!IsFiniteSet(A1)
  <2>1. v3' \in Seq(Invitation) /\ A1 \subseteq DOMAIN v3'
    BY DEF GroupTyped, Group!Accepted
  <2> QED BY <2>1, AcceptedAreFinite
<1>4. /\ Group!IsFiniteSet(J) /\ Group!Cardinality(J) \in Nat /\ Group!Cardinality(A) \in Nat
      /\ v2[g][p].rows \in Nat
      /\ \/ v1[g] # None /\ v1[g].owner = p
         \/ v2[g][p].rows + Group!Cardinality(J) <= Group!Cardinality(A)
  BY GroupBalance
<1>5. /\ Group!IsFiniteSet(J1) /\ Group!Cardinality(J1) \in Nat
      /\ Group!Cardinality(J1) <= Group!Cardinality(J)
      /\ Group!Cardinality(A1) \in Nat /\ Group!Cardinality(A) <= Group!Cardinality(A1)
  <2> HIDE DEF J, J1, A, A1
  <2> QED BY <1>1, <1>2, <1>3, <1>4, GroupCounts
<1>6. CASE v1[g] # None /\ v1[g].owner = p
  BY <1>5, <1>6 DEF OwnersStay, Group!PaidFor
<1>7. CASE v2[g][p].rows + Group!Cardinality(J) <= Group!Cardinality(A)
  <2>1. v2[g][p].rows + Group!Cardinality(J1) <= Group!Cardinality(A1)
    <3> DEFINE r == v2[g][p].rows
               j == Group!Cardinality(J)
               j1 == Group!Cardinality(J1)
               a == Group!Cardinality(A)
               a1 == Group!Cardinality(A1)
    <3>1. r \in Nat /\ j \in Nat /\ j1 \in Nat /\ a \in Nat /\ a1 \in Nat
      BY <1>4, <1>5
    <3>2. j1 <= j /\ a <= a1 /\ r + j <= a
      BY <1>5, <1>7
    <3>3. r + j1 <= a1
      <4> HIDE DEF r, j, j1, a, a1
      <4> QED BY <3>1, <3>2
    <3> QED BY <3>3
  <2> QED BY <1>5, <2>1 DEF Group!PaidFor
<1> QED BY <1>4, <1>6, <1>7

LEMMA GroupFirst == Group!Init => Group!IInv
<1> SUFFICES ASSUME Group!Init PROVE Group!IInv
  OBVIOUS
<1>1. /\ v1 = [g \in ForGroup.GroupIds |-> None] /\ v3 = <<>> /\ v4 = [c \in Calls |-> None] /\ v5 = 0
      /\ v2 = [g \in ForGroup.GroupIds |-> [p \in ForGroup.People |->
                 [rows |-> 0, active |-> FALSE, role |-> "member"]]]
  BY DEF Group!Init
<1>2. GroupTyped
  BY <1>1, GroupBounds DEF GroupTyped, Membership
<1>3. Group!GroupsExist /\ Group!AnswersOwn
  BY <1>1 DEF Group!GroupsExist, Group!AnswersOwn, Group!At
<1>4. ASSUME NEW g \in ForGroup.GroupIds, NEW p \in ForGroup.People PROVE Group!PaidFor(g, p)
  <2>1. Group!Joining(g, p) = {} /\ Group!Accepted(g, p) = {} /\ v2[g][p].rows = 0
    BY <1>1 DEF Group!Joining, Group!Accepted, Group!At
  <2> QED BY <2>1, GroupCounts DEF Group!PaidFor
<1> QED BY <1>2, <1>3, <1>4, GroupTypes DEF Group!IInv

LEMMA GroupStays ==
  ASSUME Group!IInv
  PROVE  /\ GroupTyped /\ OwnersStay(v1, v1) /\ InvitesStay(v3, v3)
         /\ v5 < ForGroup.MaxCalls => v5 + 1 \in 0..ForGroup.MaxCalls
<1>1. GroupTyped
  BY GroupTypes DEF Group!IInv
<1>2. v5 < ForGroup.MaxCalls => v5 + 1 \in 0..ForGroup.MaxCalls
  BY <1>1, GroupBounds DEF GroupTyped
<1> QED BY <1>1, <1>2 DEF OwnersStay, InvitesStay

\* A call that begins, goes on to another read, or ends with nothing written.
LEMMA GroupReads ==
  ASSUME Group!IInv, NEW c \in Calls, NEW x \in GroupCall \cup {None},
         v4' = [v4 EXCEPT ![c] = x], UNCHANGED <<v1, v2, v3>>, v5' \in 0..ForGroup.MaxCalls,
         x = None \/ (x.step # "addMember" /\ Fits(v1, v3, x))
  PROVE  Group!IInv'
<1>1. GroupTyped'
  BY GroupStays DEF GroupTyped
<1>2. OwnersStay(v1, v1') /\ InvitesStay(v3, v3')
  BY GroupStays
<1>3. \A d \in Calls :
        v4'[d] \in {v4[d], None} \/ (v4'[d].step # "addMember" /\ Fits(v1', v3', v4'[d]))
  BY GroupStays DEF GroupTyped
<1>4. \A g \in ForGroup.GroupIds, p \in ForGroup.People : Group!PaidFor(g, p)'
  BY <1>1, <1>2, <1>3, GroupCalm
<1> QED BY <1>1, <1>2, <1>3, <1>4, GroupGoes

LEMMA GroupBegins ==
  ASSUME Group!IInv, NEW c \in Calls,
         Group!StartArchive(c) \/ Group!StartInvite(c) \/ Group!StartAnswer(c)
  PROVE  Group!IInv'
<1>1. PICK x : Group!Begins(c, x) /\ x \in GroupCall /\ x.step # "addMember" /\ Fits(v1, v3, x)
  <2>1. CASE Group!StartArchive(c)
    <3>1. PICK g \in ForGroup.GroupIds, p \in ForGroup.People :
            Group!Begins(c, Group!Step("readForArchive", g, p, p, 0))
      BY <2>1 DEF Group!StartArchive
    <3>2. Group!Step("readForArchive", g, p, p, 0) \in GroupCall
      BY DEF Group!Step, GroupCall, Group!CallSteps
    <3> QED BY <3>1, <3>2 DEF Fits, Group!Step
  <2>2. CASE Group!StartInvite(c)
    <3>1. PICK g \in ForGroup.GroupIds, by \in ForGroup.People, of \in ForGroup.People :
            Group!Begins(c, Group!Step("readGroup", g, by, of, 0))
      BY <2>2 DEF Group!StartInvite
    <3>2. Group!Step("readGroup", g, by, of, 0) \in GroupCall
      BY DEF Group!Step, GroupCall, Group!CallSteps
    <3> QED BY <3>1, <3>2 DEF Fits, Group!Step
  <2>3. CASE Group!StartAnswer(c)
    <3>1. PICK i \in DOMAIN v3, answer \in {"accept", "decline"} :
            Group!Begins(c, Group!Step(answer, v3[i].group, v3[i].invitee, v3[i].invitee, i))
      BY <2>3 DEF Group!StartAnswer
    <3> DEFINE x == Group!Step(answer, v3[i].group, v3[i].invitee, v3[i].invitee, i)
    <3>2. v3 \in Seq(Invitation)
      BY GroupStays DEF GroupTyped
    <3>3. v3[i] \in Invitation /\ i \in Nat
      BY <3>2
    <3>4. x \in GroupCall
      BY <3>3 DEF Group!Step, GroupCall, Group!CallSteps, Invitation
    <3>5. x.step = answer /\ x.group = v3[i].group /\ x.of = v3[i].invitee /\ x.invite = i
      BY DEF Group!Step
    <3>6. x.step # "addMember" /\ Fits(v1, v3, x)
      BY <3>5 DEF Fits
    <3> QED BY <3>1, <3>4, <3>6
  <2> QED BY <2>1, <2>2, <2>3
<1>2. v4' = [v4 EXCEPT ![c] = x] /\ UNCHANGED <<v1, v2, v3>> /\ v5' \in 0..ForGroup.MaxCalls
  BY <1>1, GroupStays DEF Group!Begins
<1> QED BY <1>1, <1>2, GroupReads

LEMMA GroupLooks ==
  ASSUME Group!IInv, NEW c \in Calls,
         \/ Group!ReadForArchive(c) \/ Group!ReadGroup(c) \/ Group!ReadInviter(c)
         \/ Group!ReadInvitee(c) \/ Group!EndsEarly(c)
  PROVE  Group!IInv'
<1>1. /\ UNCHANGED <<v1, v2, v3, v5>> /\ v4[c] # None
      /\ \/ Group!Ends(c)
         \/ \E s \in {"archive", "readInviter", "readInvitee", "insertInvite"} :
              Group!Continues(c, s) /\ (s = "archive" => v1[v4[c].group] # None)
  BY DEF Group!ReadForArchive, Group!ReadGroup, Group!ReadInviter, Group!ReadInvitee,
         Group!EndsEarly, Group!At, Group!MayArchive
<1>2. v4[c] \in GroupCall /\ v5' \in 0..ForGroup.MaxCalls
  BY <1>1, GroupStays DEF GroupTyped
<1>3. CASE Group!Ends(c)
  <2>1. v4' = [v4 EXCEPT ![c] = None]
    BY <1>3 DEF Group!Ends
  <2> QED BY <1>1, <1>2, <2>1, GroupReads
<1>4. ASSUME NEW s \in {"archive", "readInviter", "readInvitee", "insertInvite"},
             Group!Continues(c, s), s = "archive" => v1[v4[c].group] # None
      PROVE  Group!IInv'
  <2> DEFINE x == [v4[c] EXCEPT !.step = s]
  <2>1. v4' = [v4 EXCEPT ![c] = x]
    BY <1>4 DEF Group!Continues
  <2>2. x \in GroupCall /\ x.step = s /\ x.group = v4[c].group
    BY <1>2 DEF GroupCall, Group!CallSteps
  <2> HIDE DEF x
  <2>3. Fits(v1, v3, x)
    BY <1>4, <2>2 DEF Fits
  <2> QED BY <1>1, <1>2, <2>1, <2>2, <2>3, GroupReads
<1> QED BY <1>1, <1>3, <1>4

\* A group is made, archived or suspended.
LEMMA GroupChanges ==
  ASSUME Group!IInv,
         \/ Group!UpdateGroupStatus
         \/ \E c \in Calls : Group!CreateGroup(c) \/ Group!Archive(c)
  PROVE  Group!IInv'
<1> DEFINE Goal ==
      /\ v1' \in [ForGroup.GroupIds -> GroupRow \cup {None}] /\ OwnersStay(v1, v1')
      /\ v4' \in [Calls -> GroupCall \cup {None}] /\ UNCHANGED <<v2, v3>> /\ v5' \in 0..ForGroup.MaxCalls
      /\ \A d \in Calls :
           v4'[d] \in {v4[d], None} \/ (v4'[d].step # "addMember" /\ Fits(v1', v3', v4'[d]))
<1>0. GroupTyped
  BY GroupStays
\* The status of a group changes, nothing else of it.
<1>1. ASSUME NEW g \in ForGroup.GroupIds, NEW s \in {"active", "archived", "suspended"},
             v1[g] # None, v1' = [v1 EXCEPT ![g].status = s]
      PROVE  v1' \in [ForGroup.GroupIds -> GroupRow \cup {None}] /\ OwnersStay(v1, v1')
  <2> DEFINE r == [v1[g] EXCEPT !.status = s]
  <2>1. v1[g] \in GroupRow
    BY <1>0, <1>1 DEF GroupTyped
  <2>2. r \in GroupRow /\ r.owner = v1[g].owner /\ v1' = [v1 EXCEPT ![g] = r]
    BY <1>1, <2>1 DEF GroupRow
  <2>3. r # None
    BY <2>2, GroupBounds
  <2> HIDE DEF r
  <2> QED BY <1>0, <2>2, <2>3 DEF GroupTyped, OwnersStay
<1>2. ASSUME Group!UpdateGroupStatus PROVE Goal
  <2>1. PICK g \in ForGroup.GroupIds, s \in {"active", "archived", "suspended"} :
          v1[g] # None /\ v1' = [v1 EXCEPT ![g].status = s]
    BY <1>2 DEF Group!UpdateGroupStatus, Group!Statuses
  <2>2. v1' \in [ForGroup.GroupIds -> GroupRow \cup {None}] /\ OwnersStay(v1, v1')
    BY <1>1, <2>1
  <2>3. UNCHANGED <<v2, v3, v4>> /\ v5' \in 0..ForGroup.MaxCalls
    BY <1>2, GroupStays DEF Group!UpdateGroupStatus
  <2>4. v4' \in [Calls -> GroupCall \cup {None}] /\ \A d \in Calls : v4'[d] \in {v4[d], None}
    BY <1>0, <2>3 DEF GroupTyped
  <2> QED BY <2>2, <2>3, <2>4
<1>3. ASSUME NEW c \in Calls, Group!CreateGroup(c) PROVE Goal
  <2>1. PICK g \in ForGroup.GroupIds, p \in ForGroup.People :
          /\ v1[g] = None /\ v1' = [v1 EXCEPT ![g] = [owner |-> p, status |-> "active"]]
          /\ v4' = [v4 EXCEPT ![c] = Group!Step("addOwner", g, p, p, 0)]
    BY <1>3 DEF Group!CreateGroup
  <2> DEFINE r == [owner |-> p, status |-> "active"]
             x == Group!Step("addOwner", g, p, p, 0)
  <2>2. r \in GroupRow /\ r.owner = p
    BY DEF GroupRow
  <2>3. r # None
    BY <2>2, GroupBounds
  <2>4. /\ x \in GroupCall /\ x.step = "addOwner" /\ x.group = g /\ x.by = p
    BY DEF Group!Step, GroupCall, Group!CallSteps
  <2>5. v1' = [v1 EXCEPT ![g] = r] /\ v4' = [v4 EXCEPT ![c] = x]
    BY <2>1
  <2> HIDE DEF r, x
  <2>6. /\ v1' \in [ForGroup.GroupIds -> GroupRow \cup {None}] /\ OwnersStay(v1, v1')
        /\ v1'[g] = r
    BY <1>0, <2>1, <2>2, <2>5 DEF GroupTyped, OwnersStay
  <2>7. v4' \in [Calls -> GroupCall \cup {None}] /\ v4'[c] = x
        /\ \A d \in Calls \ {c} : v4'[d] = v4[d]
    BY <1>0, <2>4, <2>5 DEF GroupTyped
  <2>8. x.step # "addMember" /\ Fits(v1', v3', x)
    BY <2>2, <2>3, <2>4, <2>6 DEF Fits
  <2>9. UNCHANGED <<v2, v3>> /\ v5' \in 0..ForGroup.MaxCalls
    BY <1>3, GroupStays DEF Group!CreateGroup
  <2> QED BY <2>6, <2>7, <2>8, <2>9
<1>4. ASSUME NEW c \in Calls, Group!Archive(c) PROVE Goal
  <2> DEFINE g == v4[c].group
  <2>1. /\ v4[c] # None /\ v4[c].step = "archive" /\ v1' = [v1 EXCEPT ![g].status = "archived"]
        /\ v4' = [v4 EXCEPT ![c] = None] /\ UNCHANGED <<v2, v3, v5>>
    BY <1>4 DEF Group!Archive, Group!At, Group!Ends
  <2>2. g \in ForGroup.GroupIds /\ v1[g] # None
    BY <1>0, <2>1 DEF GroupTyped, GroupCall, Group!IInv, Group!GroupsExist, Group!At
  <2>3. v1' \in [ForGroup.GroupIds -> GroupRow \cup {None}] /\ OwnersStay(v1, v1')
    BY <1>1, <2>1, <2>2
  <2>4. v4' \in [Calls -> GroupCall \cup {None}] /\ \A d \in Calls : v4'[d] \in {v4[d], None}
    BY <1>0, <2>1 DEF GroupTyped
  <2> QED BY <1>0, <2>1, <2>3, <2>4 DEF GroupTyped
<1>5. Goal
  BY <1>2, <1>3, <1>4
<1>6. GroupTyped' /\ InvitesStay(v3, v3')
  BY <1>0, <1>5, GroupStays DEF GroupTyped
<1>7. \A g \in ForGroup.GroupIds, p \in ForGroup.People : Group!PaidFor(g, p)'
  BY <1>5, <1>6, GroupCalm
<1> QED BY <1>5, <1>6, <1>7, GroupGoes

\* A membership ends: its row stays.
LEMMA GroupLeaves ==
  ASSUME Group!IInv, Group!Leave
  PROVE  Group!IInv'
<1>0. GroupTyped
  BY GroupStays
<1>1. PICK g \in ForGroup.GroupIds, p \in ForGroup.People :
        v2' = [v2 EXCEPT ![g][p].active = FALSE]
  BY DEF Group!Leave, Group!RemoveMember
<1> DEFINE m == [v2[g][p] EXCEPT !.active = FALSE]
<1>2. v2[g][p] \in Membership /\ v2 \in [ForGroup.GroupIds -> [ForGroup.People -> Membership]]
  BY <1>0 DEF GroupTyped
<1>3. m \in Membership /\ m.rows = v2[g][p].rows /\ v2' = [v2 EXCEPT ![g][p] = m]
  BY <1>1, <1>2 DEF Membership
<1> HIDE DEF m
<1>4. v2' \in [ForGroup.GroupIds -> [ForGroup.People -> Membership]]
      /\ \A h \in ForGroup.GroupIds, q \in ForGroup.People : v2'[h][q].rows = v2[h][q].rows
  BY <1>2, <1>3
<1>5. UNCHANGED <<v1, v3, v4>> /\ v5' \in 0..ForGroup.MaxCalls
  BY GroupStays DEF Group!Leave
<1>6. GroupTyped' /\ OwnersStay(v1, v1') /\ InvitesStay(v3, v3')
  BY <1>0, <1>4, <1>5, GroupStays DEF GroupTyped
<1>7. \A d \in Calls : v4'[d] \in {v4[d], None}
  BY <1>5
<1>8. \A h \in ForGroup.GroupIds, q \in ForGroup.People : Group!PaidFor(h, q)'
  BY <1>4, <1>6, <1>7, GroupCalm
<1> QED BY <1>6, <1>7, <1>8, GroupGoes

\* A pending invite is answered.
LEMMA GroupResolves ==
  ASSUME v3 \in Seq(Invitation), Len(v3) <= ForGroup.MaxInvites, NEW i \in DOMAIN v3,
         NEW s \in {"accepted", "declined"}, Group!ResolveInvite(i, s)
  PROVE  /\ v3' \in Seq(Invitation) /\ Len(v3') <= ForGroup.MaxInvites /\ InvitesStay(v3, v3')
         /\ v3[i].status = "pending" /\ v3'[i].status = s /\ DOMAIN v3' = DOMAIN v3
         /\ v3'[i].group = v3[i].group /\ v3'[i].invitee = v3[i].invitee
         /\ \A k \in DOMAIN v3 \ {i} : v3'[k] = v3[k]
<1> DEFINE x == [v3[i] EXCEPT !.status = s]
<1>1. v3[i] \in Invitation /\ v3[i].status = "pending" /\ v3' = [v3 EXCEPT ![i] = x]
  BY DEF Group!ResolveInvite, Group!Resolvable
<1>2. x \in Invitation /\ x.status = s /\ x.group = v3[i].group /\ x.invitee = v3[i].invitee
  BY <1>1 DEF Invitation
<1> HIDE DEF x
<1>3. /\ v3' \in Seq(Invitation) /\ Len(v3') = Len(v3) /\ DOMAIN v3' = DOMAIN v3 /\ v3'[i] = x
      /\ \A k \in DOMAIN v3 \ {i} : v3'[k] = v3[k]
  BY <1>1, <1>2
<1> QED BY <1>1, <1>2, <1>3 DEF InvitesStay

\* An invite is made, or declined, or accepted by a call that ends there.
LEMMA GroupInvites ==
  ASSUME Group!IInv, NEW c \in Calls,
         Group!InsertInvite(c) \/ Group!Decline(c) \/ Group!AnswerLost(c)
  PROVE  Group!IInv'
<1>0. GroupTyped
  BY GroupStays
<1>1. v4[c] # None /\ v4' = [v4 EXCEPT ![c] = None] /\ UNCHANGED <<v1, v2, v5>>
  BY DEF Group!InsertInvite, Group!Decline, Group!AnswerLost, Group!Ends, Group!At
<1>2. v4[c] \in GroupCall /\ v3 \in Seq(Invitation)
  BY <1>0, <1>1 DEF GroupTyped
<1>3. v3' \in Seq(Invitation) /\ Len(v3') <= ForGroup.MaxInvites /\ InvitesStay(v3, v3')
  <2>1. CASE Group!InsertInvite(c)
    <3> DEFINE x == [group |-> v4[c].group, invitee |-> v4[c].of, status |-> "pending"]
    <3>1. v3' = Append(v3, x) /\ Len(v3) < ForGroup.MaxInvites
      BY <2>1 DEF Group!InsertInvite
    <3>2. x \in Invitation
      BY <1>2 DEF Invitation, GroupCall
    <3> HIDE DEF x
    <3>3. v3' \in Seq(Invitation) /\ Len(v3') = Len(v3) + 1 /\ Len(v3) \in Nat
          /\ \A i \in DOMAIN v3 : i \in DOMAIN v3' /\ v3'[i] = v3[i]
      BY <1>2, <3>1, <3>2
    <3> QED BY <3>1, <3>3, GroupBounds DEF InvitesStay
  <2>2. ASSUME NEW s \in {"accepted", "declined"}, Group!ResolveInvite(v4[c].invite, s),
               v4[c].step \in {"accept", "decline"}
        PROVE  v3' \in Seq(Invitation) /\ Len(v3') <= ForGroup.MaxInvites /\ InvitesStay(v3, v3')
    <3>1. v4[c].invite \in DOMAIN v3
      BY <1>1, <2>2 DEF Group!IInv, Group!AnswersOwn, Group!At
    <3> QED BY <1>0, <2>2, <3>1, GroupResolves DEF GroupTyped
  <2> QED BY <2>1, <2>2 DEF Group!Decline, Group!AnswerLost, Group!At
<1>4. GroupTyped' /\ OwnersStay(v1, v1')
  BY <1>0, <1>1, <1>3, GroupStays DEF GroupTyped
<1>5. \A d \in Calls : v4'[d] \in {v4[d], None}
  BY <1>0, <1>1 DEF GroupTyped
<1>6. \A g \in ForGroup.GroupIds, p \in ForGroup.People : Group!PaidFor(g, p)'
  BY <1>1, <1>3, <1>4, <1>5, GroupCalm
<1> QED BY <1>3, <1>4, <1>5, <1>6, GroupGoes

\* An invite accepted now, a membership soon.
LEMMA GroupAccepts ==
  ASSUME Group!IInv, NEW c \in Calls, Group!Accept(c)
  PROVE  Group!IInv'
<1> DEFINE i == v4[c].invite
           x == [v4[c] EXCEPT !.step = "addMember"]
<1>0. GroupTyped
  BY GroupStays
<1>1. /\ v4[c] # None /\ v4[c].step = "accept" /\ v4' = [v4 EXCEPT ![c] = x]
      /\ UNCHANGED <<v1, v2, v5>> /\ Group!ResolveInvite(i, "accepted")
  BY DEF Group!Accept, Group!At, Group!Continues
<1>2. v4[c] \in GroupCall /\ v3 \in Seq(Invitation)
  BY <1>0, <1>1 DEF GroupTyped
<1>3. i \in DOMAIN v3 /\ v3[i].group = v4[c].group /\ v3[i].invitee = v4[c].of
  BY <1>1 DEF Group!IInv, Group!AnswersOwn, Group!At
<1>4. /\ v3' \in Seq(Invitation) /\ Len(v3') <= ForGroup.MaxInvites /\ InvitesStay(v3, v3')
      /\ v3[i].status = "pending" /\ v3'[i].status = "accepted" /\ DOMAIN v3' = DOMAIN v3
      /\ v3'[i].group = v3[i].group /\ v3'[i].invitee = v3[i].invitee
      /\ \A k \in DOMAIN v3 \ {i} : v3'[k] = v3[k]
  BY <1>0, <1>1, <1>3, GroupResolves DEF GroupTyped
<1>5. x \in GroupCall /\ x.step = "addMember" /\ x.group = v4[c].group /\ x.of = v4[c].of
  BY <1>2 DEF GroupCall, Group!CallSteps
<1> HIDE DEF x
<1>6. v4'[c] = x /\ \A d \in Calls \ {c} : v4'[d] = v4[d]
  BY <1>0, <1>1 DEF GroupTyped
<1>7. GroupTyped' /\ OwnersStay(v1, v1')
  BY <1>0, <1>1, <1>4, <1>5, GroupStays DEF GroupTyped
<1>8. \A d \in Calls : v4'[d] \in {v4[d], None} \/ Fits(v1', v3', v4'[d])
  BY <1>5, <1>6 DEF Fits
<1>9. ASSUME NEW g \in ForGroup.GroupIds, NEW p \in ForGroup.People PROVE Group!PaidFor(g, p)'
  <2> DEFINE J == Group!Joining(g, p)
             J1 == Group!Joining(g, p)'
             A == Group!Accepted(g, p)
             A1 == Group!Accepted(g, p)'
             r == v2[g][p].rows
  <2>1. /\ Group!IsFiniteSet(J) /\ Group!IsFiniteSet(A) /\ Group!Cardinality(J) \in Nat
        /\ Group!Cardinality(A) \in Nat /\ r \in Nat
        /\ (v1[g] # None /\ v1[g].owner = p) \/ r + Group!Cardinality(J) <= Group!Cardinality(A)
    BY GroupBalance
  <2>2. CASE g = v4[c].group /\ p = v4[c].of
    <3>1. c \notin J /\ i \notin A
      BY <1>1, <1>4 DEF Group!Joining, Group!Accepted, Group!At
    <3>2. J1 \subseteq J \cup {c}
      BY <1>6 DEF Group!Joining, Group!At
    <3>3. A \cup {i} \subseteq A1
      BY <1>3, <1>4, <2>2 DEF Group!Accepted
    <3>4. Group!IsFiniteSet(A1)
      <4>1. A1 \subseteq DOMAIN v3'
        BY DEF Group!Accepted
      <4> QED BY <1>4, <4>1, AcceptedAreFinite
    <3>5. /\ Group!IsFiniteSet(J1) /\ Group!Cardinality(J1) \in Nat
          /\ Group!Cardinality(J1) <= Group!Cardinality(J) + 1
          /\ Group!Cardinality(A1) \in Nat /\ Group!Cardinality(A) + 1 <= Group!Cardinality(A1)
      <4> HIDE DEF J, J1, A, A1
      <4>1. Group!IsFiniteSet(J \cup {c}) /\ Group!Cardinality(J \cup {c}) = Group!Cardinality(J) + 1
        BY <2>1, <3>1, GroupCounts
      <4>2. Group!IsFiniteSet(A \cup {i}) /\ Group!Cardinality(A \cup {i}) = Group!Cardinality(A) + 1
        BY <2>1, <3>1, GroupCounts
      <4>3. Group!IsFiniteSet(J1) /\ Group!Cardinality(J1) <= Group!Cardinality(J \cup {c})
        BY <3>2, <4>1, GroupCounts
      <4>4. Group!Cardinality(A \cup {i}) <= Group!Cardinality(A1)
        BY <3>3, <3>4, GroupCounts
      <4> QED BY <3>4, <4>1, <4>2, <4>3, <4>4, GroupCounts
    <3>6. (v1'[g] # None /\ v1'[g].owner = p)
            \/ v2'[g][p].rows + Group!Cardinality(J1) <= Group!Cardinality(A1)
      <4>1. r + Group!Cardinality(J) <= Group!Cardinality(A)
              => r + Group!Cardinality(J1) <= Group!Cardinality(A1)
        <5> DEFINE j == Group!Cardinality(J)
                   j1 == Group!Cardinality(J1)
                   a == Group!Cardinality(A)
                   a1 == Group!Cardinality(A1)
        <5>1. /\ r \in Nat /\ j \in Nat /\ j1 \in Nat /\ a \in Nat /\ a1 \in Nat
              /\ j1 <= j + 1 /\ a + 1 <= a1
          BY <2>1, <3>5
        <5>2. r + j <= a => r + j1 <= a1
          <6> HIDE DEF r, j, j1, a, a1
          <6> QED BY <5>1
        <5> QED BY <5>2
      <4> QED BY <1>1, <2>1, <4>1
    <3> QED BY <3>5, <3>6 DEF Group!PaidFor
  <2>3. CASE ~(g = v4[c].group /\ p = v4[c].of)
    <3>1. J1 = J
      BY <1>1, <1>5, <1>6, <2>3 DEF Group!Joining, Group!At
    <3>2. A1 = A
      BY <1>3, <1>4, <2>3 DEF Group!Accepted
    <3> QED BY <1>1, <2>1, <3>1, <3>2 DEF Group!PaidFor
  <2> QED BY <2>2, <2>3
<1> QED BY <1>4, <1>7, <1>8, <1>9, GroupGoes

\* The owner's membership, or the one an invite was accepted for.
LEMMA GroupAdds ==
  ASSUME Group!IInv, NEW c \in Calls, Group!AddOwner(c) \/ Group!AddInvitee(c)
  PROVE  Group!IInv'
<1>0. GroupTyped
  BY GroupStays
<1>1. PICK g \in ForGroup.GroupIds, p \in ForGroup.People, role \in {"owner", "member"} :
        /\ v4[c] # None /\ Group!AddMember(g, p, role)
        /\ g = v4[c].group
        /\ \/ v4[c].step = "addOwner" /\ p = v4[c].by
           \/ v4[c].step = "addMember" /\ p = v4[c].of
  <2>1. v4[c] # None => v4[c].group \in ForGroup.GroupIds /\ v4[c].by \in ForGroup.People
                        /\ v4[c].of \in ForGroup.People
    BY <1>0 DEF GroupTyped, GroupCall
  <2> QED BY <2>1 DEF Group!AddOwner, Group!AddInvitee, Group!At
<1>2. v4' = [v4 EXCEPT ![c] = None] /\ UNCHANGED <<v1, v3, v5>>
  BY DEF Group!AddOwner, Group!AddInvitee, Group!Ends
<1> DEFINE m == [rows |-> v2[g][p].rows + 1, active |-> TRUE, role |-> role]
<1>3. v2' = [v2 EXCEPT ![g][p] = m] /\ v2[g][p].rows < ForGroup.MaxRows
  BY <1>1 DEF Group!AddMember
<1>4. v2[g][p] \in Membership /\ v2 \in [ForGroup.GroupIds -> [ForGroup.People -> Membership]]
  BY <1>0 DEF GroupTyped
<1>5. m \in Membership /\ m.rows = v2[g][p].rows + 1
  <2>1. v2[g][p].rows + 1 \in 0..ForGroup.MaxRows
    BY <1>3, <1>4, GroupBounds DEF Membership
  <2> QED BY <1>1, <2>1 DEF Membership
<1> HIDE DEF m
<1>6. /\ v2' \in [ForGroup.GroupIds -> [ForGroup.People -> Membership]]
      /\ v2'[g][p] = m
      /\ \A h \in ForGroup.GroupIds, q \in ForGroup.People : h # g \/ q # p => v2'[h][q] = v2[h][q]
  BY <1>3, <1>4, <1>5
<1>7. GroupTyped' /\ OwnersStay(v1, v1') /\ InvitesStay(v3, v3')
  BY <1>0, <1>2, <1>6, GroupStays DEF GroupTyped
<1>8. v4'[c] = None /\ (\A d \in Calls \ {c} : v4'[d] = v4[d])
      /\ (\A d \in Calls : v4'[d] \in {v4[d], None})
  BY <1>0, <1>2 DEF GroupTyped
<1>9. Group!PaidFor(g, p)'
  <2>1. CASE v4[c].step = "addOwner" /\ p = v4[c].by
    <3>1. v1[g] # None /\ v1[g].owner = p
      BY <1>1, <2>1 DEF Group!IInv, Group!GroupsExist, Group!At
    <3>2. Group!Joining(g, p)' \subseteq Group!Joining(g, p)
      BY <1>8 DEF Group!Joining, Group!At
    <3>3. Group!IsFiniteSet(Group!Joining(g, p)')
      BY <3>2, GroupBalance, GroupCounts
    <3> QED BY <1>2, <3>1, <3>3 DEF Group!PaidFor
  <2>2. CASE v4[c].step = "addMember" /\ p = v4[c].of
    <3> DEFINE J == Group!Joining(g, p)
               A == Group!Accepted(g, p)
               r == v2[g][p].rows
    <3>1. /\ Group!IsFiniteSet(J) /\ Group!Cardinality(J) \in Nat
          /\ Group!Cardinality(A) \in Nat /\ r \in Nat
          /\ (v1[g] # None /\ v1[g].owner = p) \/ r + Group!Cardinality(J) <= Group!Cardinality(A)
      BY GroupBalance
    <3>2. c \in J
      BY <1>1, <2>2 DEF Group!Joining, Group!At
    <3>3. Group!Joining(g, p)' = J \ {c}
      BY <1>8 DEF Group!Joining, Group!At
    <3>4. A' = A
      BY <1>2 DEF Group!Accepted
    <3>5. Group!IsFiniteSet(J \ {c}) /\ Group!Cardinality(J \ {c}) = Group!Cardinality(J) - 1
      <4> HIDE DEF J
      <4> QED BY <3>1, <3>2, GroupCounts
    <3>6. r + Group!Cardinality(J) <= Group!Cardinality(A)
            => (r + 1) + (Group!Cardinality(J) - 1) <= Group!Cardinality(A)
      <4> DEFINE j == Group!Cardinality(J)
                 a == Group!Cardinality(A)
      <4>1. r \in Nat /\ j \in Nat /\ a \in Nat
        BY <3>1
      <4>2. r + j <= a => (r + 1) + (j - 1) <= a
        <5> HIDE DEF r, j, a
        <5> QED BY <4>1
      <4> QED BY <4>2
    <3>7. Group!Cardinality(Group!Joining(g, p)') = Group!Cardinality(J) - 1
          /\ Group!IsFiniteSet(Group!Joining(g, p)') /\ v2'[g][p].rows = r + 1
      BY <1>5, <1>6, <3>3, <3>5
    <3>8. \/ v1'[g] # None /\ v1'[g].owner = p
          \/ v2'[g][p].rows + Group!Cardinality(Group!Joining(g, p)')
               <= Group!Cardinality(Group!Accepted(g, p)')
      <4> HIDE DEF r
      <4> QED BY <1>2, <3>1, <3>4, <3>6, <3>7
    <3> QED BY <3>7, <3>8 DEF Group!PaidFor
  <2> QED BY <1>1, <2>1, <2>2
<1>10. \A h \in ForGroup.GroupIds, q \in ForGroup.People : h # g \/ q # p => Group!PaidFor(h, q)'
  <2> SUFFICES ASSUME NEW h \in ForGroup.GroupIds, NEW q \in ForGroup.People, h # g \/ q # p
               PROVE  Group!PaidFor(h, q)'
    OBVIOUS
  <2> QED BY <1>6, <1>7, <1>8, GroupCalm
<1> QED BY <1>7, <1>8, <1>9, <1>10, GroupGoes

LEMMA GroupInductive == Group!IInv /\ [Group!Next]_(Group!vars) => Group!IInv'
<1> SUFFICES ASSUME Group!IInv, [Group!Next]_(Group!vars) PROVE Group!IInv'
  OBVIOUS
<1>1. CASE UNCHANGED Group!vars
  <2>1. UNCHANGED <<v1, v2, v3, v4, v5>>
    BY <1>1 DEF Group!vars
  <2>2. GroupTyped' /\ OwnersStay(v1, v1') /\ InvitesStay(v3, v3')
    BY <2>1, GroupStays DEF GroupTyped
  <2>3. \A g \in ForGroup.GroupIds, p \in ForGroup.People : Group!PaidFor(g, p)'
    BY <2>1, <2>2, GroupCalm
  <2> QED BY <2>1, <2>2, <2>3, GroupGoes
<1>2. ASSUME NEW c \in Calls, Group!GroupCalls(c) PROVE Group!IInv'
  BY <1>2, GroupChanges, GroupBegins, GroupLooks, GroupAdds DEF Group!GroupCalls
<1>3. ASSUME NEW c \in Calls, Group!InviteCalls(c) PROVE Group!IInv'
  BY <1>3, GroupBegins, GroupLooks, GroupInvites, GroupAccepts, GroupAdds DEF Group!InviteCalls
<1> QED BY <1>1, <1>2, <1>3, GroupLooks, GroupChanges, GroupLeaves DEF Group!Next

\* Whoever does not own a group is in it by consent: a membership for every accepted
\* invite at most (invite-service: accept and the rows it adds), whatever calls overlap,
\* fail or lose their answer.
THEOREM ConsentIsNeeded == Services => []ConsentIsUsedOnce
<1> DEFINE Kept == running = "groups" => Group!IInv
<1>1. ServicesInit => Kept
  BY GroupAlone, GroupFirst
<1>2. Kept /\ [ServicesNext]_<<running, vars, slots>> => Kept'
  <2> SUFFICES ASSUME Kept, [ServicesNext]_<<running, vars, slots>>, running' = "groups"
               PROVE  Group!IInv'
    OBVIOUS
  <2>1. running = "groups"
    BY DEF ServicesNext, In
  <2> QED BY <2>1, GroupAlone, GroupInductive
<1>3. Kept => ConsentIsUsedOnce
  <2> SUFFICES ASSUME Group!IInv, NEW g \in ForGroup.GroupIds, NEW p \in ForGroup.People,
                      v1[g] # None, v1[g].owner # p
               PROVE  v2[g][p].rows <= Group!Cardinality(Group!Accepted(g, p))
    BY DEF ConsentIsUsedOnce, Group!IInv, Group!ConsentIsUsedOnce
  <2> DEFINE j == Group!Cardinality(Group!Joining(g, p))
             a == Group!Cardinality(Group!Accepted(g, p))
             r == v2[g][p].rows
  <2>1. r \in Nat /\ j \in Nat /\ a \in Nat /\ r + j <= a
    BY GroupBalance
  <2>2. r <= a
    <3> HIDE DEF r, j, a
    <3> QED BY <2>1
  <2> QED BY <2>2
<1> QED BY <1>1, <1>2, <1>3, PTL DEF Services

-----------------------------------------------------------------------------
(* What is kept of a person.  v1: user, v2: terms, v3: devices, v4: data,  *)
(* v5: log, v6: call, v7: answered, v8: made.                              *)

LEMMA PersonalAlone ==
  ASSUME running = "userdata"
  PROVE  /\ ServicesInit => Personal!Init
         /\ [ServicesNext]_<<running, vars, slots>> =>
              running' = running /\ [Personal!Next]_(Personal!vars)
  BY DEF ServicesInit, ServicesNext, In, slots, Personal!vars

\* The records of UserData.
PersonRow ==
  [exists : BOOLEAN, deleted : BOOLEAN, name : {"own", "chosen", "[deleted]"},
   age : {"unknown", "child", "adult"},
   consent : {"not_required", "pending", "granted", "denied"}, enforced : BOOLEAN]
TermRows == [active : 0..ForPersonal.MaxConsents, revoked : 0..ForPersonal.MaxConsents]
Entries == Personal!Audited \X {"attempted", "failed"}
Keeping == [1..ForPersonal.Modules -> {"kept", "anonymized", "purged"}]
PersonalSteps == Personal!Early \cup {"modules", "last", "manifest"}
CallOf(op) ==
  [op : {op}, what : Personal!WhatOf(op), step : PersonalSteps, next : Nat \ {0},
   clean : BOOLEAN, timedOut : BOOLEAN]

PersonalTyped ==
  /\ v1 \in PersonRow /\ v2 \in TermRows /\ v3 \subseteq ForPersonal.Devices
  /\ v4 \in Keeping /\ v5 \subseteq Entries
  /\ v7 \subseteq {"hardPurge", "pipeline"} /\ v8 \in 0..ForPersonal.MaxCalls

LEMMA PersonalTypes ==
  (Personal!TypeOK <=> PersonalTyped) /\ (Personal!TypeOK' <=> PersonalTyped')
  BY DEF Personal!TypeOK, PersonalTyped, PersonRow, TermRows, Entries, Keeping

LEMMA PersonalBounds ==
  ForPersonal.Modules \in Nat /\ ForPersonal.MaxConsents \in Nat /\ ForPersonal.MaxCalls \in Nat
  BY ServicesAssumption DEF Personal!UserDataAssumption

\* What the invariant says of one call.
CallKept(k) ==
  k # None =>
    /\ k \in CallOf(k.op) /\ k.op \in Personal!Ops
    /\ k.step \in Personal!Early => k.op # "hardPurge" /\ k.next = 1
    /\ k.step = "modules" => k.next <= ForPersonal.Modules
    /\ k.step = "manifest" => k.op = "hardPurge"
CallErased(k, data) ==
  k # None /\ Personal!Erases(k) /\ k.clean =>
    \A m \in 1..ForPersonal.Modules :
      (k.step = "modules" /\ m < k.next) \/ k.step \in {"last", "manifest"}
        => data[m] = "purged"

LEMMA CallsKept ==
  /\ Personal!CallsTyped <=> DOMAIN v6 = Calls /\ \A c \in Calls : CallKept(v6[c])
  /\ Personal!CallsTyped' <=> DOMAIN v6' = Calls /\ \A c \in Calls : CallKept(v6'[c])
  /\ Personal!ErasedSoFar <=> \A c \in Calls : CallErased(v6[c], v4)
  /\ Personal!ErasedSoFar' <=> \A c \in Calls : CallErased(v6'[c], v4')
<1>1. ASSUME NEW k
      PROVE  CallKept(k) <=>
               (k # None =>
                 /\ k \in [op : Personal!Ops, what : Personal!WhatOf(k.op),
                           step : Personal!Early \cup {"modules", "last", "manifest"},
                           next : Nat \ {0}, clean : BOOLEAN, timedOut : BOOLEAN]
                 /\ k.step \in Personal!Early => k.op # "hardPurge" /\ k.next = 1
                 /\ k.step = "modules" => k.next <= ForPersonal.Modules
                 /\ k.step = "manifest" => k.op = "hardPurge")
  BY DEF CallKept, CallOf, PersonalSteps
<1> QED BY <1>1 DEF CallErased, Personal!CallsTyped, Personal!ErasedSoFar

LEMMA PersonalFirst == Personal!Init => Personal!IInv
<1> SUFFICES ASSUME Personal!Init PROVE Personal!IInv
  OBVIOUS
<1>1. PersonalTyped
  BY PersonalBounds
     DEF Personal!Init, PersonalTyped, PersonRow, TermRows, Keeping
<1>2. DOMAIN v6 = Calls /\ \A c \in Calls : v6[c] = None
  BY DEF Personal!Init
<1>3. Personal!CallsTyped /\ Personal!ErasedSoFar
  BY <1>2, CallsKept DEF CallKept, CallErased
<1>4. Personal!RecordedFirst /\ Personal!RowsFit
  BY <1>2, PersonalBounds DEF Personal!RecordedFirst, Personal!At, Personal!RowsFit, Personal!Init
<1>5. Personal!ErasureIsKept
  BY DEF Personal!ErasureIsKept, Personal!NameStaysDeleted, Personal!CompleteMeansErased,
         Personal!ChangesAreRecorded, Personal!Init
<1> QED BY <1>1, <1>3, <1>4, <1>5, PersonalTypes DEF Personal!IInv

\* The log grows, what is erased stays erased, and one call moves.
LEMMA PersonalGoes ==
  ASSUME Personal!IInv, NEW c \in Calls, NEW k, v6' = [v6 EXCEPT ![c] = k],
         PersonalTyped', CallKept(k), CallErased(k, v4'),
         k # None /\ k.step = "act" => <<k.op, "attempted">> \in v5',
         v5 \subseteq v5', \A m \in 1..ForPersonal.Modules : v4[m] = "purged" => v4'[m] = "purged",
         v7' = v7 \/ \A m \in 1..ForPersonal.Modules : v4'[m] = "purged",
         Personal!RowsFit', Personal!NameStaysDeleted', Personal!ChangesAreRecorded'
  PROVE  Personal!IInv'
<1>1. DOMAIN v6' = Calls /\ \A d \in Calls : v6'[d] = v6[d] \/ v6'[d] = k
  BY DEF Personal!IInv, Personal!CallsTyped
<1>2. Personal!CallsTyped'
  BY <1>1, CallsKept DEF Personal!IInv
<1>3. Personal!ErasedSoFar'
  <2>1. \A d \in Calls : CallErased(v6[d], v4) => CallErased(v6[d], v4')
    BY DEF CallErased
  <2> QED BY <1>1, <2>1, CallsKept DEF Personal!IInv
<1>4. Personal!RecordedFirst'
  BY <1>1 DEF Personal!IInv, Personal!RecordedFirst, Personal!At
<1>5. Personal!CompleteMeansErased'
  BY DEF Personal!IInv, Personal!ErasureIsKept, Personal!CompleteMeansErased
<1> QED BY <1>2, <1>3, <1>4, <1>5, PersonalTypes DEF Personal!IInv, Personal!ErasureIsKept

\* A call in the middle: its fields, and its fields after a step.
LEMMA PersonalCall ==
  ASSUME Personal!IInv, NEW c \in Calls, v6[c] # None
  PROVE  /\ CallKept(v6[c]) /\ CallErased(v6[c], v4) /\ v6[c] \in CallOf(v6[c].op)
         /\ v6[c].op \in Personal!Ops
         /\ v6[c].step = "act" => <<v6[c].op, "attempted">> \in v5
         /\ v6[c].step \in Personal!Early =>
              v6[c].op \in Personal!Audited /\ v6[c].next = 1
  BY CallsKept DEF Personal!IInv, Personal!RecordedFirst, Personal!At, CallKept, Personal!Audited

\* A call that does not erase, or has ended, is as it should be.
LEMMA PersonalEnds ==
  ASSUME NEW data PROVE CallKept(None) /\ CallErased(None, data)
  BY DEF CallKept, CallErased

\* A call begins.
LEMMA PersonalBegins ==
  ASSUME Personal!IInv, NEW c \in Calls, Personal!Begin(c)
  PROVE  Personal!IInv'
<1>1. PersonalTyped
  BY PersonalTypes DEF Personal!IInv
<1>2. ASSUME NEW op \in Personal!Ops, NEW what \in Personal!WhatOf(op), NEW step \in PersonalSteps,
             Personal!Begins(c, op, what, step),
             step # "act" /\ step # "manifest" /\ (step \in Personal!Early => op # "hardPurge"),
             step = "modules" => ForPersonal.Modules # 0,
             step = "last" => ForPersonal.Modules = 0
      PROVE  Personal!IInv'
  <2> DEFINE k == [op |-> op, what |-> what, step |-> step, next |-> 1, clean |-> TRUE, timedOut |-> FALSE]
  <2>1. /\ v6' = [v6 EXCEPT ![c] = k] /\ UNCHANGED <<v1, v2, v3, v4, v5, v7>>
        /\ v8 < ForPersonal.MaxCalls /\ v8' = v8 + 1
    BY <1>2 DEF Personal!Begins, Personal!Stored
  <2>2. k \in CallOf(op) /\ k.op = op /\ k.step = step /\ k.next = 1
    BY <1>2 DEF CallOf
  <2> HIDE DEF k
  <2>3. CallKept(k)
    BY <1>2, <2>2, PersonalBounds DEF CallKept
  <2>4. CallErased(k, v4')
    BY <1>2, <2>2, PersonalBounds DEF CallErased
  <2>5. PersonalTyped'
    BY <1>1, <2>1, PersonalBounds DEF PersonalTyped
  <2>6. Personal!RowsFit' /\ Personal!NameStaysDeleted' /\ Personal!ChangesAreRecorded'
    BY <2>1 DEF Personal!IInv, Personal!ErasureIsKept, Personal!RowsFit, Personal!NameStaysDeleted,
                Personal!ChangesAreRecorded
  <2> QED BY <1>2, <2>1, <2>2, <2>3, <2>4, <2>5, <2>6, PersonalGoes
<1> QED BY <1>2 DEF Personal!Begin, Personal!FirstModule, Personal!Ops, Personal!WhatOf, PersonalSteps,
                    Personal!Early

\* The call moves and nothing else.
LEMMA PersonalMoves ==
  ASSUME Personal!IInv, NEW c \in Calls, NEW k, v6' = [v6 EXCEPT ![c] = k],
         UNCHANGED <<v1, v2, v3, v4, v5, v7, v8>>, CallKept(k), CallErased(k, v4),
         k # None /\ k.step = "act" => <<k.op, "attempted">> \in v5
  PROVE  Personal!IInv'
<1>1. PersonalTyped'
  BY PersonalTypes DEF Personal!IInv, PersonalTyped
<1>2. Personal!RowsFit' /\ Personal!NameStaysDeleted' /\ Personal!ChangesAreRecorded'
  BY DEF Personal!IInv, Personal!ErasureIsKept, Personal!RowsFit, Personal!NameStaysDeleted,
         Personal!ChangesAreRecorded
<1> QED BY <1>1, <1>2, PersonalGoes

\* The steps that read, refuse or pass on.
LEMMA PersonalReads ==
  ASSUME Personal!IInv, NEW c \in Calls,
         \/ Personal!GiveUp(c) \/ Personal!Screen(c) \/ Personal!LookForDevice(c)
         \/ Personal!CollectUserData(c) \/ Personal!ExportUserData(c) \/ Personal!ModuleThrows(c)
         \/ Personal!StartPurge(c) \/ Personal!PurgeTimeout(c)
  PROVE  Personal!IInv'
<1>1. /\ v6[c] # None /\ UNCHANGED <<v1, v2, v3, v4, v5, v7, v8>>
      /\ \/ Personal!Ends(c)
         \/ Personal!Continues(c, "record") /\ v6[c].step \in Personal!Early
         \/ /\ Personal!Continues(c, "modules") /\ v6[c].step = "act" /\ v6[c].op = "pipeline"
            /\ ForPersonal.Modules # 0
         \/ Personal!PurgeTimeout(c)
  BY DEF Personal!GiveUp, Personal!Screen, Personal!LookForDevice, Personal!CollectUserData,
         Personal!ExportUserData, Personal!ModuleThrows, Personal!StartPurge, Personal!PurgeTimeout,
         Personal!At, Personal!On, Personal!Stored, Personal!Early
<1> DEFINE op == v6[c].op
           r == v6[c]
<1>2. /\ CallKept(r) /\ CallErased(r, v4) /\ r \in CallOf(op) /\ op \in Personal!Ops
      /\ r.step = "act" => <<op, "attempted">> \in v5
      /\ r.step \in Personal!Early => op # "hardPurge" /\ r.next = 1
  BY <1>1, PersonalCall DEF Personal!Audited
<1>3. CASE Personal!Ends(c)
  BY <1>1, <1>3, PersonalEnds, PersonalMoves DEF Personal!Ends
<1>4. CASE Personal!Continues(c, "record") /\ v6[c].step \in Personal!Early
  <2> DEFINE k == [r EXCEPT !.step = "record"]
  <2>1. k \in CallOf(op) /\ k.op = op /\ k.step = "record" /\ k.next = 1
    BY <1>2, <1>4 DEF CallOf, PersonalSteps, Personal!Early
  <2>2. v6' = [v6 EXCEPT ![c] = k]
    BY <1>4 DEF Personal!Continues
  <2> HIDE DEF k
  <2>3. CallKept(k) /\ CallErased(k, v4)
    BY <1>2, <1>4, <2>1 DEF CallKept, CallErased
  <2> QED BY <1>1, <2>1, <2>2, <2>3, PersonalMoves
<1>5. CASE /\ Personal!Continues(c, "modules") /\ v6[c].step = "act" /\ v6[c].op = "pipeline"
           /\ ForPersonal.Modules # 0
  <2> DEFINE k == [r EXCEPT !.step = "modules"]
  <2>1. k \in CallOf(op) /\ k.op = op /\ k.step = "modules" /\ k.next = 1
    BY <1>2, <1>5 DEF CallOf, PersonalSteps, Personal!Early
  <2>2. v6' = [v6 EXCEPT ![c] = k]
    BY <1>5 DEF Personal!Continues
  <2> HIDE DEF k
  <2>3. CallKept(k) /\ CallErased(k, v4)
    BY <1>2, <1>5, <2>1, PersonalBounds DEF CallKept, CallErased, Personal!Early
  <2> QED BY <1>1, <2>1, <2>2, <2>3, PersonalMoves
<1>6. CASE Personal!PurgeTimeout(c)
  <2> DEFINE k == [r EXCEPT !.timedOut = TRUE]
  <2>1. /\ k \in CallOf(op) /\ k.op = op /\ k.step = r.step /\ k.next = r.next /\ k.what = r.what
        /\ k.clean = r.clean /\ k.step = "modules"
    BY <1>2, <1>6 DEF CallOf, Personal!PurgeTimeout, Personal!On, Personal!At
  <2>2. v6' = [v6 EXCEPT ![c] = k]
    BY <1>6 DEF Personal!PurgeTimeout
  <2> HIDE DEF k
  <2>3. CallKept(k)
    BY <1>1, <1>2, <2>1 DEF CallKept
  <2>4. CallErased(k, v4)
    <3>1. Personal!Erases(k) => Personal!Erases(r)
      BY <2>1 DEF Personal!Erases
    <3> QED BY <1>1, <1>2, <2>1, <3>1 DEF CallErased
  <2> QED BY <1>1, <2>1, <2>2, <2>3, <2>4, PersonalMoves
<1> QED BY <1>1, <1>3, <1>4, <1>5, <1>6

\* What was called for is recorded, and a failure may be.
LEMMA PersonalRecords ==
  ASSUME Personal!IInv, NEW c \in Calls, Personal!Record(c) \/ Personal!Fail(c)
  PROVE  Personal!IInv'
<1>1. /\ v6[c] # None /\ UNCHANGED <<v1, v2, v3, v4, v7, v8>> /\ v6[c].step \in {"record", "act"}
      /\ v5 \subseteq v5' /\ v5' \subseteq v5 \cup {<<v6[c].op, "attempted">>, <<v6[c].op, "failed">>}
  BY DEF Personal!Record, Personal!Fail, Personal!At
<1> DEFINE op == v6[c].op
           r == v6[c]
<1>2. /\ r \in CallOf(op) /\ op \in Personal!Audited /\ r.next = 1 /\ op \in Personal!Ops
      /\ CallKept(r)
  BY <1>1, PersonalCall DEF Personal!Early
<1>3. PersonalTyped'
  <2>1. v5' \subseteq Entries
    BY <1>1, <1>2, PersonalTypes DEF Personal!IInv, PersonalTyped, Entries
  <2> QED BY <1>1, <2>1, PersonalTypes DEF Personal!IInv, PersonalTyped
<1>4. Personal!RowsFit' /\ Personal!NameStaysDeleted'
  BY <1>1 DEF Personal!IInv, Personal!ErasureIsKept, Personal!RowsFit, Personal!NameStaysDeleted
<1>5. Personal!ChangesAreRecorded'
  <2>1. \A what : what \in {entry[1] : entry \in v5} => what \in {entry[1] : entry \in v5'}
    BY <1>1
  <2> QED BY <1>1, <2>1 DEF Personal!IInv, Personal!ErasureIsKept, Personal!ChangesAreRecorded
<1>6. CASE Personal!Record(c)
  <2> DEFINE k == [r EXCEPT !.step = "act"]
  <2>1. k \in CallOf(op) /\ k.op = op /\ k.step = "act" /\ k.next = 1
    BY <1>2 DEF CallOf, PersonalSteps, Personal!Early
  <2>2. v6' = [v6 EXCEPT ![c] = k] /\ <<op, "attempted">> \in v5'
    BY <1>6 DEF Personal!Record, Personal!Continues
  <2> HIDE DEF k
  <2>3. CallKept(k) /\ CallErased(k, v4')
    BY <1>2, <2>1 DEF CallKept, CallErased, Personal!Audited
  <2> QED BY <1>1, <1>3, <1>4, <1>5, <2>1, <2>2, <2>3, PersonalGoes
<1>7. CASE Personal!Fail(c)
  <2>1. v6' = [v6 EXCEPT ![c] = None]
    BY <1>7 DEF Personal!Fail, Personal!Ends
  <2> QED BY <1>1, <1>3, <1>4, <1>5, <2>1, PersonalEnds, PersonalGoes
<1> QED BY <1>6, <1>7

\* What a call that is recorded writes of the person, the terms and the devices; it ends.
LEMMA PersonalWrites ==
  ASSUME Personal!IInv, NEW c \in Calls,
         \/ Personal!UpdateProfile(c) \/ Personal!VerifyAge(c) \/ Personal!RecordParentalConsent(c)
         \/ Personal!GrantConsent(c) \/ Personal!RevokeConsent(c) \/ Personal!RegisterDevice(c)
         \/ Personal!RemoveDevice(c)
  PROVE  Personal!IInv'
<1> DEFINE op == v6[c].op
           recorded == {entry[1] : entry \in v5}
<1>1. /\ v6[c] # None /\ v6[c].step = "act" /\ UNCHANGED <<v4, v5, v7, v8>>
      /\ v6' = [v6 EXCEPT ![c] = None]
  BY DEF Personal!UpdateProfile, Personal!VerifyAge, Personal!RecordParentalConsent,
         Personal!GrantConsent, Personal!RevokeConsent, Personal!RegisterDevice,
         Personal!RemoveDevice, Personal!On, Personal!At, Personal!Ends
<1>2. v6[c] \in CallOf(op) /\ <<op, "attempted">> \in v5
  BY <1>1, PersonalCall
<1>3. v6[c].what \in Personal!WhatOf(op)
  BY <1>2 DEF CallOf
<1>4. op \in recorded
  <2>1. <<op, "attempted">>[1] = op
    OBVIOUS
  <2> QED BY <1>2, <2>1
<1>5. PersonalTyped /\ v1 \in PersonRow /\ v2 \in TermRows
  BY PersonalTypes DEF Personal!IInv, PersonalTyped
<1>6. /\ v1.deleted => v1.name = "[deleted]"
      /\ v1.name = "chosen" => "updateProfile" \in recorded
      /\ v1.age # "unknown" => "verifyAge" \in recorded
      /\ v2.active > 0 => "grantConsent" \in recorded
      /\ v2.revoked > 0 => "revokeConsent" \in recorded
      /\ v3 # {} => "registerDevice" \in recorded
      /\ v1.deleted => "softDelete" \in recorded
      /\ v2.active + v2.revoked <= ForPersonal.MaxConsents
  BY DEF Personal!IInv, Personal!ErasureIsKept, Personal!NameStaysDeleted, Personal!ChangesAreRecorded,
         Personal!RowsFit
<1>7. ASSUME v1' \in PersonRow, v2' \in TermRows, v3' \subseteq ForPersonal.Devices,
             v2'.active + v2'.revoked <= ForPersonal.MaxConsents,
             v1'.deleted => v1'.name = "[deleted]",
             v1'.name = "chosen" => "updateProfile" \in recorded,
             v1'.age # "unknown" => "verifyAge" \in recorded,
             v2'.active > 0 => "grantConsent" \in recorded,
             v2'.revoked > 0 => "revokeConsent" \in recorded,
             v3' # {} => "registerDevice" \in recorded,
             v1'.deleted => "softDelete" \in recorded
      PROVE  Personal!IInv'
  <2>1. PersonalTyped'
    BY <1>1, <1>5, <1>7 DEF PersonalTyped
  <2>2. Personal!RowsFit' /\ Personal!NameStaysDeleted' /\ Personal!ChangesAreRecorded'
    BY <1>1, <1>7 DEF Personal!RowsFit, Personal!NameStaysDeleted, Personal!ChangesAreRecorded
  <2>3. CallKept(None) /\ CallErased(None, v4')
    BY PersonalEnds
  <2> QED BY <1>1, <2>1, <2>2, <2>3, PersonalGoes
<1> HIDE DEF recorded
<1>8. ASSUME Personal!UpdateProfile(c) PROVE Personal!IInv'
  <2>1. op = "updateProfile" /\ UNCHANGED <<v2, v3>>
    BY <1>8 DEF Personal!UpdateProfile, Personal!On
  <2>2. CASE v1' = v1
    BY <1>5, <1>6, <1>7, <2>1, <2>2 DEF PersonalTyped
  <2>3. CASE v1' = [v1 EXCEPT !.name = "chosen"] /\ ~v1.deleted
    <3>1. v1' \in PersonRow /\ v1'.name = "chosen" /\ v1'.age = v1.age /\ v1'.deleted = v1.deleted
      BY <1>5, <2>3 DEF PersonRow
    <3> QED BY <1>4, <1>5, <1>6, <1>7, <2>1, <2>3, <3>1 DEF PersonalTyped
  <2> QED BY <1>8, <2>2, <2>3 DEF Personal!UpdateProfile, Personal!Updatable
<1>9. ASSUME Personal!VerifyAge(c) PROVE Personal!IInv'
  <2>1. op = "verifyAge" /\ UNCHANGED <<v2, v3>>
    BY <1>9 DEF Personal!VerifyAge, Personal!On
  <2>2. CASE v1' = v1
    BY <1>5, <1>6, <1>7, <2>1, <2>2 DEF PersonalTyped
  <2>3. CASE v1' # v1
    <3>1. v6[c].what \in {"child", "adult"}
      BY <1>3, <2>1 DEF Personal!WhatOf
    <3>2. /\ v1' \in PersonRow /\ v1'.name = v1.name /\ v1'.deleted = v1.deleted
      BY <1>5, <1>9, <2>3, <3>1 DEF PersonRow, Personal!VerifyAge
    <3> QED BY <1>4, <1>5, <1>6, <1>7, <2>1, <3>2 DEF PersonalTyped
  <2> QED BY <2>2, <2>3
<1>10. ASSUME Personal!RecordParentalConsent(c) PROVE Personal!IInv'
  <2>1. op = "parentalConsent" /\ UNCHANGED <<v2, v3>>
    BY <1>10 DEF Personal!RecordParentalConsent, Personal!On
  <2>2. CASE v1' = v1
    BY <1>5, <1>6, <1>7, <2>1, <2>2 DEF PersonalTyped
  <2>3. CASE v1' # v1
    <3>1. v6[c].what \in {"granted", "denied"}
      BY <1>3, <2>1 DEF Personal!WhatOf
    <3>2. /\ v1' \in PersonRow /\ v1'.name = v1.name /\ v1'.deleted = v1.deleted /\ v1'.age = v1.age
      BY <1>5, <1>10, <2>3, <3>1 DEF PersonRow, Personal!RecordParentalConsent
    <3> QED BY <1>5, <1>6, <1>7, <2>1, <3>2 DEF PersonalTyped
  <2> QED BY <2>2, <2>3
<1>11. /\ v2.active \in 0..ForPersonal.MaxConsents /\ v2.revoked \in 0..ForPersonal.MaxConsents
  BY <1>5 DEF TermRows
<1>12. ASSUME Personal!GrantConsent(c) PROVE Personal!IInv'
  <2>1. op = "grantConsent" /\ UNCHANGED <<v1, v3>> /\ v2.active + v2.revoked < ForPersonal.MaxConsents
    BY <1>12 DEF Personal!GrantConsent, Personal!On
  <2>2. v2.active + 1 \in 0..ForPersonal.MaxConsents
        /\ v2.active + 1 + v2.revoked <= ForPersonal.MaxConsents
    BY <1>11, <2>1, PersonalBounds
  <2>3. v2' \in TermRows /\ v2'.active = v2.active + 1 /\ v2'.revoked = v2.revoked
    BY <1>5, <1>12, <2>2 DEF TermRows, Personal!GrantConsent
  <2> QED BY <1>4, <1>5, <1>6, <1>7, <2>1, <2>2, <2>3 DEF PersonalTyped
<1>13. ASSUME Personal!RevokeConsent(c) PROVE Personal!IInv'
  <2>1. op = "revokeConsent" /\ UNCHANGED <<v1, v3>>
        /\ v2' = [active |-> 0, revoked |-> v2.active + v2.revoked]
    BY <1>13 DEF Personal!RevokeConsent, Personal!On
  <2>2. v2.active + v2.revoked \in 0..ForPersonal.MaxConsents /\ 0 \in 0..ForPersonal.MaxConsents
        /\ 0 + (v2.active + v2.revoked) <= ForPersonal.MaxConsents
    BY <1>6, <1>11, PersonalBounds
  <2>3. v2' \in TermRows /\ v2'.active = 0 /\ v2'.revoked = v2.active + v2.revoked
    BY <2>1, <2>2 DEF TermRows
  <2> QED BY <1>4, <1>5, <1>6, <1>7, <2>1, <2>2, <2>3 DEF PersonalTyped
<1>14. ASSUME Personal!RegisterDevice(c) PROVE Personal!IInv'
  <2>1. op = "registerDevice" /\ UNCHANGED <<v1, v2>> /\ v3' = v3 \cup {v6[c].what}
    BY <1>14 DEF Personal!RegisterDevice, Personal!On
  <2>2. v6[c].what \in ForPersonal.Devices
    BY <1>3, <2>1 DEF Personal!WhatOf
  <2> QED BY <1>4, <1>5, <1>6, <1>7, <2>1, <2>2 DEF PersonalTyped
<1>15. ASSUME Personal!RemoveDevice(c) PROVE Personal!IInv'
  <2>1. UNCHANGED <<v1, v2>> /\ v3' \subseteq v3
    BY <1>15 DEF Personal!RemoveDevice
  <2> QED BY <1>5, <1>6, <1>7, <2>1 DEF PersonalTyped
<1> QED BY <1>8, <1>9, <1>10, <1>12, <1>13, <1>14, <1>15

\* What a module does, and the call's next module.
LEMMA PersonalModule ==
  ASSUME Personal!IInv, NEW c \in Calls, NEW k, v6' = [v6 EXCEPT ![c] = k],
         UNCHANGED <<v1, v2, v3, v5, v7, v8>>, v4' \in Keeping, CallKept(k), CallErased(k, v4'),
         \A m \in 1..ForPersonal.Modules : v4[m] = "purged" => v4'[m] = "purged",
         k.step # "act"
  PROVE  Personal!IInv'
<1>1. PersonalTyped'
  BY PersonalTypes DEF Personal!IInv, PersonalTyped
<1>2. Personal!RowsFit' /\ Personal!NameStaysDeleted' /\ Personal!ChangesAreRecorded'
  BY DEF Personal!IInv, Personal!ErasureIsKept, Personal!RowsFit, Personal!NameStaysDeleted,
         Personal!ChangesAreRecorded
<1> QED BY <1>1, <1>2, PersonalGoes

\* The call after a module: what it has erased so far and, if it went well, this one.
LEMMA PersonalNext ==
  ASSUME Personal!IInv, NEW c \in Calls, v6[c] # None, v6[c].step = "modules",
         NEW good \in BOOLEAN, NEW data,
         \A m \in 1..ForPersonal.Modules : v4[m] = "purged" => data[m] = "purged",
         Personal!Erases(v6[c]) /\ good => data[v6[c].next] = "purged"
  PROVE  LET k == [v6[c] EXCEPT !.step = IF v6[c].next = ForPersonal.Modules THEN "last" ELSE "modules",
                                !.next = @ + 1, !.clean = @ /\ good]
         IN  CallKept(k) /\ CallErased(k, data) /\ k.step # "act"
<1> DEFINE r == v6[c]
           op == r.op
           s == IF r.next = ForPersonal.Modules THEN "last" ELSE "modules"
           k == [r EXCEPT !.step = s, !.next = @ + 1, !.clean = @ /\ good]
<1>1. /\ CallKept(r) /\ CallErased(r, v4) /\ r \in CallOf(op) /\ op \in Personal!Ops
  BY PersonalCall
<1>2. r.next \in Nat \ {0} /\ r.next <= ForPersonal.Modules /\ r.clean \in BOOLEAN
  BY <1>1 DEF CallKept, CallOf
<1>3. r.next + 1 \in Nat \ {0} /\ (r.clean /\ good) \in BOOLEAN /\ s \in PersonalSteps
  BY <1>2 DEF PersonalSteps
<1>4. k \in CallOf(op) /\ k.op = op /\ k.step = s /\ k.next = r.next + 1 /\ k.what = r.what
      /\ k.clean = (r.clean /\ good)
  BY <1>1, <1>3 DEF CallOf
<1> HIDE DEF k
<1>5. s = "modules" => r.next + 1 <= ForPersonal.Modules
  BY <1>2, PersonalBounds
<1>6. CallKept(k)
  BY <1>1, <1>4, <1>5 DEF CallKept, Personal!Early
<1>7. CallErased(k, data)
  <2> SUFFICES ASSUME Personal!Erases(k), k.clean, NEW m \in 1..ForPersonal.Modules,
                      (k.step = "modules" /\ m < k.next) \/ k.step \in {"last", "manifest"}
               PROVE  data[m] = "purged"
    BY DEF CallErased
  <2>1. Personal!Erases(r) /\ r.clean /\ good
    BY <1>4 DEF Personal!Erases
  <2>2. m = r.next \/ m < r.next
    BY <1>2, <1>4, PersonalBounds
  <2>3. CASE m = r.next
    BY <2>1, <2>3
  <2>4. CASE m < r.next
    <3>1. v4[m] = "purged"
      BY <1>1, <2>1, <2>4 DEF CallErased
    <3> QED BY <3>1
  <2> QED BY <2>2, <2>3, <2>4
<1> QED BY <1>4, <1>6, <1>7 DEF k

\* The modules of a deletion, and the handlers of a purge.
LEMMA PersonalModules ==
  ASSUME Personal!IInv, NEW c \in Calls,
         Personal!SoftDeleteModule(c) \/ Personal!HardPurgeModule(c) \/ Personal!PurgeHandler(c)
  PROVE  Personal!IInv'
<1> DEFINE r == v6[c]
           op == r.op
           After(good) ==
             [r EXCEPT !.step = IF r.next = ForPersonal.Modules THEN "last" ELSE "modules",
                       !.next = @ + 1, !.clean = @ /\ good]
<1>1. r # None /\ r.step = "modules" /\ UNCHANGED <<v1, v2, v3, v5, v7, v8>>
  BY DEF Personal!SoftDeleteModule, Personal!HardPurgeModule, Personal!PurgeHandler, Personal!On,
         Personal!At
<1>2. CallKept(r) /\ CallErased(r, v4) /\ r \in CallOf(op) /\ op \in Personal!Ops
  BY <1>1, PersonalCall
<1>3. r.next \in 1..ForPersonal.Modules /\ v4 \in Keeping
  BY <1>1, <1>2, PersonalTypes, PersonalBounds DEF CallKept, CallOf, Personal!IInv, PersonalTyped
<1>4. ASSUME NEW to \in {"anonymized", "purged"}
      PROVE  LET d == [v4 EXCEPT ![r.next] = to]
             IN  /\ d \in Keeping /\ d[r.next] = to
                 /\ \A m \in 1..ForPersonal.Modules : m # r.next => d[m] = v4[m]
  BY <1>3 DEF Keeping
\* The call goes on to the next module.
<1>5. ASSUME NEW good \in BOOLEAN, Personal!NextModule(c, good), v4' \in Keeping,
             \A m \in 1..ForPersonal.Modules : v4[m] = "purged" => v4'[m] = "purged",
             Personal!Erases(r) /\ good => v4'[r.next] = "purged"
      PROVE  Personal!IInv'
  <2>1. v6' = [v6 EXCEPT ![c] = After(good)]
    BY <1>5 DEF Personal!NextModule
  <2>2. CallKept(After(good)) /\ CallErased(After(good), v4') /\ After(good).step # "act"
    BY <1>1, <1>5, PersonalNext
  <2> HIDE DEF After
  <2> QED BY <1>1, <1>5, <2>1, <2>2, PersonalModule
<1> HIDE DEF After
<1>6. ASSUME Personal!SoftDeleteModule(c) PROVE Personal!IInv'
  <2>1. PICK good \in BOOLEAN :
          /\ v4' = IF good /\ v4[r.next] = "kept" THEN [v4 EXCEPT ![r.next] = "anonymized"] ELSE v4
          /\ Personal!NextModule(c, good)
    BY <1>6 DEF Personal!SoftDeleteModule
  <2>2. ~Personal!Erases(r)
    BY <1>6 DEF Personal!SoftDeleteModule, Personal!On, Personal!Erases
  <2>3. v4' \in Keeping /\ \A m \in 1..ForPersonal.Modules : v4[m] = "purged" => v4'[m] = "purged"
    BY <1>3, <1>4, <2>1
  <2> QED BY <1>5, <2>1, <2>2, <2>3
<1>7. ASSUME Personal!HardPurgeModule(c) PROVE Personal!IInv'
  <2>1. PICK good \in BOOLEAN :
          /\ v4' = IF good THEN [v4 EXCEPT ![r.next] = "purged"] ELSE v4
          /\ Personal!NextModule(c, good)
    BY <1>7 DEF Personal!HardPurgeModule
  <2>2. v4' \in Keeping /\ \A m \in 1..ForPersonal.Modules : v4[m] = "purged" => v4'[m] = "purged"
    BY <1>3, <1>4, <2>1
  <2>3. good => v4'[r.next] = "purged"
    BY <1>4, <2>1
  <2> QED BY <1>5, <2>1, <2>2, <2>3
<1>8. ASSUME Personal!PurgeHandler(c) PROVE Personal!IInv'
  <2>1. PICK good \in BOOLEAN :
          /\ v4' = IF good /\ ~r.what THEN [v4 EXCEPT ![r.next] = "purged"] ELSE v4
          /\ \/ Personal!NextModule(c, good)
             \/ ~good /\ v6' = [v6 EXCEPT ![c].step = "last", ![c].clean = FALSE]
    BY <1>8 DEF Personal!PurgeHandler
  <2>2. v4' \in Keeping /\ \A m \in 1..ForPersonal.Modules : v4[m] = "purged" => v4'[m] = "purged"
    BY <1>3, <1>4, <2>1
  <2>3. op = "pipeline"
    BY <1>8 DEF Personal!PurgeHandler, Personal!On
  <2>4. Personal!Erases(r) /\ good => v4'[r.next] = "purged"
    BY <1>4, <2>1, <2>3 DEF Personal!Erases
  <2>5. CASE Personal!NextModule(c, good)
    BY <1>5, <2>2, <2>4, <2>5
  <2>6. CASE ~good /\ v6' = [v6 EXCEPT ![c].step = "last", ![c].clean = FALSE]
    <3> DEFINE k == [r EXCEPT !.step = "last", !.clean = FALSE]
    <3>1. k \in CallOf(op) /\ k.op = op /\ k.step = "last" /\ k.clean = FALSE
      BY <1>2 DEF CallOf, PersonalSteps
    <3>2. v6' = [v6 EXCEPT ![c] = k]
      BY <2>6
    <3> HIDE DEF k
    <3>3. CallKept(k) /\ CallErased(k, v4')
      BY <1>2, <3>1 DEF CallKept, CallErased, Personal!Early
    <3> QED BY <1>1, <2>2, <3>1, <3>2, <3>3, PersonalModule
  <2> QED BY <2>1, <2>5, <2>6
<1> QED BY <1>6, <1>7, <1>8

\* The log grows by what has failed, and the answer counts if all is erased.
LEMMA PersonalAnswers ==
  ASSUME Personal!IInv, NEW c \in Calls,
         Personal!WriteManifest(c) \/ Personal!UpdateManifest(c) \/ Personal!PurgeAnswer(c)
  PROVE  Personal!IInv'
<1> DEFINE r == v6[c]
           op == r.op
<1>1. /\ r # None /\ v6' = [v6 EXCEPT ![c] = None] /\ UNCHANGED <<v1, v2, v3, v4, v8>>
      /\ r.step \in {"last", "manifest"}
  BY DEF Personal!WriteManifest, Personal!UpdateManifest, Personal!PurgeAnswer, Personal!On,
         Personal!At, Personal!Ends, Personal!Stored
<1>2. CallKept(r) /\ CallErased(r, v4) /\ r \in CallOf(op) /\ op \in Personal!Ops
  BY <1>1, PersonalCall
<1>3. /\ v5 \subseteq v5' /\ v5' \subseteq v5 \cup {<<"softDelete", "failed">>, <<"pipeline", "failed">>}
  BY DEF Personal!WriteManifest, Personal!UpdateManifest, Personal!PurgeAnswer, Personal!Stored
<1>4. \/ v7' = v7
      \/ /\ v7' = v7 \cup {op} /\ op \in {"hardPurge", "pipeline"}
         /\ \A m \in 1..ForPersonal.Modules : v4[m] = "purged"
  <2>1. CASE Personal!WriteManifest(c)
    BY <2>1 DEF Personal!WriteManifest
  <2>2. CASE Personal!UpdateManifest(c)
    <3>1. op = "hardPurge"
      BY <1>2, <2>2 DEF Personal!UpdateManifest, Personal!At, CallKept
    <3>2. CASE r.clean
      <4>1. v7' = v7 \cup {op}
        BY <2>2, <3>2 DEF Personal!UpdateManifest, Personal!Answers
      <4> QED BY <1>1, <1>2, <3>1, <3>2, <4>1 DEF CallErased, Personal!Erases
    <3>3. CASE ~r.clean
      BY <2>2, <3>3 DEF Personal!UpdateManifest, Personal!Answers
    <3> QED BY <3>2, <3>3
  <2>3. CASE Personal!PurgeAnswer(c)
    <3>1. op = "pipeline"
      BY <2>3 DEF Personal!PurgeAnswer, Personal!On
    <3>2. CASE (r.clean /\ ~r.timedOut) /\ ~r.what
      <4>1. v7' = v7 \cup {op}
        BY <2>3, <3>2 DEF Personal!PurgeAnswer, Personal!Answers
      <4> QED BY <1>1, <1>2, <3>1, <3>2, <4>1 DEF CallErased, Personal!Erases
    <3>3. CASE ~((r.clean /\ ~r.timedOut) /\ ~r.what)
      BY <2>3, <3>3 DEF Personal!PurgeAnswer, Personal!Answers
    <3> QED BY <3>2, <3>3
  <2> QED BY <2>1, <2>2, <2>3
<1>5. PersonalTyped'
  <2>1. PersonalTyped
    BY PersonalTypes DEF Personal!IInv
  <2>2. v5' \subseteq Entries
    BY <1>3, <2>1 DEF PersonalTyped, Entries, Personal!Audited, Personal!Ops
  <2>3. v7' \subseteq {"hardPurge", "pipeline"}
    BY <1>4, <2>1 DEF PersonalTyped
  <2> QED BY <1>1, <2>1, <2>2, <2>3 DEF PersonalTyped
<1>6. Personal!RowsFit' /\ Personal!NameStaysDeleted'
  BY <1>1 DEF Personal!IInv, Personal!ErasureIsKept, Personal!RowsFit, Personal!NameStaysDeleted
<1>7. Personal!ChangesAreRecorded'
  <2>1. \A what : what \in {entry[1] : entry \in v5} => what \in {entry[1] : entry \in v5'}
    BY <1>3
  <2> QED BY <1>1, <2>1 DEF Personal!IInv, Personal!ErasureIsKept, Personal!ChangesAreRecorded
<1>8. CallKept(None) /\ CallErased(None, v4')
  BY PersonalEnds
<1> QED BY <1>1, <1>3, <1>4, <1>5, <1>6, <1>7, <1>8, PersonalGoes

\* The row is anonymized, or it goes.
LEMMA PersonalRow ==
  ASSUME Personal!IInv, NEW c \in Calls, Personal!Anonymize(c) \/ Personal!DeleteUserRow(c)
  PROVE  Personal!IInv'
<1> DEFINE r == v6[c]
           op == r.op
           recorded == {entry[1] : entry \in v5}
<1>1. r # None /\ UNCHANGED <<v4, v5, v7, v8>>
  BY DEF Personal!Anonymize, Personal!DeleteUserRow, Personal!On, Personal!At
<1>2. /\ CallKept(r) /\ CallErased(r, v4) /\ r \in CallOf(op) /\ op \in Personal!Ops
      /\ r.step = "act" => <<op, "attempted">> \in v5
      /\ r.step \in Personal!Early => r.next = 1
  BY <1>1, PersonalCall
<1>3. PersonalTyped /\ v1 \in PersonRow /\ v2 \in TermRows
  BY PersonalTypes DEF Personal!IInv, PersonalTyped
<1>4. /\ v1.deleted => v1.name = "[deleted]"
      /\ v1.name = "chosen" => "updateProfile" \in recorded
      /\ v1.age # "unknown" => "verifyAge" \in recorded
      /\ v2.active > 0 => "grantConsent" \in recorded
      /\ v2.revoked > 0 => "revokeConsent" \in recorded
      /\ v3 # {} => "registerDevice" \in recorded
      /\ v1.deleted => "softDelete" \in recorded
      /\ v2.active + v2.revoked <= ForPersonal.MaxConsents
  BY DEF Personal!IInv, Personal!ErasureIsKept, Personal!NameStaysDeleted, Personal!ChangesAreRecorded,
         Personal!RowsFit
<1> HIDE DEF recorded
\* The new row, and what is left of the others.
<1>5. ASSUME NEW k, v6' = [v6 EXCEPT ![c] = k], CallKept(k), CallErased(k, v4), k.step # "act",
             v1' \in PersonRow,
             (v2' = v2 /\ v3' = v3) \/ (v2' = [active |-> 0, revoked |-> 0] /\ v3' = {}),
             v1'.deleted => v1'.name = "[deleted]",
             v1'.name = "chosen" => v1.name = "chosen",
             v1'.age # "unknown" => v1.age # "unknown",
             v1'.deleted => "softDelete" \in recorded
      PROVE  Personal!IInv'
  <2>1. 0 \in 0..ForPersonal.MaxConsents /\ 0 + 0 <= ForPersonal.MaxConsents
    BY PersonalBounds
  <2>2. /\ v2' \in TermRows
        /\ v2'.active > 0 => v2.active > 0
        /\ v2'.revoked > 0 => v2.revoked > 0
        /\ v2'.active + v2'.revoked <= ForPersonal.MaxConsents
    BY <1>3, <1>4, <1>5, <2>1 DEF TermRows
  <2>3. PersonalTyped'
    <3>1. v3' \subseteq ForPersonal.Devices
      BY <1>3, <1>5 DEF PersonalTyped
    <3>2. v1' \in PersonRow /\ v2' \in TermRows
      BY <1>5, <2>2
    <3> QED BY <1>1, <1>3, <3>1, <3>2 DEF PersonalTyped
  <2>4. Personal!RowsFit' /\ Personal!NameStaysDeleted' /\ Personal!ChangesAreRecorded'
    BY <1>1, <1>4, <1>5, <2>2
       DEF Personal!RowsFit, Personal!NameStaysDeleted, Personal!ChangesAreRecorded, recorded
  <2> QED BY <1>1, <1>5, <2>3, <2>4, PersonalGoes
<1>6. ASSUME Personal!Anonymize(c) PROVE Personal!IInv'
  <2>1. /\ op = "softDelete" /\ r.step = "act" /\ UNCHANGED <<v2, v3>>
        /\ \E good \in BOOLEAN :
             /\ v1' = IF good /\ Personal!Updatable THEN Personal!Anonymized ELSE v1
             /\ v6' = [v6 EXCEPT ![c].step = Personal!FirstModule, ![c].clean = good]
    BY <1>6 DEF Personal!Anonymize, Personal!On, Personal!At
  <2>2. "softDelete" \in recorded
    <3>1. <<op, "attempted">>[1] = op
      OBVIOUS
    <3> QED BY <1>2, <2>1, <3>1 DEF recorded
  <2>3. PICK good \in BOOLEAN :
          /\ v1' = IF good /\ Personal!Updatable THEN Personal!Anonymized ELSE v1
          /\ v6' = [v6 EXCEPT ![c].step = Personal!FirstModule, ![c].clean = good]
    BY <2>1
  <2> DEFINE s == Personal!FirstModule
             k == [r EXCEPT !.step = s, !.clean = good]
  <2>4. /\ s \in PersonalSteps /\ s \notin Personal!Early /\ s # "manifest"
        /\ s = "modules" => 1 <= ForPersonal.Modules
    BY PersonalBounds DEF Personal!FirstModule, PersonalSteps, Personal!Early
  <2>5. k \in CallOf(op) /\ k.op = op /\ k.step = s /\ k.next = 1
    BY <1>2, <2>1, <2>4 DEF CallOf, Personal!Early
  <2>6. v6' = [v6 EXCEPT ![c] = k]
    BY <2>3
  <2> HIDE DEF k, s
  <2>7. CallKept(k) /\ CallErased(k, v4) /\ k.step # "act"
    BY <1>2, <2>1, <2>4, <2>5 DEF CallKept, CallErased, Personal!Erases, Personal!Early
  <2>8. CASE v1' = v1
    BY <1>3, <1>4, <1>5, <2>1, <2>2, <2>6, <2>7, <2>8
  <2>9. CASE v1' = Personal!Anonymized
    <3>1. /\ v1' \in PersonRow /\ v1'.name = "[deleted]" /\ v1'.age = "unknown"
      BY <1>3, <2>9 DEF PersonRow, Personal!Anonymized
    <3> QED BY <1>5, <2>1, <2>2, <2>6, <2>7, <3>1
  <2> QED BY <2>3, <2>8, <2>9
<1>7. ASSUME Personal!DeleteUserRow(c) PROVE Personal!IInv'
  <2>1. PICK good \in BOOLEAN :
          /\ v1' = IF good THEN [v1 EXCEPT !.exists = FALSE] ELSE v1
          /\ IF good THEN v2' = [active |-> 0, revoked |-> 0] /\ v3' = {} ELSE UNCHANGED <<v2, v3>>
          /\ v6' = [v6 EXCEPT ![c].step = "manifest", ![c].clean = @ /\ good]
    BY <1>7 DEF Personal!DeleteUserRow
  <2>2. op = "hardPurge" /\ r.step = "last"
    BY <1>7 DEF Personal!DeleteUserRow, Personal!On, Personal!At
  <2> DEFINE k == [r EXCEPT !.step = "manifest", !.clean = @ /\ good]
  <2>3. r.clean \in BOOLEAN /\ (r.clean /\ good) \in BOOLEAN
    BY <1>2 DEF CallOf
  <2>4. k \in CallOf(op) /\ k.op = op /\ k.step = "manifest" /\ k.clean = (r.clean /\ good)
    BY <1>2, <2>3 DEF CallOf, PersonalSteps
  <2>5. v6' = [v6 EXCEPT ![c] = k]
    BY <2>1
  <2> HIDE DEF k
  <2>6. CallKept(k) /\ CallErased(k, v4) /\ k.step # "act"
    BY <1>1, <1>2, <2>2, <2>4 DEF CallKept, CallErased, Personal!Erases, Personal!Early
  <2>7. /\ v1' \in PersonRow /\ v1'.deleted = v1.deleted /\ v1'.name = v1.name /\ v1'.age = v1.age
    BY <1>3, <2>1 DEF PersonRow
  <2>8. (v2' = v2 /\ v3' = v3) \/ (v2' = [active |-> 0, revoked |-> 0] /\ v3' = {})
    BY <2>1
  <2> QED BY <1>4, <1>5, <2>5, <2>6, <2>7, <2>8
<1> QED BY <1>6, <1>7

LEMMA PersonalInductive == Personal!IInv /\ [Personal!Next]_(Personal!vars) => Personal!IInv'
<1> SUFFICES ASSUME Personal!IInv, [Personal!Next]_(Personal!vars) PROVE Personal!IInv'
  OBVIOUS
<1>1. CASE UNCHANGED Personal!vars
  BY <1>1 DEF Personal!vars, Personal!IInv, Personal!TypeOK, Personal!CallsTyped, Personal!RecordedFirst,
              Personal!ErasedSoFar, Personal!RowsFit, Personal!ErasureIsKept, Personal!NameStaysDeleted,
              Personal!CompleteMeansErased, Personal!ChangesAreRecorded, Personal!At, Personal!Erases
<1>2. CASE Personal!Next
  BY <1>2, PersonalBegins, PersonalRecords, PersonalReads, PersonalWrites, PersonalModules,
     PersonalAnswers, PersonalRow
     DEF Personal!Next, Personal!Profile, Personal!Deletion
<1> QED BY <1>1, <1>2

\* A deleted name does not come back, an erasure answered as complete erased with every module,
\* and nothing is kept of a person without its record (gdpr-deletion.ts, hard-purge.ts,
\* audit.ts), however the calls about one person interleave and fail.
THEOREM ErasureStays == Services => []ErasureIsKept
<1> DEFINE Kept == running = "userdata" => Personal!IInv
<1>1. ServicesInit => Kept
  BY PersonalAlone, PersonalFirst
<1>2. Kept /\ [ServicesNext]_<<running, vars, slots>> => Kept'
  <2> SUFFICES ASSUME Kept, [ServicesNext]_<<running, vars, slots>>, running' = "userdata"
               PROVE  Personal!IInv'
    OBVIOUS
  <2>1. running = "userdata"
    BY DEF ServicesNext, In
  <2> QED BY <2>1, PersonalAlone, PersonalInductive
<1>3. Kept => ErasureIsKept
  BY DEF ErasureIsKept, Personal!IInv
<1> QED BY <1>1, <1>2, <1>3, PTL DEF Services

=============================================================================
