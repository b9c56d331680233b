--------------------------- MODULE AgentRunsProofs ---------------------------
(***************************************************************************)
(* Proofs about AgentRuns and, first, the ExternalEffects it extends:      *)
(* for every set of callers, effects, runs, trajectories and steps, every  *)
(* budget, and any number of faults, retries, resumes and days.            *)
(***************************************************************************)
EXTENDS AgentRuns, FiniteSetTheorems, TLAPS

-----------------------------------------------------------------------------
(* What a step does to a caller and to an entry *)

\* A caller's record is replaced.
LEMMA CallerBecomes ==
  ASSUME EffectsTypeOK, NEW c \in Callers, NEW r \in CallerState,
         caller' = [caller EXCEPT ![c] = r]
  PROVE  /\ caller' \in [Callers -> CallerState]
         /\ caller'[c] = r
         /\ \A d \in Callers \ {c} : caller'[d] = caller[d]
BY DEF EffectsTypeOK

\* A caller moves on and keeps its effect and what it was told.
LEMMA CallerGoes ==
  ASSUME EffectsTypeOK, NEW c \in Callers, NEW pc \in CallerPC, Goto(c, pc)
  PROVE  /\ caller' \in [Callers -> CallerState]
         /\ caller'[c].at = pc
         /\ caller'[c].effect = caller[c].effect /\ caller'[c].answer = caller[c].answer
         /\ \A d \in Callers \ {c} : caller'[d] = caller[d]
<1> DEFINE r == [caller[c] EXCEPT !.at = pc]
<1>1. caller[c] \in CallerState /\ caller \in [Callers -> CallerState]
  BY DEF EffectsTypeOK
<1>2. r \in CallerState /\ r.at = pc /\ r.effect = caller[c].effect /\ r.answer = caller[c].answer
  BY <1>1 DEF CallerState
<1>3. caller' = [caller EXCEPT ![c] = r]
  BY <1>1 DEF Goto
<1> HIDE DEF r
<1> QED BY <1>2, <1>3, CallerBecomes

\* A caller is told an outcome.
LEMMA CallerTold ==
  ASSUME EffectsTypeOK, NEW c \in Callers, NEW o \in Outcome, Told(c, o)
  PROVE  /\ caller' \in [Callers -> CallerState]
         /\ caller'[c].at = "told"
         /\ caller'[c].effect = caller[c].effect /\ caller'[c].answer = o
         /\ \A d \in Callers \ {c} : caller'[d] = caller[d]
<1> DEFINE r == [caller[c] EXCEPT !.at = "told", !.answer = o]
<1>1. caller[c] \in CallerState /\ caller \in [Callers -> CallerState]
  BY DEF EffectsTypeOK
<1>2. r \in CallerState /\ r.at = "told" /\ r.effect = caller[c].effect /\ r.answer = o
  BY <1>1 DEF CallerState, CallerPC
<1>3. caller' = [caller EXCEPT ![c] = r]
  BY <1>1 DEF Told
<1> HIDE DEF r
<1> QED BY <1>2, <1>3, CallerBecomes

\* An entry is replaced.
LEMMA EntryBecomes ==
  ASSUME EffectsTypeOK, NEW e \in Effects, NEW n \in Entry, ledger' = [ledger EXCEPT ![e] = n]
  PROVE  /\ ledger' \in [Effects -> Entry]
         /\ ledger'[e] = n
         /\ \A f \in Effects \ {e} : ledger'[f] = ledger[f]
BY DEF EffectsTypeOK

\* Resolving changes an entry that is pending, and nothing else.
LEMMA EntryResolved ==
  ASSUME EffectsTypeOK, NEW e \in Effects, NEW o \in Outcome, Resolve(e, o)
  PROVE  /\ ledger' \in [Effects -> Entry]
         /\ ledger'[e].status = IF ledger[e].status = "pending" THEN o ELSE ledger[e].status
         /\ ledger'[e].attempts = ledger[e].attempts
         /\ \A f \in Effects \ {e} : ledger'[f] = ledger[f]
<1> DEFINE n == [ledger[e] EXCEPT !.status = o]
<1>1. ledger[e] \in Entry /\ ledger \in [Effects -> Entry]
  BY DEF EffectsTypeOK
<1>2. n \in Entry /\ n.status = o /\ n.attempts = ledger[e].attempts
  BY <1>1 DEF Entry, EntryStatus
<1>3. CASE ledger[e].status = "pending"
  <2>1. ledger' = [ledger EXCEPT ![e] = n]
    BY <1>1, <1>3 DEF Resolve, Resolvable
  <2> HIDE DEF n
  <2> QED BY <1>2, <1>3, <2>1, EntryBecomes
<1>4. CASE ledger[e].status # "pending"
  BY <1>1, <1>4 DEF Resolve, Resolvable
<1> QED BY <1>3, <1>4

-----------------------------------------------------------------------------
(* The invariant *)

\* A step of a caller touches its own effect e only, and leaves the entry and the
\* caller in order: an entry settled stays, only the caller that inserts the
\* entry comes to call, and only a caller calls.
InOrder(c, e) ==
  /\ caller[c].effect = e /\ caller'[c].effect = e
  /\ \A d \in Callers \ {c} : caller'[d] = caller[d]
  /\ \A f \in Effects \ {e} : ledger'[f] = ledger[f] /\ sent'[f] = sent[f]
  /\ landed \subseteq landed'
  /\ ledger'[e].status = "none" <=> ledger'[e].attempts = 0
  /\ ledger'[e].status = "none" => ledger[e].status = "none" /\ sent'[e] = 0
  /\ ledger[e].status \in Outcome => ledger'[e].status = ledger[e].status
  /\ ledger'[e].status = "confirmed" => e \in landed'
  /\ sent'[e] = sent[e] \/ (caller[c].at = "calling" /\ sent'[e] = 1)
  /\ caller'[c].at = "calling" => sent'[e] = 0 /\ ledger[e].status = "none"
  /\ caller[c].at # "idle" /\ caller'[c].at # "idle"
  /\ caller'[c].at \in HasEntry => ledger'[e].status # "none"
  /\ caller'[c].at \in {"confirming", "finding"} => e \in landed'
  /\ caller'[c].at = "told" => ledger'[e].status \in Outcome
  /\ (caller'[c].answer # "none") <=> caller'[c].at = "told"
  /\ caller'[c].answer = "confirmed" => e \in landed'

\* Such a step keeps the invariant.
LEMMA InOrderAfterStep ==
  ASSUME EffectsInv, NEW c \in Callers, NEW e \in Effects, EffectsTypeOK', InOrder(c, e)
  PROVE  EffectsInv'
<1> USE DEF InOrder
<1> USE DEF CallerAt
<1>1. EntriesBegun'
  BY DEF EffectsInv, EntriesBegun
<1>2. FiresAtMostOnce'
  BY DEF EffectsInv, FiresAtMostOnce
<1>3. ConfirmedHappened'
  <2>1. \A f \in Effects : ledger'[f].status = "confirmed" => f \in landed'
    BY DEF EffectsInv, ConfirmedHappened
  <2>2. ASSUME NEW d \in Callers, caller'[d].answer = "confirmed"
        PROVE  caller'[d].effect \in landed'
    BY <2>2 DEF EffectsInv, ConfirmedHappened
  <2> QED BY <2>1, <2>2 DEF ConfirmedHappened
<1>4. ASSUME NEW d \in Callers \ {c}, caller[d].at \in HasEntry
      PROVE  caller[d].effect \in Effects /\ ledger[caller[d].effect].status # "none"
  BY <1>4 DEF EffectsInv, CallersKnow, HasEntry
<1>5. OneCaller'
  <2>1. ASSUME NEW d \in Callers \ {c}, caller[d].at = "calling"
        PROVE  /\ sent'[caller[d].effect] = 0
               /\ ~(caller'[c].at = "calling" /\ caller[d].effect = e)
    BY <1>4, <2>1 DEF EffectsInv, OneCaller, HasEntry
  <2>2. ASSUME NEW d \in Callers \ {c}, NEW b \in Callers \ {c, d}, caller[d].at = "calling"
        PROVE  ~(caller[b].at = "calling" /\ caller[b].effect = caller[d].effect)
    BY <2>2 DEF EffectsInv, OneCaller
  <2> QED BY <2>1, <2>2 DEF OneCaller
<1>6. CallersKnow'
  <2>1. ASSUME NEW d \in Callers \ {c}
        PROVE  /\ caller[d].at # "idle" => caller[d].effect \in Effects
               /\ caller[d].at \in HasEntry => ledger'[caller[d].effect].status # "none"
               /\ caller[d].at \in {"confirming", "finding"} => caller[d].effect \in landed'
               /\ caller[d].at = "told" => ledger'[caller[d].effect].status \in Outcome
               /\ (caller[d].answer # "none") <=> caller[d].at = "told"
    BY DEF EffectsInv, CallersKnow, HasEntry
  <2> QED BY <2>1 DEF CallersKnow
<1> QED BY <1>1, <1>2, <1>3, <1>5, <1>6 DEF EffectsInv

\* The steps that read the ledger or ask the downstream, and those that fail.
LEMMA LookKeeps ==
  ASSUME EffectsInv, NEW c \in Callers,
         Look(c) \/ BeginRead(c) \/ Reconcile(c) \/ AccessFails(c)
  PROVE  EffectsTypeOK' /\ InOrder(c, caller[c].effect)
<1> DEFINE e == caller[c].effect
<1> USE DEF CallerAt, downstream
<1>1. EffectsTypeOK
  BY DEF EffectsInv
<1>2. /\ caller[c].at # "idle" /\ e \in Effects
      /\ UNCHANGED <<ledger, sent, landed, flying>>
      /\ faults' \in Nat
      /\ caller[c].answer = "none"
  BY <1>1 DEF EffectsInv, EffectsTypeOK, CallersKnow, Look, BeginRead, Reconcile, AccessFails,
              Faulty
<1>3. /\ caller' \in [Callers -> CallerState]
      /\ \A d \in Callers \ {c} : caller'[d] = caller[d]
      /\ caller'[c].effect = e
      /\ caller'[c].at \notin {"idle", "calling", "confirming"}
      /\ caller'[c].at \in HasEntry => ledger[e].status # "none"
      /\ caller'[c].at = "finding" => e \in landed
      /\ (caller'[c].answer # "none") <=> caller'[c].at = "told"
      /\ caller'[c].at = "told" => ledger[e].status \in Outcome
                                  /\ caller'[c].answer = ledger[e].status
  <2>1. CASE Look(c)
    <3>1. CASE ledger[e].status \in Outcome
      <4>1. Told(c, ledger[e].status)
        BY <2>1, <3>1 DEF Look
      <4> QED BY <1>1, <3>1, <4>1, CallerTold DEF HasEntry, Outcome
    <3>2. CASE ledger[e].status \notin Outcome
      <4>1. Goto(c, "reading")
        BY <2>1, <3>2 DEF Look
      <4> QED BY <1>1, <1>2, <4>1, CallerGoes DEF HasEntry, CallerPC
    <3> QED BY <3>1, <3>2
  <2>2. CASE BeginRead(c)
    <3> DEFINE n == ledger[e].attempts
               r == [caller[c] EXCEPT !.seen = n, !.at = IF n = 0 THEN "inserting" ELSE "bumping"]
    <3>1. caller[c] \in CallerState /\ n \in Nat /\ caller \in [Callers -> CallerState]
      BY <1>1, <1>2 DEF EffectsTypeOK, Entry
    <3>2. /\ r \in CallerState /\ r.effect = e /\ r.answer = "none"
          /\ r.at = IF n = 0 THEN "inserting" ELSE "bumping"
      BY <1>2, <3>1 DEF CallerState, CallerPC
    <3>3. caller' = [caller EXCEPT ![c] = r]
      BY <2>2, <3>1 DEF BeginRead
    <3>4. n = 0 <=> ledger[e].status = "none"
      BY <1>2 DEF EffectsInv, EntriesBegun
    <3> HIDE DEF r, n
    <3> QED BY <1>1, <3>2, <3>3, <3>4, CallerBecomes DEF HasEntry
  <2>3. CASE Reconcile(c)
    <3>1. ledger[e].status # "none"
      BY <2>3 DEF Reconcile, EffectsInv, CallersKnow, HasEntry
    <3>2. PICK pc \in {"finding", "doubting"} : Goto(c, pc) /\ (pc = "finding" => e \in landed)
      BY <2>3 DEF Reconcile
    <3> QED BY <1>1, <1>2, <3>1, <3>2, CallerGoes DEF CallerPC, HasEntry
  <2>4. CASE AccessFails(c)
    BY <1>1, <1>2, <2>4, CallerGoes DEF AccessFails, CallerPC, HasEntry
  <2> QED BY <2>1, <2>2, <2>3, <2>4
<1>4. EffectsTypeOK'
  BY <1>1, <1>2, <1>3 DEF EffectsTypeOK
<1>5. ledger[e].status = "confirmed" => e \in landed
  BY <1>2 DEF EffectsInv, ConfirmedHappened
<1>6. (ledger[e].status = "none" <=> ledger[e].attempts = 0)
      /\ (ledger[e].status = "none" => sent[e] = 0)
  BY <1>2 DEF EffectsInv, EntriesBegun
<1> QED BY <1>2, <1>3, <1>4, <1>5, <1>6 DEF InOrder

\* The steps that begin an entry, or begin it again.
LEMMA BeginKeeps ==
  ASSUME EffectsInv, NEW c \in Callers, BeginInsert(c) \/ BeginAgain(c)
  PROVE  EffectsTypeOK' /\ InOrder(c, caller[c].effect)
<1> DEFINE e == caller[c].effect
<1> USE DEF CallerAt, downstream
<1>1. EffectsTypeOK
  BY DEF EffectsInv
<1>2. /\ caller[c].at # "idle" /\ e \in Effects
      /\ UNCHANGED <<sent, landed, flying>>
      /\ faults' \in Nat
      /\ caller[c].answer = "none"
  BY <1>1 DEF EffectsInv, EffectsTypeOK, CallersKnow, BeginInsert, BeginAgain, Faulty
<1>3. PICK pc \in {"calling", "asking", "doubting", "threw"} :
        Goto(c, pc) /\ (pc = "calling" => ledger[e].status = "none")
  BY <1>2 DEF BeginInsert, BeginAgain
<1>4. /\ caller' \in [Callers -> CallerState] /\ caller'[c].at = pc
      /\ \A d \in Callers \ {c} : caller'[d] = caller[d]
      /\ caller'[c].effect = e /\ caller'[c].answer = "none"
  BY <1>1, <1>2, <1>3, CallerGoes DEF CallerPC
<1>5. /\ ledger' \in [Effects -> Entry]
      /\ \A f \in Effects \ {e} : ledger'[f] = ledger[f]
      /\ ledger'[e].status # "none" \/ pc = "threw"
      /\ ledger'[e].status = "none" <=> ledger'[e].attempts = 0
      /\ ledger'[e].status = "none" => ledger[e].status = "none"
      /\ ledger[e].status \in Outcome => ledger'[e].status = ledger[e].status
      /\ ledger'[e].status = "confirmed" => ledger[e].status = "confirmed"
  <2>1. /\ ledger \in [Effects -> Entry] /\ ledger[e] \in Entry
        /\ ledger[e].status = "none" <=> ledger[e].attempts = 0
    BY <1>1, <1>2 DEF EffectsTypeOK, EffectsInv, EntriesBegun
  <2>2. CASE BeginInsert(c) /\ ledger[e].status = "none"
    <3> DEFINE n == [status |-> "pending", attempts |-> 1]
    <3>1. n \in Entry /\ ledger' = [ledger EXCEPT ![e] = n]
      BY <2>2 DEF BeginInsert, Entry, EntryStatus
    <3>2. /\ ledger' \in [Effects -> Entry] /\ ledger'[e] = n
          /\ \A f \in Effects \ {e} : ledger'[f] = ledger[f]
      BY <1>1, <1>2, <3>1, EntryBecomes
    <3> QED BY <2>2, <3>2 DEF Outcome
  <2>3. CASE BeginInsert(c) /\ ledger[e].status # "none"
    BY <2>1, <2>3 DEF BeginInsert
  <2>4. CASE BeginAgain(c)
    <3> DEFINE n == [ledger[e] EXCEPT !.attempts = caller[c].seen + 1]
    <3>1. ledger[e].status # "none"
      BY <1>2, <2>4 DEF BeginAgain, EffectsInv, CallersKnow, HasEntry
    <3>2. caller[c].seen \in Nat
      BY <1>1 DEF EffectsTypeOK, CallerState
    <3>3. n \in Entry /\ n.status = ledger[e].status /\ n.attempts # 0
      BY <2>1, <3>2 DEF Entry
    <3>4. ledger' = [ledger EXCEPT ![e] = n]
      BY <2>1, <2>4 DEF BeginAgain
    <3> HIDE DEF n
    <3> QED BY <1>1, <1>2, <3>1, <3>3, <3>4, EntryBecomes
  <2> QED BY <2>2, <2>3, <2>4
<1>6. EffectsTypeOK'
  BY <1>1, <1>2, <1>4, <1>5 DEF EffectsTypeOK
<1>7. ledger[e].status = "confirmed" => e \in landed
  BY <1>2 DEF EffectsInv, ConfirmedHappened
<1>8. ledger[e].status = "none" => sent[e] = 0
  BY <1>2 DEF EffectsInv, EntriesBegun
<1> QED BY <1>2, <1>3, <1>4, <1>5, <1>6, <1>7, <1>8 DEF InOrder, HasEntry

\* The call.
LEMMA CallKeeps ==
  ASSUME EffectsInv, NEW c \in Callers, CallDownstream(c)
  PROVE  EffectsTypeOK' /\ InOrder(c, caller[c].effect)
<1> DEFINE e == caller[c].effect
<1> USE DEF CallerAt
<1>1. EffectsTypeOK
  BY DEF EffectsInv
<1>2. /\ caller[c].at = "calling" /\ e \in Effects
      /\ ledger[e].status # "none"
      /\ sent[e] = 0
      /\ UNCHANGED <<ledger, faults>>
      /\ caller[c].answer = "none"
  BY DEF EffectsInv, CallersKnow, OneCaller, CallDownstream, HasEntry
<1>3. PICK pc \in {"confirming", "refusing", "unsure"} :
        Goto(c, pc) /\ (pc = "confirming" => e \in landed')
  BY <1>1, <1>2 DEF CallDownstream, EffectsTypeOK
<1>4. /\ caller' \in [Callers -> CallerState] /\ caller'[c].at = pc
      /\ \A d \in Callers \ {c} : caller'[d] = caller[d]
      /\ caller'[c].effect = e /\ caller'[c].answer = "none"
  BY <1>1, <1>2, <1>3, CallerGoes DEF CallerPC
<1>5. /\ sent' \in [Effects -> Nat] /\ sent'[e] = 1
      /\ \A f \in Effects \ {e} : sent'[f] = sent[f]
  BY <1>1, <1>2 DEF CallDownstream, EffectsTypeOK
<1>6. landed \subseteq landed' /\ landed' \subseteq Effects /\ flying' \subseteq Effects
  BY <1>1, <1>2 DEF CallDownstream, EffectsTypeOK
<1>7. EffectsTypeOK'
  BY <1>1, <1>2, <1>4, <1>5, <1>6 DEF EffectsTypeOK
<1>8. /\ ledger[e].status = "confirmed" => e \in landed
      /\ ledger[e].status = "none" <=> ledger[e].attempts = 0
  BY <1>2 DEF EffectsInv, ConfirmedHappened, EntriesBegun
<1> QED BY <1>2, <1>3, <1>4, <1>5, <1>6, <1>7, <1>8 DEF InOrder

\* What a caller that resolves its entry may resolve it with.
LEMMA ResolverKnows ==
  ASSUME EffectsInv, NEW c \in Callers,
         caller[c].at \in {"confirming", "refusing", "unsure", "finding", "doubting"},
         NEW o \in Outcome,
         o = "confirmed" => caller[c].at \in {"confirming", "finding"},
         Resolve(caller[c].effect, o) \/ UNCHANGED ledger
  PROVE  LET e == caller[c].effect IN
         /\ e \in Effects
         /\ caller[c].answer = "none"
         /\ ledger' \in [Effects -> Entry]
         /\ \A f \in Effects \ {e} : ledger'[f] = ledger[f]
         /\ ledger'[e].status # "none" /\ ledger[e].status # "none"
         /\ ledger'[e].attempts # 0
         /\ ledger[e].status \in Outcome => ledger'[e].status = ledger[e].status
         /\ ledger'[e].status = "confirmed" => e \in landed
         /\ Resolve(e, o) => ledger'[e].status \in Outcome
<1> DEFINE e == caller[c].effect
<1>1. EffectsTypeOK
  BY DEF EffectsInv
<1>2. /\ e \in Effects
      /\ ledger[e].status # "none"
      /\ o = "confirmed" => e \in landed
      /\ caller[c].answer = "none"
  BY DEF EffectsInv, CallersKnow, HasEntry, CallerAt
<1>3. /\ ledger[e].attempts # 0
      /\ ledger[e].status = "confirmed" => e \in landed
  BY <1>2 DEF EffectsInv, EntriesBegun, ConfirmedHappened
<1>4. ledger \in [Effects -> Entry] /\ ledger[e].status \in EntryStatus
  BY <1>1, <1>2 DEF EffectsTypeOK, Entry
<1>5. CASE Resolve(e, o)
  <2> HIDE DEF e
  <2> QED BY <1>1, <1>2, <1>3, <1>4, <1>5, EntryResolved DEF Outcome, EntryStatus, e
<1>6. CASE UNCHANGED ledger /\ ~Resolve(e, o)
  BY <1>2, <1>3, <1>4, <1>6
<1> QED BY <1>5, <1>6

\* The steps that resolve an entry and tell the caller.
LEMMA TellKeeps ==
  ASSUME EffectsInv, NEW c \in Callers, NEW o \in Outcome,
         NEW pc \in {"confirming", "refusing", "unsure", "finding", "doubting"},
         o = "confirmed" => pc \in {"confirming", "finding"},
         ResolveAndTell(c, pc, o)
  PROVE  EffectsTypeOK' /\ InOrder(c, caller[c].effect)
<1> DEFINE e == caller[c].effect
<1>1. EffectsTypeOK
  BY DEF EffectsInv
<1>2. /\ caller[c].at = pc
      /\ Resolve(e, o) /\ Told(c, o)
      /\ UNCHANGED <<sent, landed, flying, faults>>
  BY DEF ResolveAndTell, CallerAt, downstream
<1>3. /\ caller' \in [Callers -> CallerState] /\ caller'[c].at = "told"
      /\ \A d \in Callers \ {c} : caller'[d] = caller[d]
      /\ caller'[c].effect = e /\ caller'[c].answer = o
  BY <1>1, <1>2, CallerTold
<1>4. /\ e \in Effects
      /\ ledger' \in [Effects -> Entry]
      /\ \A f \in Effects \ {e} : ledger'[f] = ledger[f]
      /\ ledger'[e].status # "none" /\ ledger[e].status # "none"
      /\ ledger'[e].attempts # 0
      /\ ledger[e].status \in Outcome => ledger'[e].status = ledger[e].status
      /\ ledger'[e].status = "confirmed" => e \in landed
      /\ ledger'[e].status \in Outcome
  BY <1>2, ResolverKnows
<1>5. o = "confirmed" => e \in landed
  BY <1>2 DEF EffectsInv, CallersKnow
<1>6. EffectsTypeOK'
  BY <1>1, <1>2, <1>3, <1>4 DEF EffectsTypeOK
<1> QED BY <1>2, <1>3, <1>4, <1>5, <1>6 DEF InOrder, Outcome

\* The steps that resolve an entry, or do not, and leave the caller in doubt.
LEMMA UnansweredKeeps ==
  ASSUME EffectsInv, NEW c \in Callers, ConfirmFails(c) \/ ResolveUnanswered(c)
  PROVE  EffectsTypeOK' /\ InOrder(c, caller[c].effect)
<1> DEFINE e == caller[c].effect
<1> USE DEF CallerAt, downstream
<1>1. EffectsTypeOK
  BY DEF EffectsInv
<1>2. PICK o \in Outcome :
        /\ caller[c].at \in {"confirming", "refusing", "unsure", "finding", "doubting"}
        /\ o = "confirmed" => caller[c].at \in {"confirming", "finding"}
        /\ Resolve(e, o) \/ UNCHANGED ledger
  BY DEF ConfirmFails, ResolveUnanswered, Outcome
<1>3. PICK pc \in {"refusing", "unsure", "threw"} : Goto(c, pc)
  BY DEF ConfirmFails, ResolveUnanswered
<1>4. UNCHANGED <<sent, landed, flying>> /\ faults' \in Nat
  BY <1>1 DEF ConfirmFails, ResolveUnanswered, Faulty, EffectsTypeOK
<1>5. /\ e \in Effects
      /\ caller[c].answer = "none"
      /\ ledger' \in [Effects -> Entry]
      /\ \A f \in Effects \ {e} : ledger'[f] = ledger[f]
      /\ ledger'[e].status # "none" /\ ledger[e].status # "none"
      /\ ledger'[e].attempts # 0
      /\ ledger[e].status \in Outcome => ledger'[e].status = ledger[e].status
      /\ ledger'[e].status = "confirmed" => e \in landed
  BY <1>2, ResolverKnows
<1>6. /\ caller' \in [Callers -> CallerState] /\ caller'[c].at = pc
      /\ \A d \in Callers \ {c} : caller'[d] = caller[d]
      /\ caller'[c].effect = e /\ caller'[c].answer = "none"
  BY <1>1, <1>3, <1>5, CallerGoes DEF CallerPC
<1>7. EffectsTypeOK'
  BY <1>1, <1>4, <1>5, <1>6 DEF EffectsTypeOK
<1> QED BY <1>2, <1>3, <1>4, <1>5, <1>6, <1>7 DEF InOrder

\* A step of a caller keeps the invariant; it touches no other caller, neither
\* begins nor ends the caller's work, and leaves what is settled.
LEMMA EffectStepKeeps ==
  ASSUME EffectsInv, NEW c \in Callers, EffectStep(c)
  PROVE  /\ EffectsInv'
         /\ \A d \in Callers \ {c} : caller'[d] = caller[d]
         /\ caller'[c].effect = caller[c].effect
         /\ caller[c].at # "idle" /\ caller'[c].at # "idle"
         /\ \A f \in Effects : ledger[f].status \in Outcome => ledger'[f].status = ledger[f].status
<1> DEFINE e == caller[c].effect
<1>1. EffectsTypeOK' /\ InOrder(c, e)
  <2>1. CASE Look(c) \/ BeginRead(c) \/ Reconcile(c) \/ AccessFails(c)
    BY <2>1, LookKeeps
  <2>2. CASE BeginInsert(c) \/ BeginAgain(c)
    BY <2>2, BeginKeeps
  <2>3. CASE CallDownstream(c)
    BY <2>3, CallKeeps
  <2>4. CASE Confirm(c)
    BY <2>4, TellKeeps DEF Confirm, Outcome
  <2>5. CASE Refuse(c)
    BY <2>5, TellKeeps DEF Refuse, Outcome
  <2>6. CASE Unsure(c)
    BY <2>6, TellKeeps DEF Unsure, Outcome
  <2>7. CASE Find(c)
    BY <2>7, TellKeeps DEF Find, Outcome
  <2>8. CASE Doubt(c)
    BY <2>8, TellKeeps DEF Doubt, Outcome
  <2>9. CASE ConfirmFails(c) \/ ResolveUnanswered(c)
    BY <2>9, UnansweredKeeps
  <2> QED BY <2>1, <2>2, <2>3, <2>4, <2>5, <2>6, <2>7, <2>8, <2>9 DEF EffectStep
<1>2. caller[c].at # "idle"
  BY <1>1 DEF InOrder
<1>3. e \in Effects
  BY <1>2 DEF EffectsInv, CallersKnow
<1>4. EffectsInv'
  BY <1>1, <1>3, InOrderAfterStep
<1> QED BY <1>1, <1>2, <1>3, <1>4 DEF InOrder

\* What lands late keeps the invariant.
LEMMA LandKeeps ==
  ASSUME EffectsInv, NEW e \in Effects, Land(e)
  PROVE  EffectsInv'
<1>1. /\ landed \subseteq landed' /\ landed' \subseteq Effects /\ flying' \subseteq Effects
      /\ UNCHANGED <<ledger, sent, caller, faults>>
  BY DEF Land, EffectsInv, EffectsTypeOK
<1> QED
  BY <1>1 DEF EffectsInv, EffectsTypeOK, EntriesBegun, OneCaller, CallersKnow,
              ConfirmedHappened, FiresAtMostOnce, CallerAt

\* Beginning an effect, or forgetting one, keeps the invariant.
LEMMA RestartKeeps ==
  ASSUME EffectsInv, NEW c \in Callers, faults' \in Nat, UNCHANGED <<ledger, downstream>>,
         \/ caller' = [caller EXCEPT ![c] = IdleCaller]
         \/ \E e \in Effects : Perform(c, e)
  PROVE  /\ EffectsInv'
         /\ \A d \in Callers \ {c} : caller'[d] = caller[d]
         /\ \/ caller'[c].at = "idle"
            \/ caller'[c].at = "looking" /\ Perform(c, caller'[c].effect)
<1>1. EffectsTypeOK /\ UNCHANGED <<ledger, sent, landed, flying>>
  BY DEF EffectsInv, downstream
<1>2. IdleCaller \in CallerState /\ IdleCaller.at = "idle" /\ IdleCaller.answer = "none"
  BY DEF IdleCaller, CallerState, CallerPC
<1>3. PICK r \in CallerState :
        /\ caller' = [caller EXCEPT ![c] = r]
        /\ r.answer = "none"
        /\ r.at = "idle" \/ (r.at = "looking" /\ r.effect \in Effects /\ Perform(c, r.effect))
  <2>1. CASE caller' = [caller EXCEPT ![c] = IdleCaller]
    BY <1>2, <2>1
  <2>2. ASSUME NEW e \in Effects, Perform(c, e)
        PROVE  \E r \in CallerState :
                 /\ caller' = [caller EXCEPT ![c] = r]
                 /\ r.answer = "none"
                 /\ r.at = "looking" /\ r.effect \in Effects /\ Perform(c, r.effect)
    <3> DEFINE r == [IdleCaller EXCEPT !.at = "looking", !.effect = e]
    <3>1. r \in CallerState /\ r.answer = "none" /\ r.at = "looking" /\ r.effect = e
      BY DEF IdleCaller, CallerState, CallerPC
    <3>2. caller' = [caller EXCEPT ![c] = r]
      BY <2>2 DEF Perform
    <3> HIDE DEF r
    <3> QED BY <2>2, <3>1, <3>2
  <2> QED BY <2>1, <2>2
<1>4. /\ caller' \in [Callers -> CallerState] /\ caller'[c] = r
      /\ \A d \in Callers \ {c} : caller'[d] = caller[d]
  BY <1>1, <1>3, CallerBecomes
<1>5. EffectsTypeOK'
  BY <1>1, <1>4 DEF EffectsTypeOK
<1>6. EntriesBegun' /\ FiresAtMostOnce'
  BY <1>1 DEF EffectsInv, EntriesBegun, FiresAtMostOnce
<1>7. OneCaller' /\ CallersKnow' /\ ConfirmedHappened'
  <2>1. \A d \in Callers : caller'[d] = caller[d] \/ caller'[d] = r
    BY <1>4
  <2>2. OneCaller'
    BY <1>1, <1>3, <1>4, <2>1 DEF EffectsInv, OneCaller, CallerAt
  <2>3. CallersKnow'
    BY <1>1, <1>3, <1>4, <2>1 DEF EffectsInv, CallersKnow, CallerAt, HasEntry
  <2>4. ConfirmedHappened'
    BY <1>1, <1>3, <1>4, <2>1 DEF EffectsInv, ConfirmedHappened
  <2> QED BY <2>2, <2>3, <2>4
<1> QED BY <1>3, <1>4, <1>5, <1>6, <1>7 DEF EffectsInv

\* The invariant does not depend on the faults.
LEMMA ElsewhereKeeps ==
  ASSUME EffectsInv, UNCHANGED <<ledger, downstream, caller>>, faults' \in Nat
  PROVE  EffectsInv'
BY DEF EffectsInv, EffectsTypeOK, EntriesBegun, OneCaller, CallersKnow, ConfirmedHappened,
       FiresAtMostOnce, CallerAt, downstream

\* It holds at the start.
LEMMA EffectsBegin ==
  ASSUME EffectsInit
  PROVE  EffectsInv
<1>1. EffectsTypeOK
  BY DEF EffectsInit, EffectsTypeOK, Entry, EntryStatus, CallerState, CallerPC, IdleCaller
<1> QED
  BY <1>1 DEF EffectsInit, EffectsInv, EntriesBegun, OneCaller, CallersKnow, HasEntry,
              ConfirmedHappened, FiresAtMostOnce, CallerAt, IdleCaller

-----------------------------------------------------------------------------
(* Constants *)

LEMMA MaxCostIsMax ==
  MaxCost \in Nat /\ \A x \in Costs : x \in Nat /\ x <= MaxCost
<1>1. PICK m \in Costs : \A x \in Costs : x <= m
  BY RunsAssumption
<1>2. MaxCost \in Costs /\ \A x \in Costs : x <= MaxCost
  BY <1>1 DEF MaxCost
<1> QED BY <1>2, RunsAssumption

LEMMA TightenedTyped ==
  ASSUME NEW g \in Nat, NEW own \in Nat
  PROVE  Tightened(g, own) \in Nat /\ Tightened(g, own) <= own
BY DEF Tightened

\* The effect of an effectful step of a trajectory is one of the effects.
LEMMA EffectOfStep ==
  ASSUME NEW t \in Trajectories, NEW i \in Effectful
  PROVE  EffectOf(t, i) \in Effects
BY RunsAssumption

-----------------------------------------------------------------------------
(* What a step does to a run *)

\* A run's record is replaced.
LEMMA RunBecomes ==
  ASSUME TypeOK, NEW r \in Runs, NEW x \in RunState, run' = [run EXCEPT ![r] = x]
  PROVE  /\ run' \in [Runs -> RunState]
         /\ run'[r] = x
         /\ \A q \in Runs \ {r} : run'[q] = run[q]
BY DEF TypeOK

\* A run moves on and keeps what it has read.
LEMMA RunGoes ==
  ASSUME TypeOK, NEW r \in Runs, NEW pc \in RunPC, Go(r, pc)
  PROVE  /\ run' \in [Runs -> RunState]
         /\ run'[r].at = pc
         /\ run'[r].t = run[r].t /\ run'[r].count = run[r].count
         /\ run'[r].cost = run[r].cost /\ run'[r].fired = run[r].fired
         /\ run'[r].final = run[r].final
         /\ \A q \in Runs \ {r} : run'[q] = run[q]
<1> DEFINE x == [run[r] EXCEPT !.at = pc]
<1>1. run[r] \in RunState /\ run \in [Runs -> RunState]
  BY DEF TypeOK
<1>2. /\ x \in RunState /\ x.at = pc
      /\ x.t = run[r].t /\ x.count = run[r].count
      /\ x.cost = run[r].cost /\ x.fired = run[r].fired /\ x.final = run[r].final
  BY <1>1 DEF RunState
<1>3. run' = [run EXCEPT ![r] = x]
  BY <1>1 DEF Go
<1> HIDE DEF x
<1> QED BY <1>2, <1>3, RunBecomes

\* The fields of a run.
LEMMA RunTyped ==
  ASSUME TypeOK, NEW r \in Runs
  PROVE  /\ run[r] \in RunState
         /\ run[r].at \in RunPC /\ run[r].t \in Trajectories \cup {NoTrajectory}
         /\ run[r].count \in Nat /\ run[r].cap \in Nat /\ run[r].cost \in Nat
         /\ run[r].fired \subseteq Effectful /\ run[r].final \in Status
BY DEF TypeOK, RunState

-----------------------------------------------------------------------------
(* The invariants that speak of one run at a time *)

\* A run, its caller and the entries of its effects are in order after a step.
RunInOrder(r) ==
  /\ caller'[r].at # "idle" =>
       /\ run'[r].at = "working" /\ run'[r].count \in Effectful
       /\ run'[r].t \in Trajectories
       /\ caller'[r].effect = EffectOf(run'[r].t, run'[r].count)
  /\ run'[r].at \in {"recording", "consuming"} => run'[r].cost \in Costs
  /\ run'[r].at # "idle" => run'[r].t \in Trajectories /\ run'[r].final = "running"
  /\ run'[r].fired # {} => run'[r].t \in Trajectories
  /\ \A i \in run'[r].fired :
       LET s == ledger'[EffectOf(run'[r].t, i)].status IN
       /\ s \in Outcome
       /\ run'[r].at = "completing" \/ run'[r].final = "completed" => s \in {"confirmed", "failed"}

RunInvs == CallersAreRuns /\ RunsInOrder /\ FiredAreResolved /\ CompletedRunsAreResolved

\* A step that leaves the other runs, their callers and what is settled alone.
LEMMA RunInvsAfterStep ==
  ASSUME TypeOK, RunInvs, NEW r \in Runs, RunInOrder(r),
         \A q \in Runs \ {r} : run'[q] = run[q] /\ caller'[q] = caller[q],
         \A f \in Effects : ledger[f].status \in Outcome => ledger'[f].status = ledger[f].status
  PROVE  RunInvs'
<1> USE DEF RunAt, CallerAt, RunInvs, RunInOrder
<1>1. ASSUME NEW q \in Runs \ {r}, NEW i \in run[q].fired
      PROVE  ledger'[EffectOf(run[q].t, i)].status = ledger[EffectOf(run[q].t, i)].status
  <2>1. run[q].t \in Trajectories /\ i \in Effectful
    BY <1>1, RunTyped DEF RunsInOrder
  <2>2. EffectOf(run[q].t, i) \in Effects
    BY <2>1, EffectOfStep
  <2> QED BY <1>1, <2>2 DEF FiredAreResolved
<1>2. CallersAreRuns'
  BY DEF CallersAreRuns
<1>3. RunsInOrder'
  BY DEF RunsInOrder
<1>4. FiredAreResolved'
  BY <1>1 DEF FiredAreResolved
<1>5. CompletedRunsAreResolved'
  BY <1>1 DEF CompletedRunsAreResolved
<1> QED BY <1>2, <1>3, <1>4, <1>5

\* Only a run at an effectful step has a caller that is not idle.
LEMMA CallerIdle ==
  ASSUME CallersAreRuns, NEW r \in Runs, run[r].at # "working"
  PROVE  caller[r].at = "idle"
BY DEF CallersAreRuns, CallerAt, RunAt

\* A run that moves on, its caller idle or its work forgotten.
LEMMA GoKeeps ==
  ASSUME TypeOK, RunInvs, EffectsInv, NEW r \in Runs, NEW pc \in RunPC, Go(r, pc),
         run[r].at # "idle",
         UNCHANGED <<ledger, downstream>>, faults' \in Nat,
         \/ caller' = caller /\ caller[r].at = "idle"
         \/ caller' = [caller EXCEPT ![r] = IdleCaller],
         pc # "recording",
         pc = "consuming" => run[r].at = "recording",
         pc = "completing" => Unresolved(run[r].t) = {}
  PROVE  RunInvs' /\ EffectsInv'
<1>1. /\ run'[r].at = pc
      /\ run'[r].t = run[r].t /\ run'[r].count = run[r].count
      /\ run'[r].cost = run[r].cost /\ run'[r].fired = run[r].fired
      /\ run'[r].final = run[r].final
      /\ \A q \in Runs \ {r} : run'[q] = run[q]
  BY RunGoes
<1>2. /\ EffectsInv'
      /\ \A q \in Runs \ {r} : caller'[q] = caller[q]
      /\ caller'[r].at = "idle"
  <2>1. CASE caller' = caller /\ caller[r].at = "idle"
    BY <2>1, ElsewhereKeeps
  <2>2. CASE caller' = [caller EXCEPT ![r] = IdleCaller]
    <3>1. r \in Callers /\ EffectsTypeOK /\ IdleCaller.at = "idle"
      BY RunsAssumption DEF EffectsInv, IdleCaller
    <3>2. caller'[r] = IdleCaller /\ \A q \in Runs \ {r} : caller'[q] = caller[q]
      BY <2>2, <3>1, RunsAssumption DEF EffectsTypeOK
    <3> QED BY <2>2, <3>1, <3>2, RestartKeeps
  <2> QED BY <2>1, <2>2
<1>3. /\ run[r].t \in Trajectories /\ run[r].final = "running"
      /\ run[r].at = "recording" => run[r].cost \in Costs
  BY DEF RunInvs, RunsInOrder
<1>4. ASSUME NEW i \in run[r].fired
      PROVE  LET s == ledger[EffectOf(run[r].t, i)].status IN
             s \in Outcome /\ (pc = "completing" => s \in {"confirmed", "failed"})
  <2>1. i \in Effectful
    BY RunTyped
  <2>2. ledger[EffectOf(run[r].t, i)].status \in Outcome
    BY DEF RunInvs, FiredAreResolved
  <2>3. CASE pc = "completing"
    BY <2>1, <2>2, <2>3 DEF Unresolved, Outcome
  <2> QED BY <2>2, <2>3
<1>5. RunInOrder(r)
  BY <1>1, <1>2, <1>3, <1>4 DEF RunInOrder, downstream
<1> QED BY <1>1, <1>2, <1>5, RunInvsAfterStep DEF downstream

-----------------------------------------------------------------------------
(* The budget *)

BudgetInvs == FlightIsCovered /\ OvershootIsBounded

LEMMA Products ==
  ASSUME NEW k \in Nat, NEW m \in Nat, NEW n \in Nat
  PROVE  /\ k * m \in Nat
         /\ k * (m + 1) = k * m + k
         /\ m <= n => k * m <= k * n
<1>1. k * m \in Nat /\ k * (m + 1) = k * m + k
  OBVIOUS
<1>2. ASSUME m <= n PROVE k * m <= k * n
  <2>1. PICK d \in Nat : n = m + d
    BY <1>2
  <2>2. k * n = k * m + k * d /\ k * d \in Nat /\ k * m \in Nat
    BY <2>1
  <2> QED BY <2>2
<1> QED BY <1>1, <1>2

\* The runs in flight are some of the runs.
LEMMA FlightSize ==
  /\ IsFiniteSet(Runs) /\ IsFiniteSet(InFlight)
  /\ Cardinality(Runs) \in Nat /\ Cardinality(InFlight) \in Nat
  /\ Cardinality(InFlight) <= Cardinality(Runs)
BY RunsAssumption, FS_Subset, FS_CardinalityType DEF InFlight

\* A step that charges nothing and lets no run past the check.
LEMMA BudgetUntouched ==
  ASSUME TypeOK, BudgetInvs, UNCHANGED <<usage, day>>, InFlight' \subseteq InFlight
  PROVE  BudgetInvs'
<1>1. /\ Cardinality(InFlight) \in Nat /\ Cardinality(InFlight') \in Nat
      /\ Cardinality(InFlight') <= Cardinality(InFlight)
  BY FlightSize, FS_Subset, FS_CardinalityType
<1>2. MaxCost * Cardinality(InFlight') <= MaxCost * Cardinality(InFlight)
  BY <1>1, MaxCostIsMax, Products
<1>3. usage[day] \in Nat /\ MaxCost * Cardinality(InFlight') \in Nat
      /\ MaxCost * Cardinality(InFlight) \in Nat /\ MaxCost * Cardinality(Runs) \in Nat
      /\ DailyCap \in Nat
  BY <1>1, MaxCostIsMax, Products, FlightSize, RunsAssumption DEF TypeOK
<1>4. FlightIsCovered'
  BY <1>2, <1>3 DEF BudgetInvs, FlightIsCovered
<1>5. OvershootIsBounded'
  BY DEF BudgetInvs, OvershootIsBounded
<1> QED BY <1>4, <1>5 DEF BudgetInvs

\* A run is let past the check while something of the cap is left.
LEMMA BudgetChecked ==
  ASSUME TypeOK, BudgetInvs, UNCHANGED <<usage, day>>, usage[day] <= DailyCap - 1,
         InFlight' \subseteq Runs
  PROVE  BudgetInvs'
<1>1. Cardinality(InFlight') \in Nat /\ Cardinality(InFlight') <= Cardinality(Runs)
  BY FlightSize, FS_Subset, FS_CardinalityType
<1>2. MaxCost * Cardinality(InFlight') <= MaxCost * Cardinality(Runs)
  BY <1>1, MaxCostIsMax, Products, FlightSize
<1>3. usage[day] \in Nat /\ MaxCost * Cardinality(InFlight') \in Nat
      /\ MaxCost * Cardinality(Runs) \in Nat /\ DailyCap \in Nat
  BY <1>1, MaxCostIsMax, Products, FlightSize, RunsAssumption DEF TypeOK
<1>4. FlightIsCovered'
  BY <1>2, <1>3 DEF BudgetInvs, FlightIsCovered
<1>5. OvershootIsBounded'
  BY DEF BudgetInvs, OvershootIsBounded
<1> QED BY <1>4, <1>5 DEF BudgetInvs

\* A run in flight is charged for its step, and is no longer in flight.
LEMMA BudgetCharged ==
  ASSUME TypeOK, BudgetInvs, NEW r \in Runs, NEW x \in Costs, r \in InFlight,
         usage' = [usage EXCEPT ![day] = @ + x], day' = day, InFlight' = InFlight \ {r}
  PROVE  BudgetInvs'
<1>1. Cardinality(InFlight') \in Nat /\ Cardinality(InFlight) = Cardinality(InFlight') + 1
  <2>1. Cardinality(InFlight') = Cardinality(InFlight) - 1
    BY FlightSize, FS_RemoveElement
  <2>2. Cardinality(InFlight') \in Nat
    BY FlightSize, FS_RemoveElement, FS_CardinalityType
  <2> QED BY <2>1, <2>2, FlightSize
<1>2. MaxCost * Cardinality(InFlight) = MaxCost * Cardinality(InFlight') + MaxCost
  BY <1>1, MaxCostIsMax, Products
<1>3. /\ day \in 0 .. MaxDay /\ usage[day] \in Nat /\ usage \in [0 .. MaxDay -> Nat]
      /\ usage'[day] = usage[day] + x
      /\ \A d \in 0 .. MaxDay : d # day => usage'[d] = usage[d]
  BY MaxCostIsMax DEF TypeOK
<1>4. /\ x \in Nat /\ x <= MaxCost /\ MaxCost \in Nat /\ DailyCap \in Nat
      /\ MaxCost * Cardinality(InFlight') \in Nat
      /\ MaxCost * Cardinality(Runs) \in Nat
  BY <1>1, MaxCostIsMax, Products, FlightSize, RunsAssumption
<1>5. usage[day] + (MaxCost * Cardinality(InFlight') + MaxCost)
        <= DailyCap - 1 + MaxCost * Cardinality(Runs)
  BY <1>2 DEF BudgetInvs, FlightIsCovered
<1> DEFINE inFlight == MaxCost * Cardinality(InFlight')
           all == MaxCost * Cardinality(Runs)
<1> HIDE DEF inFlight, all
<1>6. usage'[day] + inFlight <= DailyCap - 1 + all /\ usage'[day] <= DailyCap - 1 + all
  <2>1. usage[day] + (inFlight + MaxCost) <= DailyCap - 1 + all /\ inFlight \in Nat /\ all \in Nat
    BY <1>4, <1>5 DEF inFlight, all
  <2> QED BY <1>3, <1>4, <2>1
<1>7. FlightIsCovered'
  BY <1>3, <1>6 DEF BudgetInvs, FlightIsCovered, inFlight, all
<1>8. OvershootIsBounded'
  BY <1>3, <1>6 DEF BudgetInvs, OvershootIsBounded, all
<1> QED BY <1>7, <1>8 DEF BudgetInvs

\* The turn of the day, with nothing used yet of the next.
LEMMA NextDayKeeps ==
  ASSUME TypeOK, BudgetInvs, NextDay
  PROVE  BudgetInvs'
<1>1. /\ usage' = usage /\ day' = day + 1 /\ InFlight' = InFlight
      /\ day' \in 0 .. MaxDay /\ day \in 0 .. MaxDay
  BY RunsAssumption DEF NextDay, TypeOK, InFlight
<1>2. usage[day'] = 0
  BY <1>1 DEF BudgetInvs, FlightIsCovered
<1>3. MaxCost * Cardinality(InFlight) <= MaxCost * Cardinality(Runs)
  BY MaxCostIsMax, Products, FlightSize
<1>4. /\ MaxCost * Cardinality(InFlight) \in Nat /\ MaxCost * Cardinality(Runs) \in Nat
      /\ DailyCap \in Nat /\ DailyCap >= 1
  BY MaxCostIsMax, Products, FlightSize, RunsAssumption
<1>5. FlightIsCovered'
  <2>1. usage'[day'] + MaxCost * Cardinality(InFlight') <= DailyCap - 1 + MaxCost * Cardinality(Runs)
    BY <1>1, <1>2, <1>3, <1>4
  <2>2. \A d \in 0 .. MaxDay : d > day' => usage'[d] = 0
    BY <1>1 DEF BudgetInvs, FlightIsCovered
  <2> QED BY <2>1, <2>2 DEF FlightIsCovered
<1>6. OvershootIsBounded'
  BY <1>1 DEF BudgetInvs, OvershootIsBounded
<1> QED BY <1>5, <1>6 DEF BudgetInvs

-----------------------------------------------------------------------------
(* The actions *)

\* The invariant, in the three parts that the steps keep.
LEMMA Parts == IInv <=> TypeOK /\ EffectsInv /\ RunInvs /\ BudgetInvs
BY DEF IInv, RunInvs, BudgetInvs

\* The types that remain when run and the effects are known to keep theirs.
LEMMA TypesRemain ==
  ASSUME TypeOK, EffectsInv', run' \in [Runs -> RunState],
         status' \in [Trajectories -> Status], steps' \in [Trajectories -> Seq(StepRecord)],
         usage' \in [0 .. MaxDay -> Nat], day' = day, spent' \in Nat, resumes' \in Nat
  PROVE  TypeOK'
BY DEF TypeOK, EffectsInv

\* A status of a trajectory is replaced.
LEMMA StatusTyped ==
  ASSUME TypeOK, NEW t, NEW s \in Status, SetStatus(t, s)
  PROVE  status' \in [Trajectories -> Status]
BY DEF TypeOK, SetStatus

\* A run goes on at another place, with nothing charged.
LEMMA MoveKeeps ==
  ASSUME IInv, NEW r \in Runs, NEW pc \in RunPC, Go(r, pc), run[r].at # "idle",
         UNCHANGED <<ledger, downstream, usage, day>>, faults' \in Nat,
         \/ caller' = caller /\ caller[r].at = "idle"
         \/ caller' = [caller EXCEPT ![r] = IdleCaller],
         pc \notin {"working", "recording"},
         pc = "consuming" => run[r].at = "recording",
         pc = "completing" => Unresolved(run[r].t) = {},
         status' \in [Trajectories -> Status], steps' \in [Trajectories -> Seq(StepRecord)],
         spent' \in Nat, resumes' \in Nat
  PROVE  IInv'
<1>1. TypeOK /\ EffectsInv /\ RunInvs /\ BudgetInvs
  BY Parts
<1>2. RunInvs' /\ EffectsInv'
  BY <1>1, GoKeeps
<1>3. /\ run' \in [Runs -> RunState] /\ run'[r].at = pc
      /\ \A q \in Runs \ {r} : run'[q] = run[q]
  BY <1>1, RunGoes
<1>4. TypeOK'
  BY <1>1, <1>2, <1>3, TypesRemain DEF TypeOK
<1>5. InFlight' \subseteq InFlight
  BY <1>3 DEF InFlight
<1>6. BudgetInvs'
  BY <1>1, <1>5, BudgetUntouched
<1>7. (TypeOK /\ EffectsInv /\ RunInvs /\ BudgetInvs)' => IInv'
  BY DEF IInv, RunInvs, BudgetInvs
<1> QED BY <1>2, <1>4, <1>6, <1>7

LEMMA ResumeOpenKeeps ==
  ASSUME IInv, NEW r \in Runs, ResumeOpen(r)
  PROVE  IInv'
<1>1. TypeOK /\ caller[r].at = "idle" /\ run[r].at = "opening" /\ faults \in Nat
  BY CallerIdle DEF IInv, ResumeOpen, RunAt, TypeOK, EffectsTypeOK
<1>2. /\ UNCHANGED <<ledger, downstream, caller, usage, day, spent, steps, resumes>>
      /\ SetStatus(run[r].t, "running") /\ faults' \in Nat
  BY <1>1 DEF ResumeOpen, budget, Faulty
<1>3. status' \in [Trajectories -> Status]
  BY <1>1, <1>2, StatusTyped DEF Status
<1>4. PICK pc \in {"checking", "idle"} : Go(r, pc)
  BY DEF ResumeOpen
<1> QED BY <1>1, <1>2, <1>3, <1>4, MoveKeeps DEF RunPC, TypeOK

\* The steps that end a run, or go on with it after an access.
LEMMA EndKeeps ==
  ASSUME IInv, NEW r \in Runs, NEW pc \in {"completing", "doubting", "pausing", "failing"},
         NEW final \in Status, EndWith(r, pc, final), final = "completed" => pc = "completing"
  PROVE  IInv'
<1>1. /\ TypeOK /\ EffectsInv /\ RunInvs /\ BudgetInvs
      /\ caller[r].at = "idle" /\ run[r].at = pc /\ faults \in Nat
  BY CallerIdle, Parts DEF IInv, EndWith, RunAt, TypeOK, EffectsTypeOK
<1>2. /\ UNCHANGED <<ledger, downstream, caller, usage, day, spent, steps, resumes>>
      /\ SetStatus(run[r].t, final) /\ faults' \in Nat
  BY <1>1 DEF EndWith, budget, Faulty
<1>3. status' \in [Trajectories -> Status]
  BY <1>1, <1>2, StatusTyped
<1>4. CASE Close(r, final)
  <2> DEFINE x == [run[r] EXCEPT !.at = "idle", !.final = final]
  <2>1. run[r] \in RunState /\ run \in [Runs -> RunState]
    BY <1>1 DEF TypeOK
  <2>2. /\ x \in RunState /\ x.at = "idle" /\ x.final = final
        /\ x.t = run[r].t /\ x.fired = run[r].fired
    BY <2>1 DEF RunState, RunPC
  <2>3. run' = [run EXCEPT ![r] = x]
    BY <1>4, <2>1 DEF Close
  <2> HIDE DEF x
  <2>4. /\ run' \in [Runs -> RunState] /\ run'[r] = x
        /\ \A q \in Runs \ {r} : run'[q] = run[q]
    BY <1>1, <2>2, <2>3, RunBecomes
  <2>5. EffectsInv'
    BY <1>1, <1>2, ElsewhereKeeps
  <2>6. RunInOrder(r)
    <3>1. ASSUME NEW i \in run[r].fired
          PROVE  LET s == ledger[EffectOf(run[r].t, i)].status IN
                 s \in Outcome /\ (final = "completed" => s \in {"confirmed", "failed"})
      BY <1>1 DEF RunInvs, FiredAreResolved, RunAt
    <3>2. run[r].t \in Trajectories
      BY <1>1 DEF RunInvs, RunsInOrder
    <3> QED BY <1>1, <1>2, <2>2, <2>4, <3>1, <3>2 DEF RunInOrder
  <2>7. RunInvs'
    BY <1>1, <1>2, <2>4, <2>6, RunInvsAfterStep
  <2>8. TypeOK'
    BY <1>1, <1>2, <1>3, <2>4, <2>5, TypesRemain DEF TypeOK
  <2>9. InFlight' \subseteq InFlight
    BY <2>2, <2>4 DEF InFlight
  <2>10. BudgetInvs'
    BY <1>1, <1>2, <2>9, BudgetUntouched
  <2> QED BY <2>5, <2>7, <2>8, <2>10 DEF IInv, RunInvs, BudgetInvs
<1>5. CASE Go(r, "idle") \/ Go(r, "failing")
  BY <1>1, <1>2, <1>3, <1>5, MoveKeeps DEF RunPC, TypeOK
<1> QED BY <1>4, <1>5 DEF EndWith

\* A run takes up a trajectory: what it had in hand is forgotten.
LEMMA BeginKeepsRun ==
  ASSUME IInv, NEW r \in Runs, NEW x \in RunState, run' = [run EXCEPT ![r] = x],
         run[r].at = "idle", x.at \in {"checking", "opening"}, x.t \in Trajectories,
         x.fired = {}, x.final = "running",
         UNCHANGED <<ledger, downstream, caller, budget, steps>>, faults' \in Nat,
         status' \in [Trajectories -> Status], resumes' \in Nat
  PROVE  IInv'
<1>1. /\ TypeOK /\ EffectsInv /\ RunInvs /\ BudgetInvs /\ caller[r].at = "idle"
  BY CallerIdle, Parts DEF IInv
<1>2. /\ run' \in [Runs -> RunState] /\ run'[r] = x
      /\ \A q \in Runs \ {r} : run'[q] = run[q]
  BY <1>1, RunBecomes
<1>3. EffectsInv'
  BY <1>1, ElsewhereKeeps
<1>4. RunInOrder(r)
  BY <1>1, <1>2 DEF RunInOrder
<1>5. RunInvs'
  BY <1>1, <1>2, <1>4, RunInvsAfterStep
<1>6. TypeOK'
  BY <1>1, <1>2, <1>3, TypesRemain DEF TypeOK, budget
<1>7. BudgetInvs'
  <2>1. InFlight' \subseteq InFlight
    BY <1>2 DEF InFlight
  <2> QED BY <1>1, <2>1, BudgetUntouched DEF budget
<1> QED BY <1>3, <1>5, <1>6, <1>7 DEF IInv, RunInvs, BudgetInvs

LEMMA ExecuteKeeps ==
  ASSUME IInv, NEW r \in Runs, NEW t \in Trajectories, Execute(r, t)
  PROVE  IInv'
<1>1. TypeOK /\ EffectsInv /\ RunInvs /\ BudgetInvs /\ faults \in Nat
  BY Parts DEF IInv, TypeOK, EffectsTypeOK
<1>2. /\ UNCHANGED <<ledger, downstream, caller, budget, steps, resumes>>
      /\ SetStatus(t, "running") /\ run[r].at = "idle"
      /\ UNCHANGED faults \/ Faulty
  BY DEF Execute, RunAt
<1>. faults' \in Nat
  BY <1>1, <1>2 DEF Faulty
<1>3. status' \in [Trajectories -> Status] /\ resumes' \in Nat
  BY <1>1, <1>2, StatusTyped DEF Status, TypeOK
<1>4. ASSUME NEW g \in GovernedSteps,
             run' = [run EXCEPT ![r] = [IdleRun EXCEPT !.at = "checking", !.t = t,
                                                       !.cap = Tightened(g, StepCap)]]
      PROVE  IInv'
  <2> DEFINE x == [IdleRun EXCEPT !.at = "checking", !.t = t, !.cap = Tightened(g, StepCap)]
  <2>1. Tightened(g, StepCap) \in Nat
    BY RunsAssumption, TightenedTyped
  <2>2. /\ x \in RunState /\ x.at = "checking" /\ x.t = t /\ x.fired = {}
        /\ x.final = "running"
    BY <2>1 DEF IdleRun, RunState, RunPC, Status
  <2>3. run' = [run EXCEPT ![r] = x]
    BY <1>4
  <2> HIDE DEF x
  <2> QED BY <1>1, <1>2, <1>3, <2>2, <2>3, BeginKeepsRun
<1>5. CASE run' = run
  <2>1. EffectsInv'
    BY <1>1, <1>2, ElsewhereKeeps
  <2>2. TypeOK'
    BY <1>1, <1>2, <1>3, <1>5, <2>1, TypesRemain DEF TypeOK, budget
  <2>3. RunInvs'
    BY <1>1, <1>2, <1>5
       DEF RunInvs, CallersAreRuns, RunsInOrder, FiredAreResolved, CompletedRunsAreResolved,
           RunAt, CallerAt
  <2>4. BudgetInvs'
    <3>1. InFlight' \subseteq InFlight
      BY <1>5 DEF InFlight
    <3> QED BY <1>1, <1>2, <3>1, BudgetUntouched DEF budget
  <2> QED BY <2>1, <2>2, <2>3, <2>4 DEF IInv, RunInvs, BudgetInvs
<1> QED BY <1>4, <1>5 DEF Execute

LEMMA ResumeReadKeeps ==
  ASSUME IInv, NEW r \in Runs, NEW t \in Trajectories, ResumeRead(r, t)
  PROVE  IInv'
<1> DEFINE x == [IdleRun EXCEPT !.at = "opening", !.t = t, !.count = Len(steps[t]),
                                !.cap = StepCap]
<1>1. /\ TypeOK /\ run[r].at = "idle" /\ run' = [run EXCEPT ![r] = x]
      /\ UNCHANGED <<ledger, downstream, caller, budget, steps, status, faults>>
      /\ resumes' = resumes + 1
  BY DEF IInv, ResumeRead, RunAt, trajectories
<1>2. Len(steps[t]) \in Nat
  BY <1>1 DEF TypeOK
<1>3. /\ x \in RunState /\ x.at = "opening" /\ x.t = t /\ x.fired = {} /\ x.final = "running"
  BY <1>2, RunsAssumption DEF IdleRun, RunState, RunPC, Status
<1>4. faults' \in Nat /\ status' \in [Trajectories -> Status] /\ resumes' \in Nat
  BY <1>1 DEF TypeOK, EffectsTypeOK
<1> HIDE DEF x
<1> QED BY <1>1, <1>3, <1>4, BeginKeepsRun

LEMMA CheckBudgetKeeps ==
  ASSUME IInv, NEW r \in Runs, CheckBudget(r)
  PROVE  IInv'
<1>1. /\ TypeOK /\ EffectsInv /\ RunInvs /\ BudgetInvs
      /\ caller[r].at = "idle" /\ run[r].at = "checking" /\ faults \in Nat
      /\ usage[day] \in Nat
  BY CallerIdle, Parts DEF IInv, CheckBudget, RunAt, TypeOK, EffectsTypeOK
<1>2. UNCHANGED <<ledger, downstream, caller, faults, usage, day, spent, status, steps, resumes>>
  BY DEF CheckBudget, budget, trajectories, effectVars, downstream
<1>3. CASE Go(r, "pausing")
  BY <1>1, <1>2, <1>3, MoveKeeps DEF RunPC, TypeOK
<1>4. CASE Go(r, "working") /\ usage[day] <= DailyCap - 1
  <2>1. /\ run' \in [Runs -> RunState]
    BY <1>1, <1>4, RunGoes DEF RunPC
  <2>2. RunInvs' /\ EffectsInv'
    BY <1>1, <1>2, <1>4, GoKeeps DEF RunPC
  <2>3. TypeOK'
    BY <1>1, <1>2, <2>1, <2>2, TypesRemain DEF TypeOK
  <2>4. BudgetInvs'
    <3>1. InFlight' \subseteq Runs
      BY DEF InFlight
    <3> QED BY <1>1, <1>2, <1>4, <3>1, BudgetChecked
  <2> QED BY <2>2, <2>3, <2>4 DEF IInv, RunInvs, BudgetInvs
<1>5. ASSUME NEW g \in GovernedCaps, ~(usage[day] >= Tightened(g, DailyCap))
      PROVE  usage[day] <= DailyCap - 1
  <2>1. g \in Nat /\ DailyCap \in Nat
    BY RunsAssumption
  <2>2. Tightened(g, DailyCap) \in Nat /\ Tightened(g, DailyCap) <= DailyCap
    BY <2>1, TightenedTyped
  <2> QED BY <1>1, <1>5, <2>1, <2>2
<1>6. PICK g \in GovernedCaps :
        Go(r, IF usage[day] >= Tightened(g, DailyCap) THEN "pausing" ELSE "working")
  BY DEF CheckBudget
<1> QED BY <1>3, <1>4, <1>5, <1>6

\* A step of the run's effect, and what begins it.
LEMMA WorkEffectKeeps ==
  ASSUME IInv, NEW r \in Runs, WorkEffect(r) \/ FireStep(r)
  PROVE  IInv'
<1>1. /\ TypeOK /\ EffectsInv /\ RunInvs /\ BudgetInvs
      /\ run[r].at = "working" /\ faults \in Nat
      /\ r \in Callers
  BY Parts, RunsAssumption DEF IInv, WorkEffect, FireStep, RunAt, TypeOK, EffectsTypeOK
<1>2. UNCHANGED <<usage, day, spent, status, steps, resumes, run>>
  BY DEF WorkEffect, FireStep, budget, trajectories
<1>3. run[r].t \in Trajectories
  BY <1>1 DEF RunInvs, RunsInOrder
<1>4. /\ EffectsInv'
      /\ \A q \in Runs \ {r} : caller'[q] = caller[q]
      /\ caller'[r].at # "idle" =>
            run[r].count \in Effectful /\ caller'[r].effect = EffectOf(run[r].t, run[r].count)
      /\ \A f \in Effects : ledger[f].status \in Outcome => ledger'[f].status = ledger[f].status
  <2>1. CASE FireStep(r)
    <3>1. EffectStep(r)
      BY <2>1 DEF FireStep
    <3>2. /\ EffectsInv'
          /\ \A q \in Callers \ {r} : caller'[q] = caller[q]
          /\ caller'[r].effect = caller[r].effect /\ caller[r].at # "idle"
          /\ \A f \in Effects : ledger[f].status \in Outcome
                                  => ledger'[f].status = ledger[f].status
      BY <1>1, <3>1, EffectStepKeeps
    <3>3. run[r].count \in Effectful /\ caller[r].effect = EffectOf(run[r].t, run[r].count)
      BY <1>1, <3>2 DEF RunInvs, CallersAreRuns, CallerAt
    <3> QED BY <3>2, <3>3, RunsAssumption
  <2>2. CASE WorkEffect(r)
    <3> DEFINE e == EffectOf(run[r].t, run[r].count)
    <3>1. /\ run[r].count \in Effectful /\ Perform(r, e)
          /\ UNCHANGED <<ledger, downstream, faults>>
      BY <2>2 DEF WorkEffect
    <3>2. e \in Effects
      BY <1>3, <3>1, EffectOfStep
    <3>3. EffectsInv' /\ \A q \in Callers \ {r} : caller'[q] = caller[q]
      BY <1>1, <3>1, <3>2, RestartKeeps
    <3>4. caller'[r].effect = e
      BY <1>1, <3>1 DEF Perform, IdleCaller, EffectsInv, EffectsTypeOK
    <3> QED BY <3>1, <3>3, <3>4, RunsAssumption
  <2> QED BY <2>1, <2>2
<1>5. RunInOrder(r)
  <2>1. ASSUME NEW i \in run[r].fired
        PROVE  ledger'[EffectOf(run[r].t, i)].status \in Outcome
    <3>1. EffectOf(run[r].t, i) \in Effects
      BY <1>1, <1>3, RunTyped, EffectOfStep
    <3> QED BY <1>1, <1>4, <3>1 DEF RunInvs, FiredAreResolved
  <2>2. run[r].final = "running"
    BY <1>1 DEF RunInvs, RunsInOrder
  <2> QED BY <1>1, <1>2, <1>3, <1>4, <2>1, <2>2 DEF RunInOrder
<1>6. RunInvs'
  BY <1>1, <1>2, <1>4, <1>5, RunInvsAfterStep
<1>7. TypeOK'
  BY <1>1, <1>2, <1>4, TypesRemain DEF TypeOK
<1>8. BudgetInvs'
  <2>1. InFlight' \subseteq InFlight
    BY <1>2 DEF InFlight
  <2> QED BY <1>1, <1>2, <2>1, BudgetUntouched
<1> QED BY <1>4, <1>6, <1>7, <1>8 DEF IInv, RunInvs, BudgetInvs

\* The record of a run that has worked, and of one that was charged.
Worked(q, x, f) == [q EXCEPT !.at = "recording", !.cost = x, !.fired = f]
Charged(q, pc, n) == [q EXCEPT !.at = pc, !.count = n, !.cost = 0]

LEMMA RecordWorked ==
  ASSUME NEW q \in RunState, NEW x \in Nat, NEW f \in SUBSET Effectful
  PROVE  LET y == Worked(q, x, f) IN
         /\ y \in RunState /\ y.at = "recording" /\ y.cost = x /\ y.fired = f
         /\ y.t = q.t /\ y.final = q.final
BY DEF RunState, RunPC, Worked

LEMMA RecordCharged ==
  ASSUME NEW q \in RunState, NEW pc \in RunPC, NEW n \in Nat
  PROVE  LET y == Charged(q, pc, n) IN
         /\ y \in RunState /\ y.at = pc /\ y.t = q.t /\ y.fired = q.fired
         /\ y.final = q.final
BY DEF RunState, Charged

\* The workflow's step ends: its effect was told of, and so is settled.
LEMMA WorkEndsKeeps ==
  ASSUME IInv, NEW r \in Runs, WorkEnds(r)
  PROVE  IInv'
<1> DEFINE n == run[r].count
           fired == run[r].fired \cup ({n} \cap Effectful)
<1>1. /\ TypeOK /\ EffectsInv /\ RunInvs /\ BudgetInvs /\ r \in Callers
      /\ run[r].at = "working"
      /\ n \in Effectful => caller[r].at = "told"
  BY Parts, RunsAssumption DEF WorkEnds, RunAt, CallerAt
<1>2. /\ UNCHANGED <<ledger, downstream, faults, usage, day, status, steps, resumes>>
      /\ caller' = [caller EXCEPT ![r] = IdleCaller]
  BY DEF WorkEnds, trajectories
<1>3. PICK x \in Costs :
        /\ spent' = spent + x
        /\ run' = [run EXCEPT ![r] = [@ EXCEPT !.at = "recording", !.cost = x,
                                              !.fired = fired]]
  BY DEF WorkEnds
<1> DEFINE y == Worked(run[r], x, fired)
<1>4. run[r] \in RunState /\ run \in [Runs -> RunState] /\ fired \subseteq Effectful /\ x \in Nat
  BY <1>1, RunTyped, RunsAssumption DEF TypeOK
<1>5. /\ y \in RunState /\ y.at = "recording" /\ y.cost = x /\ y.fired = fired
      /\ y.t = run[r].t /\ y.final = run[r].final
  <2> HIDE DEF fired
  <2> QED BY <1>4, RecordWorked
<1>6. run' = [run EXCEPT ![r] = y]
  BY <1>3, <1>4 DEF Worked
<1> HIDE DEF y
<1>7. /\ run' \in [Runs -> RunState] /\ run'[r] = y
      /\ \A q \in Runs \ {r} : run'[q] = run[q]
  <2> HIDE DEF fired
  <2> QED BY <1>1, <1>5, <1>6, RunBecomes
<1>8. faults' \in Nat
  BY <1>1, <1>2 DEF TypeOK, EffectsTypeOK
<1>9. EffectsInv' /\ \A q \in Runs \ {r} : caller'[q] = caller[q]
  BY <1>1, <1>2, <1>8, RestartKeeps, RunsAssumption
<1>10. caller'[r].at = "idle"
  BY <1>1, <1>2 DEF EffectsInv, EffectsTypeOK, IdleCaller
<1>11. run[r].t \in Trajectories /\ run[r].final = "running"
  BY <1>1 DEF RunInvs, RunsInOrder
<1>12. ASSUME NEW i \in fired
       PROVE  ledger[EffectOf(run[r].t, i)].status \in Outcome
  <2>1. CASE i \in run[r].fired
    BY <1>1, <2>1 DEF RunInvs, FiredAreResolved
  <2>2. CASE i = n /\ n \in Effectful
    <3>1. caller[r].at = "told" /\ caller[r].effect = EffectOf(run[r].t, n)
      BY <1>1, <2>2 DEF RunInvs, CallersAreRuns, CallerAt
    <3> QED BY <1>1, <2>2, <3>1 DEF EffectsInv, CallersKnow, CallerAt
  <2> QED BY <2>1, <2>2
<1>13. RunInOrder(r)
  <2> HIDE DEF fired
  <2> QED BY <1>2, <1>5, <1>7, <1>10, <1>11, <1>12 DEF RunInOrder
<1>14. RunInvs'
  BY <1>1, <1>2, <1>7, <1>9, <1>13, RunInvsAfterStep
<1>15. TypeOK'
  <2>1. spent' \in Nat
    BY <1>1, <1>3, <1>4 DEF TypeOK
  <2> QED BY <1>1, <1>2, <1>7, <1>9, <2>1, TypesRemain DEF TypeOK
<1>16. BudgetInvs'
  <2>1. InFlight' \subseteq InFlight
    BY <1>1, <1>7 DEF InFlight
  <2> QED BY <1>1, <1>2, <2>1, BudgetUntouched
<1> QED BY <1>9, <1>14, <1>15, <1>16 DEF IInv, RunInvs, BudgetInvs

LEMMA WorkThrowsKeeps ==
  ASSUME IInv, NEW r \in Runs, WorkThrows(r)
  PROVE  IInv'
<1>1. TypeOK /\ run[r].at = "working" /\ faults \in Nat
  BY DEF IInv, WorkThrows, RunAt, TypeOK, EffectsTypeOK
<1>2. /\ UNCHANGED <<ledger, downstream, usage, day, spent, status, steps, resumes>>
      /\ caller' = [caller EXCEPT ![r] = IdleCaller]
      /\ faults' \in Nat /\ Go(r, "failing")
  BY <1>1 DEF WorkThrows, budget, trajectories, Faulty
<1> QED BY <1>1, <1>2, MoveKeeps DEF RunPC, TypeOK

LEMMA RecordStepKeeps ==
  ASSUME IInv, NEW r \in Runs, RecordStep(r)
  PROVE  IInv'
<1> DEFINE t == run[r].t
           s == [index |-> run[r].count, cost |-> run[r].cost]
<1>1. TypeOK /\ run[r].at = "recording" /\ caller[r].at = "idle" /\ faults \in Nat
  BY CallerIdle DEF IInv, RecordStep, RunAt, TypeOK, EffectsTypeOK
<1>2. /\ UNCHANGED <<ledger, downstream, caller, usage, day, spent, status, resumes>>
      /\ faults' \in Nat
      /\ Go(r, "consuming") \/ Go(r, "failing")
      /\ steps' = [steps EXCEPT ![t] = Append(@, s)]
  BY <1>1 DEF RecordStep, ThenGo, budget, Faulty
<1>3. steps' \in [Trajectories -> Seq(StepRecord)]
  <2>1. s \in StepRecord
    BY <1>1, RunTyped DEF IInv, RunsInOrder, StepRecord
  <2>2. t \in Trajectories
    BY <1>1 DEF IInv, RunsInOrder
  <2>3. steps \in [Trajectories -> Seq(StepRecord)] /\ Append(steps[t], s) \in Seq(StepRecord)
    BY <1>1, <2>1, <2>2 DEF TypeOK
  <2> HIDE DEF s, t
  <2> QED BY <1>2, <2>2, <2>3
<1> QED BY <1>1, <1>2, <1>3, MoveKeeps DEF RunPC, TypeOK

\* The charge.
LEMMA ConsumeKeeps ==
  ASSUME IInv, NEW r \in Runs, Consume(r)
  PROVE  IInv'
<1>1. /\ TypeOK /\ EffectsInv /\ RunInvs /\ BudgetInvs
      /\ run[r].at = "consuming" /\ caller[r].at = "idle" /\ faults \in Nat
      /\ run[r] \in RunState
  BY CallerIdle, Parts, RunTyped DEF IInv, Consume, RunAt, TypeOK, EffectsTypeOK
<1>2. /\ UNCHANGED <<ledger, downstream, caller, day, spent, status, steps, resumes>>
      /\ UNCHANGED faults \/ Faulty
      /\ usage' = [usage EXCEPT ![day] = @ + run[r].cost]
  BY DEF Consume, trajectories
<1>. faults' \in Nat
  BY <1>1, <1>2 DEF Faulty
<1>3. PICK pc \in {"settling", "checking", "failing"}, n \in {run[r].count, run[r].count + 1} :
        run' = [run EXCEPT ![r] = [@ EXCEPT !.at = pc, !.count = n, !.cost = 0]]
  <2>1. ASSUME run' = [run EXCEPT ![r] = [@ EXCEPT !.at = "failing", !.cost = 0]]
        PROVE  run' = [run EXCEPT ![r] = [@ EXCEPT !.at = "failing", !.count = run[r].count,
                                                   !.cost = 0]]
    BY <1>1, <2>1 DEF TypeOK, RunState
  <2> QED BY <2>1 DEF Consume
<1> DEFINE x == Charged(run[r], pc, n)
<1>4. /\ x \in RunState /\ x.at = pc /\ x.t = run[r].t /\ x.fired = run[r].fired
      /\ x.final = run[r].final
  <2>1. pc \in RunPC /\ n \in Nat
    BY <1>1, RunTyped DEF RunPC
  <2> QED BY <1>1, <2>1, RecordCharged
<1>5. run' = [run EXCEPT ![r] = x]
  BY <1>1, <1>3 DEF TypeOK, Charged
<1> HIDE DEF x
<1>6. /\ run' \in [Runs -> RunState] /\ run'[r] = x
      /\ \A q \in Runs \ {r} : run'[q] = run[q]
  BY <1>1, <1>4, <1>5, RunBecomes
<1>7. EffectsInv'
  BY <1>1, <1>2, ElsewhereKeeps
<1>8. run[r].t \in Trajectories /\ run[r].final = "running" /\ run[r].cost \in Costs
  BY <1>1 DEF RunInvs, RunsInOrder
<1>9. RunInOrder(r)
  <2>1. \A i \in run[r].fired : ledger[EffectOf(run[r].t, i)].status \in Outcome
    BY <1>1 DEF RunInvs, FiredAreResolved
  <2> QED BY <1>1, <1>2, <1>4, <1>6, <1>8, <2>1 DEF RunInOrder
<1>10. RunInvs'
  BY <1>1, <1>2, <1>6, <1>9, RunInvsAfterStep
<1>11. usage' \in [0 .. MaxDay -> Nat]
  <2>1. run[r].cost \in Nat /\ usage \in [0 .. MaxDay -> Nat] /\ day \in 0 .. MaxDay
    BY <1>1, RunTyped DEF TypeOK
  <2>2. usage[day] + run[r].cost \in Nat
    BY <2>1
  <2> QED BY <1>2, <2>1, <2>2
<1>12. TypeOK'
  BY <1>1, <1>2, <1>6, <1>7, <1>11, TypesRemain DEF TypeOK
<1>13. BudgetInvs'
  <2>1. r \in InFlight /\ InFlight' = InFlight \ {r}
    BY <1>1, <1>4, <1>6 DEF InFlight
  <2> QED BY <1>1, <1>2, <1>8, <2>1, BudgetCharged
<1> QED BY <1>7, <1>10, <1>12, <1>13 DEF IInv, RunInvs, BudgetInvs

LEMMA SettleKeeps ==
  ASSUME IInv, NEW r \in Runs, Settle(r)
  PROVE  IInv'
<1>1. TypeOK /\ run[r].at = "settling" /\ caller[r].at = "idle" /\ faults \in Nat
  BY CallerIdle DEF IInv, Settle, RunAt, TypeOK, EffectsTypeOK
<1>2. UNCHANGED <<ledger, downstream, caller, faults, usage, day, spent, status, steps, resumes>>
  BY DEF Settle, budget, trajectories, effectVars, downstream
<1>3. PICK pc \in {"completing", "doubting"} :
        Go(r, pc) /\ (pc = "completing" => Unresolved(run[r].t) = {})
  BY DEF Settle
<1> QED BY <1>1, <1>2, <1>3, MoveKeeps DEF RunPC, TypeOK

\* A run fails, or its process dies.
LEMMA FailingKeeps ==
  ASSUME IInv, NEW r \in Runs, RunFails(r) \/ Crash(r)
  PROVE  IInv'
<1>1. TypeOK /\ run[r].at # "idle" /\ faults \in Nat
  BY DEF IInv, RunFails, Crash, TypeOK, EffectsTypeOK
<1>2. /\ UNCHANGED <<ledger, downstream, usage, day, spent, status, steps, resumes>>
      /\ \/ caller' = caller /\ caller[r].at = "idle"
         \/ caller' = [caller EXCEPT ![r] = IdleCaller]
      /\ faults' \in Nat
  BY <1>1, CallerIdle DEF RunFails, Crash, IInv, budget, trajectories, Faulty
<1>3. PICK pc \in {"idle", "failing"} : Go(r, pc)
  BY DEF RunFails, Crash
<1> QED BY <1>1, <1>2, <1>3, MoveKeeps DEF RunPC, TypeOK

-----------------------------------------------------------------------------
(* What is spent and what is charged *)

\* What each run has in hand and is not charged for yet, and by how much that is less
\* than the dearest step.
Hand == [r \in Runs |-> IF r \in Uncharged THEN run[r].cost ELSE 0]
Slack == [r \in Runs |-> IF r \in Uncharged THEN MaxCost - run[r].cost ELSE 0]

\* F gives each set of runs the sum of h over it.
Sums(F, h) ==
  /\ F \in [SUBSET Runs -> Nat]
  /\ F[{}] = 0
  /\ \A S \in SUBSET Runs : \A r \in Runs \ S : F[S \cup {r}] = F[S] + h[r]

\* s gives each day the sum of u up to it.
RunsUp(s, u) ==
  /\ s \in [0 .. MaxDay -> Nat]
  /\ s[0] = u[0]
  /\ \A d \in 1 .. MaxDay : s[d] = s[d - 1] + u[d]

\* What faults, and the hands, may hold of the spent.
Cover == MaxCost * (faults + Cardinality(Uncharged))

\* What is used and in hand was spent; what was spent is used, in hand, or was in the
\* hand of a run that a fault ended.
Accounted(s, H, L) ==
  /\ RunsUp(s, usage) /\ Sums(H, Hand) /\ Sums(L, Slack)
  /\ \A d \in 0 .. MaxDay : s[d] + H[Runs] <= spent
  /\ spent + L[Runs] <= s[MaxDay] + Cover

SpendIsAccounted == \E s, H, L : Accounted(s, H, L)

\* One run's share of a sum is replaced.
LEMMA SumMoves ==
  ASSUME NEW F, NEW h \in [Runs -> Nat], Sums(F, h), NEW r \in Runs, NEW x \in Nat
  PROVE  \E G : /\ Sums(G, [h EXCEPT ![r] = x])
                /\ G[Runs] + h[r] = F[Runs] + x
<1> DEFINE G == [S \in SUBSET Runs |-> IF r \in S THEN F[S \ {r}] + x ELSE F[S]]
           g == [h EXCEPT ![r] = x]
<1>1. /\ F \in [SUBSET Runs -> Nat] /\ F[{}] = 0
      /\ \A S \in SUBSET Runs : \A q \in Runs \ S : F[S \cup {q}] = F[S] + h[q]
  BY DEF Sums
<1>2. G \in [SUBSET Runs -> Nat]
  <2>1. \A S \in SUBSET Runs : S \ {r} \in SUBSET Runs
    OBVIOUS
  <2> QED BY <1>1, <2>1
<1>3. /\ \A S \in SUBSET Runs : r \in S => G[S] = F[S \ {r}] + x
      /\ \A S \in SUBSET Runs : r \notin S => G[S] = F[S]
  OBVIOUS
<1>4. g[r] = x /\ \A q \in Runs \ {r} : g[q] = h[q]
  OBVIOUS
<1> HIDE DEF G, g
<1>5. G[{}] = 0
  BY <1>1, <1>3
<1>6. ASSUME NEW S \in SUBSET Runs, NEW q \in Runs \ S
      PROVE  G[S \cup {q}] = G[S] + g[q]
  <2>1. CASE q = r
    <3>1. (S \cup {r}) \ {r} = S /\ r \in S \cup {r} /\ S \cup {r} \in SUBSET Runs /\ r \notin S
      BY <1>6, <2>1
    <3> QED BY <1>3, <1>4, <2>1, <3>1
  <2>2. CASE q # r /\ r \in S
    <3>1. /\ (S \cup {q}) \ {r} = (S \ {r}) \cup {q} /\ S \cup {q} \in SUBSET Runs
          /\ r \in S \cup {q} /\ S \ {r} \in SUBSET Runs /\ q \in Runs \ (S \ {r})
      BY <1>6, <2>2
    <3>2. G[S \cup {q}] = F[(S \ {r}) \cup {q}] + x /\ G[S] = F[S \ {r}] + x
      BY <1>3, <2>2, <3>1
    <3>3. F[(S \ {r}) \cup {q}] = F[S \ {r}] + h[q]
      BY <1>1, <3>1
    <3>4. F[S \ {r}] \in Nat /\ h[q] \in Nat
      BY <1>1, <3>1
    <3> QED BY <1>4, <2>2, <3>2, <3>3, <3>4
  <2>3. CASE q # r /\ r \notin S
    <3>1. S \cup {q} \in SUBSET Runs /\ r \notin S \cup {q}
      BY <1>6, <2>3
    <3> QED BY <1>1, <1>3, <1>4, <2>3, <3>1
  <2> QED BY <2>1, <2>2, <2>3
<1>7. Sums(G, g)
  BY <1>2, <1>5, <1>6 DEF Sums
<1>8. G[Runs] + h[r] = F[Runs] + x
  <2>1. (Runs \ {r}) \cup {r} = Runs /\ Runs \ {r} \in SUBSET Runs /\ Runs \in SUBSET Runs
    OBVIOUS
  <2>2. F[Runs] = F[Runs \ {r}] + h[r] /\ G[Runs] = F[Runs \ {r}] + x
    BY <1>1, <1>3, <2>1
  <2>3. F[Runs \ {r}] \in Nat /\ h[r] \in Nat
    BY <1>1, <2>1
  <2> QED BY <2>2, <2>3
<1> QED BY <1>7, <1>8 DEF g

\* A day's use grows.
LEMMA RunningTotalMoves ==
  ASSUME NEW s, NEW u \in [0 .. MaxDay -> Nat], RunsUp(s, u), NEW e \in 0 .. MaxDay, NEW c \in Nat
  PROVE  \E t : /\ RunsUp(t, [u EXCEPT ![e] = @ + c])
                /\ \A d \in 0 .. MaxDay : s[d] <= t[d] /\ t[d] <= s[d] + c
                /\ t[MaxDay] = s[MaxDay] + c
<1> DEFINE t == [d \in 0 .. MaxDay |-> IF e <= d THEN s[d] + c ELSE s[d]]
           v == [u EXCEPT ![e] = @ + c]
<1>1. /\ s \in [0 .. MaxDay -> Nat] /\ s[0] = u[0] /\ MaxDay \in Nat
      /\ \A d \in 1 .. MaxDay : s[d] = s[d - 1] + u[d]
  BY RunsAssumption DEF RunsUp
<1>2. v[e] = u[e] + c /\ \A d \in 0 .. MaxDay : d # e => v[d] = u[d]
  OBVIOUS
<1>3. \A d \in 0 .. MaxDay : t[d] = IF e <= d THEN s[d] + c ELSE s[d]
  OBVIOUS
<1>4. t \in [0 .. MaxDay -> Nat]
  BY <1>1
<1> HIDE DEF t, v
<1>5. t[0] = v[0]
  BY <1>1, <1>2, <1>3
<1>6. ASSUME NEW d \in 1 .. MaxDay
      PROVE  t[d] = t[d - 1] + v[d]
  <2>1. d \in 0 .. MaxDay /\ d - 1 \in 0 .. MaxDay /\ s[d] = s[d - 1] + u[d]
    BY <1>1, <1>6
  <2>2. s[d - 1] \in Nat /\ u[d] \in Nat /\ s[d] \in Nat
    BY <1>1, <2>1
  <2>3. CASE e <= d - 1
    <3>1. t[d] = s[d] + c /\ t[d - 1] = s[d - 1] + c /\ v[d] = u[d]
      BY <1>2, <1>3, <2>1, <2>3
    <3> QED BY <2>1, <2>2, <3>1
  <2>4. CASE e = d
    <3>1. t[d] = s[d] + c /\ t[d - 1] = s[d - 1] /\ v[d] = u[d] + c
      BY <1>2, <1>3, <2>1, <2>4
    <3> QED BY <2>1, <2>2, <3>1
  <2>5. CASE e > d
    <3>1. t[d] = s[d] /\ t[d - 1] = s[d - 1] /\ v[d] = u[d]
      BY <1>2, <1>3, <2>1, <2>5
    <3> QED BY <2>1, <3>1
  <2> QED BY <2>1, <2>3, <2>4, <2>5
<1>7. RunsUp(t, v)
  BY <1>4, <1>5, <1>6 DEF RunsUp
<1>8. ASSUME NEW d \in 0 .. MaxDay PROVE s[d] <= t[d] /\ t[d] <= s[d] + c
  <2>1. s[d] \in Nat /\ t[d] = IF e <= d THEN s[d] + c ELSE s[d]
    BY <1>1, <1>3
  <2> QED BY <2>1
<1>9. t[MaxDay] = s[MaxDay] + c
  BY <1>1, <1>3
<1> QED BY <1>7, <1>8, <1>9 DEF v

\* The hands are typed, and the runs that have something in hand are finitely many.
LEMMA HandsTyped ==
  ASSUME TypeOK, RunsInOrder
  PROVE  /\ Hand \in [Runs -> Nat] /\ Slack \in [Runs -> Nat]
         /\ \A r \in Uncharged : Hand[r] = run[r].cost /\ Slack[r] = MaxCost - run[r].cost
         /\ \A r \in Runs \ Uncharged : Hand[r] = 0 /\ Slack[r] = 0
         /\ IsFiniteSet(Uncharged) /\ Cardinality(Uncharged) \in Nat
         /\ faults \in Nat /\ spent \in Nat /\ usage \in [0 .. MaxDay -> Nat]
         /\ day \in 0 .. MaxDay
<1>1. \A r \in Uncharged : run[r].cost \in Nat /\ MaxCost - run[r].cost \in Nat
  BY MaxCostIsMax DEF RunsInOrder, Uncharged
<1>2. Hand \in [Runs -> Nat] /\ Slack \in [Runs -> Nat]
  BY <1>1 DEF Hand, Slack
<1>3. /\ \A r \in Uncharged : Hand[r] = run[r].cost /\ Slack[r] = MaxCost - run[r].cost
      /\ \A r \in Runs \ Uncharged : Hand[r] = 0 /\ Slack[r] = 0
  BY DEF Hand, Slack, Uncharged
<1>4. IsFiniteSet(Uncharged) /\ Cardinality(Uncharged) \in Nat
  BY RunsAssumption, FS_Subset, FS_CardinalityType DEF Uncharged
<1> QED BY <1>2, <1>3, <1>4 DEF TypeOK, EffectsTypeOK

\* A step of one run that spends x and charges c, and has y in hand afterwards.
LEMMA AccountMoves ==
  ASSUME TypeOK, RunsInOrder, SpendIsAccounted, NEW r \in Runs,
         NEW x \in Nat, NEW c \in Nat, NEW y \in Nat, NEW z \in Nat,
         Hand' = [Hand EXCEPT ![r] = y], Slack' = [Slack EXCEPT ![r] = z],
         spent' = spent + x, usage' = [usage EXCEPT ![day] = @ + c],
         c + y <= x + Hand[r],
         Cover \in Nat, Cover' \in Nat, x + z + Cover <= c + Slack[r] + Cover'
  PROVE  SpendIsAccounted'
<1>1. PICK s, H, L : Accounted(s, H, L)
  BY DEF SpendIsAccounted
<1>2. /\ Hand \in [Runs -> Nat] /\ Slack \in [Runs -> Nat] /\ spent \in Nat
      /\ usage \in [0 .. MaxDay -> Nat] /\ day \in 0 .. MaxDay /\ MaxDay \in Nat
  BY HandsTyped, RunsAssumption
<1>3. /\ RunsUp(s, usage) /\ Sums(H, Hand) /\ Sums(L, Slack)
      /\ \A d \in 0 .. MaxDay : s[d] + H[Runs] <= spent
      /\ spent + L[Runs] <= s[MaxDay] + Cover
  BY <1>1 DEF Accounted
<1>4. PICK t : /\ RunsUp(t, [usage EXCEPT ![day] = @ + c])
               /\ \A d \in 0 .. MaxDay : s[d] <= t[d] /\ t[d] <= s[d] + c
               /\ t[MaxDay] = s[MaxDay] + c
  BY <1>2, <1>3, RunningTotalMoves
<1>5. PICK G : Sums(G, [Hand EXCEPT ![r] = y]) /\ G[Runs] + Hand[r] = H[Runs] + y
  BY <1>2, <1>3, SumMoves
<1>6. PICK K : Sums(K, [Slack EXCEPT ![r] = z]) /\ K[Runs] + Slack[r] = L[Runs] + z
  BY <1>2, <1>3, SumMoves
<1>7. /\ H[Runs] \in Nat /\ G[Runs] \in Nat /\ L[Runs] \in Nat /\ K[Runs] \in Nat
      /\ Hand[r] \in Nat /\ Slack[r] \in Nat
      /\ s \in [0 .. MaxDay -> Nat] /\ t \in [0 .. MaxDay -> Nat]
  BY <1>2, <1>3, <1>4, <1>5, <1>6 DEF Sums, RunsUp
<1>8. PICK h \in Nat, l \in Nat, m \in Nat, n \in Nat, p \in Nat, q \in Nat, w \in Nat,
           a \in Nat, b \in Nat :
        /\ h = Hand[r] /\ l = Slack[r] /\ m = H[Runs] /\ n = G[Runs]
        /\ p = L[Runs] /\ q = K[Runs] /\ w = spent /\ a = Cover /\ b = Cover'
  BY <1>2, <1>7
<1>9. c + y <= x + h /\ n + h = m + y /\ x + z + a <= c + l + b /\ q + l = p + z
  BY <1>5, <1>6, <1>8
<1>10. ASSUME NEW d \in 0 .. MaxDay PROVE t[d] + G[Runs] <= spent'
  <2>1. PICK e \in Nat, f \in Nat : e = s[d] /\ f = t[d]
    BY <1>7
  <2>2. f <= e + c /\ e + m <= w
    BY <1>3, <1>4, <1>8, <2>1
  <2>3. f + n <= w + x
    BY ONLY <1>9, <2>2
  <2>4. t[d] + G[Runs] = f + n /\ spent' = w + x
    BY <1>8, <2>1
  <2> QED BY ONLY <2>3, <2>4
<1>11. spent' + K[Runs] <= t[MaxDay] + Cover'
  <2>1. PICK e \in Nat, f \in Nat : e = s[MaxDay] /\ f = t[MaxDay]
    <3>1. MaxDay \in 0 .. MaxDay
      BY <1>2
    <3>2. s[MaxDay] \in Nat /\ t[MaxDay] \in Nat
      BY ONLY <1>7, <3>1
    <3> QED BY ONLY <3>2
  <2>2. f = e + c /\ w + p <= e + a
    BY <1>3, <1>4, <1>8, <2>1
  <2>3. w + x + q <= f + b
    BY ONLY <1>9, <2>2
  <2> QED BY <1>8, <2>1, <2>3
<1>12. Accounted(t, G, K)'
  BY <1>4, <1>5, <1>6, <1>10, <1>11 DEF Accounted
<1> QED BY <1>12 DEF SpendIsAccounted

\* A run that leaves what it has in hand alone, or loses it to a fault.
LEMMA AccountStays ==
  ASSUME TypeOK, RunsInOrder, SpendIsAccounted, NEW r \in Runs,
         \A q \in Runs \ {r} : run'[q] = run[q],
         UNCHANGED <<usage, spent>>, faults' \in Nat, faults <= faults',
         r \in Uncharged => \/ r \in Uncharged' /\ run'[r].cost = run[r].cost
                            \/ r \notin Uncharged' /\ faults' = faults + 1,
         r \notin Uncharged => r \notin Uncharged'
  PROVE  SpendIsAccounted'
<1>1. /\ Hand \in [Runs -> Nat] /\ Slack \in [Runs -> Nat]
      /\ IsFiniteSet(Uncharged) /\ Cardinality(Uncharged) \in Nat
      /\ faults \in Nat /\ spent \in Nat /\ usage \in [0 .. MaxDay -> Nat] /\ day \in 0 .. MaxDay
      /\ MaxCost \in Nat
  BY HandsTyped, MaxCostIsMax
<1>2. \A q \in Runs \ {r} : /\ q \in Uncharged' <=> q \in Uncharged
                            /\ run'[q].cost = run[q].cost
  BY DEF Uncharged
<1>3. Uncharged \subseteq Runs /\ Uncharged' \subseteq Runs
  BY DEF Uncharged
<1>4. spent' = spent + 0 /\ usage' = [usage EXCEPT ![day] = @ + 0]
  BY <1>1
<1>5. CASE r \in Uncharged <=> r \in Uncharged'
  <2>1. Uncharged' = Uncharged
    <3>1. \A q \in Runs : q \in Uncharged' <=> q \in Uncharged
      BY <1>2, <1>5
    <3> QED BY <1>3, <3>1
  <2>2. Hand' = Hand /\ Slack' = Slack
    BY <1>2, <1>5, <2>1 DEF Hand, Slack
  <2>3. Hand' = [Hand EXCEPT ![r] = Hand[r]] /\ Slack' = [Slack EXCEPT ![r] = Slack[r]]
    BY <1>1, <2>2
  <2>4. Cover \in Nat /\ Cover' \in Nat /\ Cover <= Cover'
    <3>1. PICK f \in Nat, g \in Nat : f = faults + Cardinality(Uncharged)
                                      /\ g = faults' + Cardinality(Uncharged) /\ f <= g
      BY <1>1
    <3>2. MaxCost * f \in Nat /\ MaxCost * g \in Nat /\ MaxCost * f <= MaxCost * g
      BY <1>1, <3>1, Products
    <3> QED BY <2>1, <3>1, <3>2 DEF Cover
  <2>5. 0 \in Nat /\ Hand[r] \in Nat /\ Slack[r] \in Nat
    BY <1>1
  <2>6. 0 + Hand[r] <= 0 + Hand[r] /\ 0 + Slack[r] + Cover <= 0 + Slack[r] + Cover'
    BY <2>4, <2>5
  <2> QED BY <1>4, <2>3, <2>4, <2>5, <2>6, AccountMoves
<1>6. CASE r \in Uncharged /\ r \notin Uncharged'
  <2>1. Uncharged' = Uncharged \ {r} /\ faults' = faults + 1
    BY <1>2, <1>3, <1>6
  <2>2. Hand' = [Hand EXCEPT ![r] = 0] /\ Slack' = [Slack EXCEPT ![r] = 0]
    BY <1>2, <1>6, <2>1 DEF Hand, Slack
  <2>3. Cover \in Nat /\ Cover' = Cover
    <3>1. Cardinality(Uncharged') = Cardinality(Uncharged) - 1
      BY <1>1, <1>6, <2>1, FS_RemoveElement
    <3>2. faults' + Cardinality(Uncharged') = faults + Cardinality(Uncharged)
      BY <1>1, <2>1, <3>1
    <3>3. faults + Cardinality(Uncharged) \in Nat
      BY <1>1
    <3> QED BY <1>1, <3>2, <3>3, Products DEF Cover
  <2>4. 0 \in Nat /\ Hand[r] \in Nat /\ Slack[r] \in Nat
    BY <1>1
  <2>5. 0 + 0 <= 0 + Hand[r] /\ 0 + 0 + Cover <= 0 + Slack[r] + Cover'
    BY <2>3, <2>4
  <2> QED BY <1>4, <2>2, <2>3, <2>4, <2>5, AccountMoves
<1> QED BY <1>5, <1>6

\* Nothing moves that an account is of, but perhaps faults happen.
LEMMA AccountAside ==
  ASSUME TypeOK, RunsInOrder, SpendIsAccounted, UNCHANGED <<run, usage, spent>>,
         faults' \in Nat, faults <= faults'
  PROVE  SpendIsAccounted'
<1>1. CASE Runs = {}
  <2>1. Hand' = Hand /\ Slack' = Slack /\ Uncharged' = Uncharged
    BY <1>1 DEF Hand, Slack, Uncharged
  <2>2. PICK s, H, L : Accounted(s, H, L)
    BY DEF SpendIsAccounted
  <2>3. Cover \in Nat /\ Cover' \in Nat /\ Cover <= Cover'
    <3>1. PICK f \in Nat, g \in Nat : f = faults + Cardinality(Uncharged)
                                      /\ g = faults' + Cardinality(Uncharged) /\ f <= g
      BY HandsTyped
    <3>2. MaxCost * f \in Nat /\ MaxCost * g \in Nat /\ MaxCost * f <= MaxCost * g
      BY <3>1, Products, MaxCostIsMax
    <3> QED BY <2>1, <3>1, <3>2 DEF Cover
  <2>4. s[MaxDay] \in Nat /\ L[Runs] \in Nat /\ spent \in Nat
    BY <2>2, HandsTyped, RunsAssumption DEF Accounted, RunsUp, Sums
  <2>5. Accounted(s, H, L)'
    BY <2>1, <2>2, <2>3, <2>4 DEF Accounted
  <2> QED BY <2>5 DEF SpendIsAccounted
<1>2. ASSUME NEW r \in Runs PROVE SpendIsAccounted'
  <2>1. Uncharged' = Uncharged
    BY DEF Uncharged
  <2> QED BY <2>1, AccountStays
<1> QED BY <1>1, <1>2

\* The step of a run ends: it spends, and has its cost in hand.
LEMMA WorkIsAccounted ==
  ASSUME IInv, SpendIsAccounted, NEW r \in Runs, WorkEnds(r)
  PROVE  SpendIsAccounted'
<1>1. TypeOK /\ RunsInOrder /\ run[r].at = "working" /\ run[r] \in RunState
  BY RunTyped DEF IInv, WorkEnds, RunAt
<1>2. /\ Hand \in [Runs -> Nat] /\ Slack \in [Runs -> Nat]
      /\ \A q \in Runs \ Uncharged : Hand[q] = 0 /\ Slack[q] = 0
      /\ IsFiniteSet(Uncharged) /\ Cardinality(Uncharged) \in Nat
      /\ faults \in Nat /\ usage \in [0 .. MaxDay -> Nat] /\ day \in 0 .. MaxDay
  BY <1>1, HandsTyped
<1>3. PICK x \in Costs :
        /\ spent' = spent + x
        /\ run' = [run EXCEPT ![r] = Worked(@, x, run[r].fired \cup ({run[r].count} \cap Effectful))]
  BY DEF WorkEnds, Worked
<1>4. /\ x \in Nat /\ x <= MaxCost /\ MaxCost \in Nat /\ MaxCost - x \in Nat
  BY MaxCostIsMax
<1>5. /\ run'[r].at = "recording" /\ run'[r].cost = x
      /\ \A q \in Runs \ {r} : run'[q] = run[q]
  BY <1>1, <1>3 DEF TypeOK, RunState, Worked
<1>6. /\ Uncharged' = Uncharged \cup {r} /\ r \notin Uncharged
  BY <1>1, <1>5 DEF Uncharged
<1>7. Hand' = [Hand EXCEPT ![r] = x] /\ Slack' = [Slack EXCEPT ![r] = MaxCost - x]
  BY <1>5, <1>6 DEF Hand, Slack
<1>8. usage' = [usage EXCEPT ![day] = @ + 0] /\ faults' = faults
  BY <1>2 DEF WorkEnds
<1>9. /\ Cover \in Nat /\ Cover' = Cover + MaxCost
  <2>1. Cardinality(Uncharged') = Cardinality(Uncharged) + 1
    BY <1>2, <1>6, FS_AddElement
  <2>2. PICK f \in Nat : f = faults + Cardinality(Uncharged)
    BY <1>2
  <2>3. faults' + Cardinality(Uncharged') = f + 1
    BY <1>2, <1>8, <2>1, <2>2
  <2>4. MaxCost * f \in Nat /\ MaxCost * (f + 1) = MaxCost * f + MaxCost
    BY <1>4, <2>2, Products
  <2> QED BY <2>2, <2>3, <2>4 DEF Cover
<1>10. Hand[r] = 0 /\ Slack[r] = 0
  BY <1>2, <1>6
<1>11. 0 + x <= x + Hand[r] /\ x + (MaxCost - x) + Cover <= 0 + Slack[r] + Cover'
  BY <1>4, <1>9, <1>10
<1>12. Cover' \in Nat
  BY <1>4, <1>9
<1> QED BY <1>1, <1>3, <1>4, <1>7, <1>8, <1>9, <1>11, <1>12, AccountMoves

\* The charge: what was in hand is used.
LEMMA ChargeIsAccounted ==
  ASSUME IInv, SpendIsAccounted, NEW r \in Runs, Consume(r)
  PROVE  SpendIsAccounted'
<1>1. TypeOK /\ RunsInOrder /\ run[r].at = "consuming" /\ run[r] \in RunState
  BY RunTyped DEF IInv, Consume, RunAt
<1>2. /\ Hand \in [Runs -> Nat] /\ Slack \in [Runs -> Nat]
      /\ \A q \in Uncharged : Hand[q] = run[q].cost /\ Slack[q] = MaxCost - run[q].cost
      /\ IsFiniteSet(Uncharged) /\ Cardinality(Uncharged) \in Nat
      /\ faults \in Nat /\ spent \in Nat /\ MaxCost \in Nat
  BY <1>1, HandsTyped, MaxCostIsMax
<1>3. PICK c \in Nat : c = run[r].cost
  BY <1>1, RunTyped
<1>4. /\ spent' = spent /\ usage' = [usage EXCEPT ![day] = @ + c]
      /\ faults' = faults \/ faults' = faults + 1
  BY <1>3 DEF Consume, Faulty
<1>5. /\ run'[r].at \in {"settling", "checking", "failing"}
      /\ \A q \in Runs \ {r} : run'[q] = run[q]
  BY <1>1 DEF Consume, TypeOK, RunState
<1>6. /\ Uncharged' = Uncharged \ {r} /\ r \in Uncharged
  BY <1>1, <1>5 DEF Uncharged
<1>7. Hand' = [Hand EXCEPT ![r] = 0] /\ Slack' = [Slack EXCEPT ![r] = 0]
  BY <1>5, <1>6 DEF Hand, Slack
<1>8. Cover \in Nat /\ Cover' \in Nat /\ Cover <= MaxCost + Cover'
  <2>1. Cardinality(Uncharged') = Cardinality(Uncharged) - 1 /\ Cardinality(Uncharged') \in Nat
    BY <1>2, <1>6, FS_RemoveElement, FS_CardinalityType
  <2>2. PICK f \in Nat, g \in Nat : f = faults + Cardinality(Uncharged')
                                    /\ g = faults' + Cardinality(Uncharged') /\ f <= g
    BY <1>2, <1>4, <2>1
  <2>3. faults + Cardinality(Uncharged) = f + 1
    BY <1>2, <2>1, <2>2
  <2>4. /\ MaxCost * f \in Nat /\ MaxCost * (f + 1) = MaxCost * f + MaxCost
        /\ MaxCost * g \in Nat /\ MaxCost * f <= MaxCost * g
    BY <1>2, <2>2, Products
  <2>5. Cover = MaxCost * f + MaxCost /\ Cover' = MaxCost * g
    BY <2>2, <2>3, <2>4 DEF Cover
  <2> QED BY <1>2, <2>4, <2>5
<1>9. Hand[r] = c /\ Slack[r] = MaxCost - c /\ c + Slack[r] = MaxCost
  BY <1>2, <1>3, <1>6
<1>10. c + 0 <= 0 + Hand[r] /\ 0 + 0 + Cover <= c + Slack[r] + Cover'
  BY <1>2, <1>3, <1>8, <1>9
<1>11. spent' = spent + 0 /\ 0 \in Nat
  BY <1>2, <1>4
<1> QED BY <1>1, <1>3, <1>4, <1>7, <1>8, <1>10, <1>11, AccountMoves

\* An effect's step has at most one fault.
LEMMA EffectStepFaults ==
  ASSUME NEW c \in Callers, EffectStep(c)
  PROVE  faults' = faults \/ faults' = faults + 1
<1>1. CASE Look(c) \/ BeginRead(c) \/ BeginInsert(c) \/ BeginAgain(c) \/ Reconcile(c)
  BY <1>1 DEF Look, BeginRead, BeginInsert, BeginAgain, Reconcile, Faulty
<1>2. CASE CallDownstream(c) \/ ConfirmFails(c) \/ AccessFails(c) \/ ResolveUnanswered(c)
  BY <1>2 DEF CallDownstream, ConfirmFails, AccessFails, ResolveUnanswered, Faulty
<1>3. CASE Confirm(c) \/ Refuse(c) \/ Unsure(c) \/ Find(c) \/ Doubt(c)
  BY <1>3 DEF Confirm, Refuse, Unsure, Find, Doubt, ResolveAndTell
<1> QED BY <1>1, <1>2, <1>3 DEF EffectStep

\* Where a run has something in hand.
InHand == {"recording", "consuming"}

\* A run that had nothing in hand, and has nothing in hand.
LEMMA EmptyHanded ==
  ASSUME IInv, SpendIsAccounted, NEW r \in Runs, UNCHANGED <<usage, spent>>,
         faults' = faults \/ faults' = faults + 1,
         \A q \in Runs \ {r} : run'[q] = run[q],
         run[r].at \notin InHand, run'[r].at \notin InHand
  PROVE  SpendIsAccounted'
<1>1. TypeOK /\ RunsInOrder /\ faults \in Nat
  BY DEF IInv, TypeOK, EffectsTypeOK
<1>2. faults' \in Nat /\ faults <= faults'
  BY <1>1
<1>3. r \notin Uncharged /\ r \notin Uncharged'
  BY DEF Uncharged, InHand
<1> QED BY <1>1, <1>2, <1>3, AccountStays

\* A run that moves on without an answer to give or after a fault.
LEMMA MovedIsAccounted ==
  ASSUME IInv, SpendIsAccounted, NEW r \in Runs, NEW pc \in RunPC, Go(r, pc),
         UNCHANGED <<usage, spent>>, pc \in InHand => run[r].at \in InHand,
         \/ faults' = faults /\ (run[r].at \in InHand => pc \in InHand)
         \/ faults' = faults + 1
  PROVE  SpendIsAccounted'
<1>1. TypeOK /\ RunsInOrder /\ faults \in Nat
  BY DEF IInv, TypeOK, EffectsTypeOK
<1>2. faults' \in Nat /\ faults <= faults'
  BY <1>1
<1>3. /\ run'[r].at = pc /\ run'[r].cost = run[r].cost
      /\ \A q \in Runs \ {r} : run'[q] = run[q]
  BY <1>1, RunGoes
<1>4. /\ r \in Uncharged <=> run[r].at \in InHand
      /\ r \in Uncharged' <=> pc \in InHand
  BY <1>3 DEF Uncharged, InHand
<1> QED BY <1>1, <1>2, <1>3, <1>4, AccountStays

\* What every step leaves accounted.
LEMMA StepIsAccounted ==
  ASSUME IInv, SpendIsAccounted, NEW r \in Runs, RunAction(r)
  PROVE  SpendIsAccounted'
<1>1. TypeOK /\ RunsInOrder /\ faults \in Nat /\ run \in [Runs -> RunState]
  BY DEF IInv, TypeOK, EffectsTypeOK
<1>2. ASSUME NEW t \in Trajectories, Execute(r, t) \/ ResumeRead(r, t) PROVE SpendIsAccounted'
  <2>1. /\ UNCHANGED <<usage, spent>> /\ run[r].at = "idle"
        /\ faults' = faults \/ faults' = faults + 1
    BY <1>2 DEF Execute, ResumeRead, budget, RunAt, Faulty
  <2>2. /\ run'[r].at \in {"idle", "checking", "opening"}
        /\ \A q \in Runs \ {r} : run'[q] = run[q]
    BY <1>1, <1>2, <2>1 DEF Execute, ResumeRead, IdleRun
  <2> QED BY <2>1, <2>2, EmptyHanded DEF InHand
<1>3. CASE ResumeOpen(r) \/ CheckBudget(r) \/ WorkThrows(r) \/ Settle(r)
  <2>1. /\ UNCHANGED <<usage, spent>> /\ run[r].at \notin InHand
        /\ faults' = faults \/ faults' = faults + 1
    BY <1>3 DEF ResumeOpen, CheckBudget, WorkThrows, Settle, budget, effectVars, RunAt, Faulty, InHand
  <2>2. PICK pc \in {"checking", "idle", "pausing", "working", "failing", "completing", "doubting"} :
          Go(r, pc)
    BY <1>3 DEF ResumeOpen, CheckBudget, WorkThrows, Settle
  <2> QED BY <2>1, <2>2, MovedIsAccounted DEF RunPC, InHand
<1>4. ASSUME WorkEffect(r) \/ FireStep(r) PROVE SpendIsAccounted'
  <2>1. UNCHANGED <<run, usage, spent>>
    BY <1>4 DEF WorkEffect, FireStep, budget
  <2>2. faults' = faults \/ faults' = faults + 1
    BY <1>4, EffectStepFaults, RunsAssumption DEF WorkEffect, FireStep
  <2>3. faults' \in Nat /\ faults <= faults'
    BY <1>1, <2>2
  <2> QED BY <1>1, <2>1, <2>3, AccountAside
<1>5. CASE RecordStep(r)
  <2>1. UNCHANGED <<usage, spent>> /\ run[r].at = "recording"
    BY <1>5 DEF RecordStep, budget, RunAt
  <2>2. \/ Go(r, "consuming") /\ faults' = faults
        \/ Go(r, "failing") /\ faults' = faults + 1
    BY <1>5 DEF RecordStep, ThenGo, Faulty
  <2> QED BY <2>1, <2>2, MovedIsAccounted DEF RunPC, InHand
<1>6. ASSUME NEW pc \in {"completing", "doubting", "pausing", "failing"}, NEW final,
             EndWith(r, pc, final)
      PROVE  SpendIsAccounted'
  <2>1. /\ UNCHANGED <<usage, spent>> /\ run[r].at \notin InHand
        /\ faults' = faults \/ faults' = faults + 1
    BY <1>6 DEF EndWith, budget, RunAt, Faulty, InHand
  <2>2. /\ run'[r].at \in {"idle", "failing"}
        /\ \A q \in Runs \ {r} : run'[q] = run[q]
    BY <1>1, <1>6 DEF EndWith, Close, Go, RunState
  <2> QED BY <2>1, <2>2, EmptyHanded DEF InHand
<1>7. CASE RunFails(r) \/ Crash(r)
  <2>1. UNCHANGED <<usage, spent>> /\ faults' = faults + 1
    BY <1>7 DEF RunFails, Crash, budget, Faulty
  <2>2. PICK pc \in {"idle", "failing"} : Go(r, pc)
    BY <1>7 DEF RunFails, Crash
  <2> QED BY <2>1, <2>2, MovedIsAccounted DEF RunPC, InHand
<1>8. CASE Complete(r) \/ DoubtRun(r) \/ Pause(r) \/ Fail(r)
  BY <1>6, <1>8 DEF Complete, DoubtRun, Pause, Fail
<1> QED BY <1>2, <1>3, <1>4, <1>5, <1>7, <1>8, WorkIsAccounted, ChargeIsAccounted DEF RunAction

\* Nothing is spent at the start.
LEMMA AccountBegins ==
  ASSUME Init
  PROVE  SpendIsAccounted
<1> DEFINE F == [S \in SUBSET Runs |-> 0]
           s == [d \in 0 .. MaxDay |-> 0]
<1>1. Uncharged = {}
  BY DEF Init, IdleRun, Uncharged
<1>2. Hand = [r \in Runs |-> 0] /\ Slack = [r \in Runs |-> 0]
  BY <1>1 DEF Hand, Slack
<1>3. Sums(F, Hand) /\ Sums(F, Slack)
  BY <1>2 DEF Sums
<1>4. MaxDay \in Nat /\ usage = [d \in 0 .. MaxDay |-> 0] /\ spent = 0 /\ faults = 0
  BY RunsAssumption DEF Init, EffectsInit
<1>5. RunsUp(s, usage)
  BY <1>4 DEF RunsUp
<1>6. Cover = 0
  <2>1. faults + Cardinality(Uncharged) = 0
    BY <1>1, <1>4, FS_EmptySet
  <2> QED BY <2>1, MaxCostIsMax DEF Cover
<1>7. F[Runs] = 0 /\ \A d \in 0 .. MaxDay : s[d] = 0
  OBVIOUS
<1> HIDE DEF F, s
<1>8. Accounted(s, F, F)
  BY <1>3, <1>4, <1>5, <1>6, <1>7 DEF Accounted
<1> QED BY <1>8 DEF SpendIsAccounted

-----------------------------------------------------------------------------
(* Theorems *)

LEMMA Begins ==
  ASSUME Init
  PROVE  IInv
<1>1. EffectsInv
  BY EffectsBegin DEF Init
<1>2. /\ run = [r \in Runs |-> IdleRun] /\ caller = [c \in Runs |-> IdleCaller]
      /\ usage = [d \in 0 .. MaxDay |-> 0] /\ day = 0
  BY RunsAssumption DEF Init, EffectsInit
<1>3. TypeOK
  <2>1. IdleRun \in RunState
    BY DEF IdleRun, RunState, RunPC, Status
  <2>2. EffectsTypeOK
    BY <1>1 DEF EffectsInv
  <2> QED BY <1>2, <2>1, <2>2, RunsAssumption DEF Init, TypeOK, Status
<1>4. RunInvs
  BY <1>2 DEF RunInvs, CallersAreRuns, RunsInOrder, FiredAreResolved,
              CompletedRunsAreResolved, RunAt, CallerAt, IdleRun, IdleCaller
<1>5. BudgetInvs
  <2>1. /\ MaxCost * Cardinality(InFlight) <= MaxCost * Cardinality(Runs)
        /\ MaxCost * Cardinality(InFlight) \in Nat /\ MaxCost * Cardinality(Runs) \in Nat
        /\ DailyCap \in Nat /\ DailyCap >= 1 /\ MaxDay \in Nat
    BY MaxCostIsMax, Products, FlightSize, RunsAssumption
  <2> QED BY <1>2, <2>1 DEF BudgetInvs, FlightIsCovered, OvershootIsBounded
<1> QED BY <1>1, <1>3, <1>4, <1>5 DEF IInv, RunInvs, BudgetInvs

LEMMA Steps ==
  ASSUME IInv, [Next]_vars
  PROVE  IInv'
<1>1. ASSUME NEW r \in Runs, RunAction(r)
      PROVE  IInv'
  <2>1. CASE \E t \in Trajectories : Execute(r, t) \/ ResumeRead(r, t)
    BY <2>1, ExecuteKeeps, ResumeReadKeeps
  <2>2. CASE ResumeOpen(r) \/ CheckBudget(r)
    BY <2>2, ResumeOpenKeeps, CheckBudgetKeeps
  <2>3. CASE WorkEffect(r) \/ FireStep(r)
    BY <2>3, WorkEffectKeeps
  <2>4. CASE WorkEnds(r) \/ WorkThrows(r)
    BY <2>4, WorkEndsKeeps, WorkThrowsKeeps
  <2>5. CASE RecordStep(r) \/ Consume(r) \/ Settle(r)
    BY <2>5, RecordStepKeeps, ConsumeKeeps, SettleKeeps
  <2>6. CASE Complete(r) \/ DoubtRun(r) \/ Pause(r) \/ Fail(r)
    <3>1. {"completed", "indeterminate", "paused", "failed"} \subseteq Status
      BY DEF Status
    <3>2. CASE EndWith(r, "completing", "completed")
      BY <3>1, <3>2, EndKeeps
    <3>3. CASE EndWith(r, "doubting", "indeterminate")
      BY <3>1, <3>3, EndKeeps
    <3>4. CASE EndWith(r, "pausing", "paused")
      BY <3>1, <3>4, EndKeeps
    <3>5. CASE EndWith(r, "failing", "failed")
      BY <3>1, <3>5, EndKeeps
    <3> QED BY <2>6, <3>2, <3>3, <3>4, <3>5 DEF Complete, DoubtRun, Pause, Fail
  <2>7. CASE RunFails(r) \/ Crash(r)
    BY <2>7, FailingKeeps
  <2> QED BY <1>1, <2>1, <2>2, <2>3, <2>4, <2>5, <2>6, <2>7 DEF RunAction
<1>2. ASSUME UNCHANGED <<ledger, caller, run, usage, day, status, steps, spent, resumes>>,
             EffectsInv'
      PROVE  IInv'
  <2>1. /\ TypeOK /\ RunInvs /\ BudgetInvs
    BY Parts
  <2>2. TypeOK'
    BY <1>2, <2>1, TypesRemain DEF TypeOK
  <2>3. RunInvs'
    BY <1>2, <2>1
       DEF RunInvs, CallersAreRuns, RunsInOrder, FiredAreResolved, CompletedRunsAreResolved,
           RunAt, CallerAt
  <2>4. BudgetInvs'
    <3>1. InFlight' \subseteq InFlight
      BY <1>2 DEF InFlight
    <3> QED BY <1>2, <2>1, <3>1, BudgetUntouched
  <2> QED BY <1>2, <2>2, <2>3, <2>4 DEF IInv, RunInvs, BudgetInvs
<1>3. ASSUME NEW e \in Effects, LandLate(e)
      PROVE  IInv'
  <2>1. Land(e) /\ UNCHANGED <<ledger, caller, run, usage, day, status, steps, spent, resumes>>
    BY <1>3 DEF LandLate, Land, trajectories, budget
  <2>2. EffectsInv'
    BY <2>1, LandKeeps DEF IInv
  <2> QED BY <1>2, <2>1, <2>2
<1>4. CASE NextDay
  <2>1. TypeOK /\ EffectsInv /\ RunInvs /\ BudgetInvs /\ faults \in Nat
    BY Parts DEF TypeOK, EffectsTypeOK, IInv
  <2>2. /\ UNCHANGED <<ledger, downstream, caller, faults, run, usage, status, steps, spent, resumes>>
        /\ day' \in 0 .. MaxDay
    BY <1>4, <2>1, RunsAssumption DEF NextDay, trajectories, effectVars, downstream, TypeOK
  <2>3. EffectsInv'
    BY <2>1, <2>2, ElsewhereKeeps
  <2>4. TypeOK'
    BY <2>1, <2>2, <2>3 DEF TypeOK, EffectsInv
  <2>5. RunInvs'
    BY <2>1, <2>2
       DEF RunInvs, CallersAreRuns, RunsInOrder, FiredAreResolved, CompletedRunsAreResolved,
           RunAt, CallerAt
  <2>6. BudgetInvs'
    BY <1>4, <2>1, NextDayKeeps
  <2> QED BY <2>3, <2>4, <2>5, <2>6 DEF IInv, RunInvs, BudgetInvs
<1>5. CASE UNCHANGED vars
  <2>1. /\ UNCHANGED <<ledger, caller, run, usage, day, status, steps, spent, resumes>>
        /\ UNCHANGED <<ledger, downstream, caller, faults>>
    BY <1>5 DEF vars, downstream
  <2>2. EffectsInv'
    BY <2>1, ElsewhereKeeps DEF IInv, TypeOK, EffectsTypeOK
  <2> QED BY <1>2, <2>1, <2>2
<1> QED BY <1>1, <1>3, <1>4, <1>5 DEF Next

\* The inductive invariant of the runs, their budget and their effects.
THEOREM Inductive == Spec => []IInv
BY Begins, Steps, PTL DEF Spec

\* However operations are retried, an effect is called for at most once.
THEOREM FiresOnce == Spec => []FiresAtMostOnce
<1>1. IInv => FiresAtMostOnce
  BY DEF IInv, EffectsInv
<1> QED BY <1>1, Inductive, PTL

\* What is said to have happened did.
THEOREM NothingInvented == Spec => []ConfirmedHappened
<1>1. IInv => ConfirmedHappened
  BY DEF IInv, EffectsInv
<1> QED BY <1>1, Inductive, PTL

\* A day's use exceeds the agent's cap by at most one step of every run.
THEOREM BoundedOvershoot == Spec => []OvershootIsBounded
<1>1. IInv => OvershootIsBounded
  BY DEF IInv
<1> QED BY <1>1, Inductive, PTL

\* A run that reported completed leaves no effect of its own in doubt.
THEOREM CompletedResolved == Spec => []CompletedRunsAreResolved
<1>1. IInv => CompletedRunsAreResolved
  BY DEF IInv
<1> QED BY <1>1, Inductive, PTL

\* The budget never charges more than was spent, and misses at most the step of a run
\* that has not been charged yet or that a fault ended (AgentRuns).
THEOREM SpendCounted == Spec => []SpendIsCounted
<1>1. ASSUME IInv, SpendIsAccounted, [Next]_vars
      PROVE  SpendIsAccounted'
  <2>1. TypeOK /\ RunsInOrder /\ faults \in Nat
    BY <1>1 DEF IInv, TypeOK, EffectsTypeOK
  <2>2. ASSUME UNCHANGED <<run, usage, spent, faults>> PROVE SpendIsAccounted'
    BY <1>1, <2>1, <2>2, AccountAside
  <2>3. ASSUME NEW e \in Effects, LandLate(e) PROVE SpendIsAccounted'
    BY <2>2, <2>3 DEF LandLate, Land, budget
  <2>4. CASE NextDay
    BY <2>2, <2>4 DEF NextDay, effectVars
  <2>5. CASE UNCHANGED vars
    BY <2>2, <2>5 DEF vars
  <2> QED BY <1>1, <2>3, <2>4, <2>5, StepIsAccounted DEF Next
<1>2. ASSUME IInv, SpendIsAccounted
      PROVE  SpendIsCounted
  <2>1. PICK s, H, L : Accounted(s, H, L)
    BY <1>2 DEF SpendIsAccounted
  <2>2. /\ s \in [0 .. MaxDay -> Nat] /\ s[0] = usage[0]
        /\ \A d \in 1 .. MaxDay : s[d] = s[d - 1] + usage[d]
        /\ \A d \in 0 .. MaxDay : s[d] + H[Runs] <= spent
        /\ spent + L[Runs] <= s[MaxDay] + Cover
        /\ H[Runs] \in Nat /\ L[Runs] \in Nat
    BY <2>1 DEF Accounted, RunsUp, Sums
  <2>3. spent \in Nat /\ Cover \in Nat /\ MaxDay \in Nat
    <3>1. TypeOK /\ RunsInOrder
      BY <1>2 DEF IInv
    <3>2. spent \in Nat /\ faults + Cardinality(Uncharged) \in Nat
      BY <3>1, HandsTyped
    <3> QED BY <3>2, MaxCostIsMax, Products, RunsAssumption DEF Cover
  <2>4. ASSUME NEW d \in 0 .. MaxDay PROVE s[d] \in 0 .. spent
    <3>1. s[d] \in Nat /\ s[d] + H[Runs] <= spent
      BY <2>2, <2>4
    <3> QED BY <2>2, <2>3, <3>1
  <2>5. s \in Totals
    BY <2>2, <2>4 DEF Totals
  <2>6. spent <= s[MaxDay] + Cover
    <3>1. s[MaxDay] \in Nat
      BY <2>2, <2>3
    <3> QED BY <2>2, <2>3, <3>1
  <2> QED BY <2>5, <2>6 DEF SpendIsCounted, Cover
<1> QED BY <1>1, <1>2, AccountBegins, Inductive, PTL DEF Spec
=============================================================================
