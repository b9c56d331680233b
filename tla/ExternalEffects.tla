--------------------------- MODULE ExternalEffects ---------------------------
(***************************************************************************)
(* Calls to the outside, fired through the effect ledger.                  *)
(*                                                                         *)
(*   platform/agents/external-effect.ts        performExternalEffect       *)
(*   platform/agents/supabase-effect-ledger.ts begin, resolve, get         *)
(*   platform/agents/effect-ledger.ts          the same in memory          *)
(*                                                                         *)
(* An effect is named by its operation and its key within the operation;   *)
(* any number of callers may perform the same effect at the same time or   *)
(* again later.  Every access to the ledger and to the downstream is one   *)
(* step.  `sent' and `landed' are what happened outside, which no caller   *)
(* sees: a request that the caller gave up may land later.                 *)
(***************************************************************************)
EXTENDS Integers

CONSTANTS
  Callers,     \* whoever performs effects
  Effects,     \* operation and key of each
  Askable,     \* the effects whose downstream can say whether they landed
  NoEffect,    \* a caller that has not performed any
  MaxFaults    \* BOUND: accesses that fail

ASSUME EffectsAssumption ==
  /\ Askable \subseteq Effects
  /\ NoEffect \notin Effects
  /\ MaxFaults \in Nat

VARIABLES
  ledger,   \* the entry of each effect
  sent,     \* how often the downstream was called for each effect
  landed,   \* the effects that happened
  flying,   \* the effects of abandoned calls, which may yet happen
  caller,   \* what each caller is at, and what it was told
  faults    \* accesses that failed so far

downstream == <<sent, landed, flying>>
effectVars == <<ledger, sent, landed, flying, caller, faults>>

Outcome == {"confirmed", "failed", "indeterminate"}
EntryStatus == {"none", "pending"} \cup Outcome
CallerPC ==
  {"idle", "looking", "reading", "inserting", "bumping", "asking", "finding",
   "doubting", "calling", "confirming", "refusing", "unsure", "told", "threw"}
IdleCaller == [at |-> "idle", effect |-> NoEffect, seen |-> 0, answer |-> "none"]

Entry == [status : EntryStatus, attempts : Nat]
CallerState ==
  [at : CallerPC, effect : Effects \cup {NoEffect}, seen : Nat,
   answer : Outcome \cup {"none"}]

EffectsTypeOK ==
  /\ ledger \in [Effects -> Entry]
  /\ sent \in [Effects -> Nat]
  /\ landed \subseteq Effects
  /\ flying \subseteq Effects
  /\ caller \in [Callers -> CallerState]
  /\ faults \in Nat

EffectsInit ==
  /\ ledger = [e \in Effects |-> [status |-> "none", attempts |-> 0]]
  /\ sent = [e \in Effects |-> 0]
  /\ landed = {}
  /\ flying = {}
  /\ caller = [c \in Callers |-> IdleCaller]
  /\ faults = 0

-----------------------------------------------------------------------------
(* Steps of a caller *)

CallerAt(c, pc) == caller[c].at = pc
Goto(c, pc) == caller' = [caller EXCEPT ![c].at = pc]
Told(c, outcome) ==
  caller' = [caller EXCEPT ![c] = [@ EXCEPT !.at = "told", !.answer = outcome]]
Faulty == faults < MaxFaults /\ faults' = faults + 1

\* The condition of the update that resolves an entry.
Resolvable(e) == ledger[e].status = "pending"

\* resolve: conditional, so that it may match nothing.
Resolve(e, outcome) ==
  ledger' = IF Resolvable(e) THEN [ledger EXCEPT ![e].status = outcome] ELSE ledger

\* performExternalEffect begins.
Perform(c, e) ==
  caller' = [caller EXCEPT ![c] = [IdleCaller EXCEPT !.at = "looking", !.effect = e]]

\* Is the effect already resolved?
Look(c) ==
  /\ CallerAt(c, "looking")
  /\ LET s == ledger[caller[c].effect].status IN
     IF s \in Outcome THEN Told(c, s) ELSE Goto(c, "reading")
  /\ UNCHANGED <<ledger, downstream, faults>>

\* begin: is there an entry?
BeginRead(c) ==
  /\ CallerAt(c, "reading")
  /\ LET n == ledger[caller[c].effect].attempts IN
     caller' = [caller EXCEPT ![c] = [@ EXCEPT !.seen = n,
                                      !.at = IF n = 0 THEN "inserting" ELSE "bumping"]]
  /\ UNCHANGED <<ledger, downstream, faults>>

\* Mutant: an upsert, which answers with the entry of another caller.
BeginMerge(c) ==
  /\ CallerAt(c, "inserting")
  /\ LET e == caller[c].effect IN
     /\ ledger' = [ledger EXCEPT ![e] = [status |-> "pending", attempts |-> 1]]
     /\ \/ Goto(c, "calling") /\ UNCHANGED faults
        \/ Goto(c, "threw") /\ Faulty
  /\ UNCHANGED downstream

\* begin: insert the entry, unless another caller has (the unique index). The
\* answer may be lost.
BeginInsert(c) ==
  /\ CallerAt(c, "inserting")
  /\ LET e == caller[c].effect IN
     IF ledger[e].status = "none"
     THEN /\ ledger' = [ledger EXCEPT ![e] = [status |-> "pending", attempts |-> 1]]
          /\ \/ Goto(c, "calling") /\ UNCHANGED faults
             \/ Goto(c, "threw") /\ Faulty
     ELSE Goto(c, "threw") /\ UNCHANGED <<ledger, faults>>
  /\ UNCHANGED downstream

\* begin: raise the attempts of the entry that was read.
BeginAgain(c) ==
  /\ CallerAt(c, "bumping")
  /\ LET e == caller[c].effect IN
     /\ ledger' = [ledger EXCEPT ![e].attempts = caller[c].seen + 1]
     /\ \/ /\ Goto(c, IF e \in Askable THEN "asking" ELSE "doubting")
           /\ UNCHANGED faults
        \/ Goto(c, "threw") /\ Faulty
  /\ UNCHANGED downstream

\* A retry asks the downstream whether the effect landed.
Reconcile(c) ==
  /\ CallerAt(c, "asking")
  /\ Goto(c, IF caller[c].effect \in landed THEN "finding" ELSE "doubting")
  /\ UNCHANGED <<ledger, downstream, faults>>

\* Mutant: a call without an answer is taken for a success.
CallDownstreamGuess(c) ==
  /\ CallerAt(c, "calling")
  /\ LET e == caller[c].effect IN
     /\ sent' = [sent EXCEPT ![e] = @ + 1]
     /\ \/ landed' = landed \cup {e} /\ Goto(c, "confirming") /\ UNCHANGED flying
        \/ Goto(c, "refusing") /\ UNCHANGED <<landed, flying>>
        \/ flying' = flying \cup {e} /\ Goto(c, "confirming") /\ UNCHANGED landed
  /\ UNCHANGED <<ledger, faults>>

\* The call: it succeeds, is refused, or ends without an answer, having landed,
\* being under way still, or lost.
CallDownstream(c) ==
  /\ CallerAt(c, "calling")
  /\ LET e == caller[c].effect IN
     /\ sent' = [sent EXCEPT ![e] = @ + 1]
     /\ \/ landed' = landed \cup {e} /\ Goto(c, "confirming") /\ UNCHANGED flying
        \/ Goto(c, "refusing") /\ UNCHANGED <<landed, flying>>
        \/ landed' = landed \cup {e} /\ Goto(c, "unsure") /\ UNCHANGED flying
        \/ flying' = flying \cup {e} /\ Goto(c, "unsure") /\ UNCHANGED landed
        \/ Goto(c, "unsure") /\ UNCHANGED <<landed, flying>>
  /\ UNCHANGED <<ledger, faults>>

\* What was under way lands.
Land(e) ==
  /\ e \in flying
  /\ landed' = landed \cup {e}
  /\ flying' = flying \ {e}
  /\ UNCHANGED <<ledger, sent, caller, faults>>

\* Resolve the entry with what the caller came to know, and tell it.
ResolveAndTell(c, pc, outcome) ==
  /\ CallerAt(c, pc)
  /\ Resolve(caller[c].effect, outcome)
  /\ Told(c, outcome)
  /\ UNCHANGED <<downstream, faults>>

Confirm(c) == ResolveAndTell(c, "confirming", "confirmed")
Refuse(c) == ResolveAndTell(c, "refusing", "failed")
Unsure(c) == ResolveAndTell(c, "unsure", "indeterminate")
Find(c) == ResolveAndTell(c, "finding", "confirmed")
Doubt(c) == ResolveAndTell(c, "doubting", "indeterminate")

\* The call succeeded and the update that says so fails, with or without taking
\* effect.  It throws inside the try of the call, so that its message decides:
\* a timeout is taken for an ambiguous call, an answer with an error status for
\* one that failed.
ConfirmFails(c) ==
  /\ CallerAt(c, "confirming")
  /\ Faulty
  /\ Goto(c, "refusing") \/ Goto(c, "unsure")
  /\ UNCHANGED ledger \/ Resolve(caller[c].effect, "confirmed")
  /\ UNCHANGED downstream

\* Any other access fails without taking effect; it throws to the caller.
AccessFails(c) ==
  /\ caller[c].at \in {"looking", "reading", "inserting", "bumping", "asking",
                       "finding", "doubting", "refusing", "unsure"}
  /\ Faulty
  /\ Goto(c, "threw")
  /\ UNCHANGED <<ledger, downstream>>

\* An update of the ledger takes effect and its answer is lost.
ResolveUnanswered(c) ==
  /\ \/ CallerAt(c, "finding") /\ Resolve(caller[c].effect, "confirmed")
     \/ CallerAt(c, "refusing") /\ Resolve(caller[c].effect, "failed")
     \/ CallerAt(c, "unsure") /\ Resolve(caller[c].effect, "indeterminate")
     \/ CallerAt(c, "doubting") /\ Resolve(caller[c].effect, "indeterminate")
  /\ Faulty
  /\ Goto(c, "threw")
  /\ UNCHANGED downstream

EffectStep(c) ==
  \/ Look(c) \/ BeginRead(c) \/ BeginInsert(c) \/ BeginAgain(c) \/ Reconcile(c)
  \/ CallDownstream(c)
  \/ Confirm(c) \/ Refuse(c) \/ Unsure(c) \/ Find(c) \/ Doubt(c)
  \/ ConfirmFails(c) \/ AccessFails(c) \/ ResolveUnanswered(c)

-----------------------------------------------------------------------------
(* Properties *)

\* However often an operation is retried, and whichever of its callers race, die
\* or lose an answer, its effect is called for at most once: only the caller
\* that inserted the entry calls.
FiresAtMostOnce == \A e \in Effects : sent[e] <= 1

\* Nothing is said to have happened that did not: a confirmed entry, and a
\* caller told so, mean that the effect landed.
ConfirmedHappened ==
  /\ \A e \in Effects : ledger[e].status = "confirmed" => e \in landed
  /\ \A c \in Callers : caller[c].answer = "confirmed" => caller[c].effect \in landed

\* external-effect.ts:67-71: an entry is resolved as failed only when the call
\* demonstrably did not reach the downstream.
FailedDidNotHappen ==
  \A e \in Effects : ledger[e].status = "failed" => e \notin landed

\* An effect without an entry has not been called for.
EntriesBegun ==
  \A e \in Effects :
    /\ ledger[e].status = "none" <=> ledger[e].attempts = 0
    /\ ledger[e].status = "none" => sent[e] = 0

\* Who may still call: the one caller that inserted the entry, before it does.
OneCaller ==
  \A c \in Callers :
    CallerAt(c, "calling") =>
      /\ sent[caller[c].effect] = 0
      /\ \A d \in Callers \ {c} :
           ~(CallerAt(d, "calling") /\ caller[d].effect = caller[c].effect)

\* What a caller may rely on where it is: it has an effect, and the entry of it;
\* where it is to confirm, that landed; where it was told, that is settled.
HasEntry == {"bumping", "asking", "finding", "doubting", "calling", "confirming",
             "refusing", "unsure", "told"}
CallersKnow ==
  \A c \in Callers :
    LET e == caller[c].effect IN
    /\ caller[c].at # "idle" => e \in Effects
    /\ caller[c].at \in HasEntry => ledger[e].status # "none"
    /\ caller[c].at \in {"confirming", "finding"} => e \in landed
    /\ CallerAt(c, "told") => ledger[e].status \in Outcome
    /\ (caller[c].answer # "none") <=> CallerAt(c, "told")

EffectsInv ==
  /\ EffectsTypeOK
  /\ EntriesBegun
  /\ OneCaller
  /\ CallersKnow
  /\ ConfirmedHappened
  /\ FiresAtMostOnce
=============================================================================
