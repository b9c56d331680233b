---------------------------- MODULE PaidRequests ----------------------------
(***************************************************************************)
(* The requests that cost money, from the limits in front of them to the   *)
(* text that is shown (app/api/process, app/api/stream; platform/rate-     *)
(* limit, auth/guest-allowance, moderation/guardian, ai/orchestrator,      *)
(* ai/screened-stream): a request is counted by the per-actor rule and the *)
(* daily quota in the shared store, a guest's against its allowance; its   *)
(* text is screened; then it is translated and spoken, or answered by the  *)
(* model in a stream whose text is held back and screened window by        *)
(* window. Every model call, the classifier's included, passes one circuit *)
(* breaker. A group's name is screened, too, and not counted.              *)
(*                                                                         *)
(* Every await is a step, and requests of the same actors interleave.      *)
(***************************************************************************)
EXTENDS ContentScreening, Sequences

CONSTANTS
  Requests, Users, Guests, None,
  Kinds,       \* what is asked for: "process", "stream", "name"
  Stores,      \* the limiter may be "atomic" (supabase, memory) or "redis"
  Cap,         \* rule (1: per actor, 2: daily) -> the most requests in its window
  Span,        \* rule -> the window's length
  Allowances,  \* the values the governed guest allowance may take
  Threshold, Recovery, Probes,   \* the circuit breaker
  Window, Overlap,   \* tokens held back, and screened again
  Tokens,      \* what texts are made of
  Scripts,     \* what the model may stream: sequences of chunks of tokens
  Answers,     \* what it may answer in one piece
  Phrase,      \* tokens that must not be shown one after the other
  Verdicts,    \* what the classifier may answer for any text
  Alarms,      \* what it may answer for a text with the phrase
  Matches,     \* the severities of the blocklist patterns a prompt may match
  MaxTime      \* bound on the clock

Actors == Users \cup Guests

\* What may become of a request.
Results == {"limited", "unavailable", "invalid", "done", "rejected", "failed", "gone"}

\* What the constants are to satisfy (Services assumes it).
RequestsAssumption ==
  /\ None \notin Users \cup Guests \cup {"process", "stream", "name"} \cup Results
  /\ Users \cap Guests = {}
  /\ Kinds \subseteq {"process", "stream", "name"}
  /\ Stores \subseteq {"atomic", "redis"}
  /\ \A i \in 1..2 : Cap[i] \in Nat \ {0} /\ Span[i] \in Nat \ {0}
  /\ Allowances \subseteq 1..10
  /\ Threshold \in Nat \ {0} /\ Recovery \in Nat /\ Probes \in Nat \ {0}
  /\ Window \in Nat \ {0} /\ Overlap \in Nat
  /\ \A s \in Scripts : s \in Seq(Seq(Tokens))
  /\ \A s \in Answers \cup {Phrase} : s \in Seq(Tokens)
  /\ Len(Phrase) <= Overlap + 1
  /\ Alarms \subseteq Verdicts /\ Verdicts \subseteq Verdict /\ \A v \in Alarms : ~v.safe
  /\ MaxTime \in Nat

VARIABLES
  now,        \* the time
  store,      \* the limiter configured
  entries,    \* rule -> actor -> the requests counted, with their times
  used,       \* guest -> translations used
  allowance,  \* the governed guest allowance
  breaker,    \* the circuit breaker of this process
  req         \* request -> where it is and what it holds

vars == <<now, store, entries, used, allowance, breaker, req>>

PC == {"new", "count", "undo", "cap", "allowance", "consume", "screen", "asked",
       "work", "open", "source", "whole", "end"}

\* What a request holds. Kept for the properties: when each rule counted it, whether
\* a screening failed, and what became of the author.
Blank == [pc |-> "new", actor |-> None, kind |-> None, rule |-> 1, at |-> 0,
          times |-> <<>>, limit |-> 0, matches |-> {}, side |-> "input", failed |-> FALSE,
          acted |-> "none", left |-> <<>>, got |-> FALSE, last |-> FALSE,
          pending |-> <<>>, tail |-> <<>>, shown |-> <<>>, result |-> None]

Closed == [state |-> "closed", failures |-> 0, successes |-> 0, since |-> 0]

Init ==
  /\ now = 0
  /\ store \in Stores
  /\ entries = [i \in 1..2 |-> [a \in Actors |-> {}]]
  /\ used = [g \in Guests |-> 0]
  /\ allowance \in Allowances
  /\ breaker = Closed
  /\ req = [q \in Requests |-> Blank]

At(q, pc) == req[q].pc = pc
Set(q, r) == req' = [req EXCEPT ![q] = r]
Goto(q, pc) == Set(q, [req[q] EXCEPT !.pc = pc])
\* What only the request's own steps read is forgotten with it.
Ended(r, result) ==
  [Blank EXCEPT !.pc = "end", !.result = result, !.actor = r.actor, !.kind = r.kind,
                !.times = r.times, !.failed = r.failed, !.acted = r.acted, !.shown = r.shown]
End(q, result) == Set(q, Ended(req[q], result))
Limits == <<store, entries, used, allowance>>

(***************************************************************************)
(* The limits                                                              *)
(***************************************************************************)

\* A verified actor in good standing asks; streams and group names are for
\* signed-in users. A name is not counted.
Arrive(q, actor, kind, matches) ==
  /\ At(q, "new") /\ kind \in Kinds
  /\ actor \in Guests => kind = "process"
  /\ Set(q, [Blank EXCEPT !.actor = actor, !.kind = kind, !.at = now, !.matches = matches,
                          !.pc = IF kind = "name" THEN "screen" ELSE "count"])
  /\ UNCHANGED <<now, Limits, breaker>>

Log(q) == entries[req[q].rule][req[q].actor]

\* Older entries than the window of a request that counts at time t.
Expired(q, t) == {e \in Log(q) : e.at + Span[req[q].rule] <= t}

Logged(q, log) == entries' = [entries EXCEPT ![req[q].rule][req[q].actor] = log]

\* Counted by this rule: the next rule, the allowance or the screening follow.
Counted(r, t) ==
  [r EXCEPT !.times = Append(@, t), !.at = 0,
            !.pc = CASE r.rule = 1 -> "cap"
                     [] r.rule = 2 /\ r.actor \in Guests -> "allowance"
                     [] OTHER -> "screen"]

\* Mutant: the requests counted are compared before this one is among them.
WithinCapBefore(n, rule) == n <= Cap[rule] + 1

\* The number of requests in the window, the one being counted included.
WithinCap(n, rule) == n <= Cap[rule]

\* The database function (and the memory limiter) prunes, compares and counts
\* in one step.
CountAtomically(q) ==
  /\ store = "atomic" /\ At(q, "count")
  /\ LET kept == Log(q) \ Expired(q, now)
     IN IF WithinCap(Cardinality(kept) + 1, req[q].rule)
        THEN /\ Logged(q, kept \cup {[req |-> q, at |-> now]})
             /\ Set(q, Counted(req[q], now))
        ELSE Logged(q, kept) /\ End(q, "limited")
  /\ UNCHANGED <<now, store, used, allowance, breaker>>

\* The Redis pipeline prunes by the time the caller read, adds, then counts; a
\* request over the cap still has to take its own entry out again.
CountByPipeline(q) ==
  /\ store = "redis" /\ At(q, "count")
  /\ LET kept == (Log(q) \ Expired(q, req[q].at)) \cup {[req |-> q, at |-> req[q].at]}
     IN /\ Logged(q, kept)
        /\ IF WithinCap(Cardinality(kept), req[q].rule)
           THEN Set(q, Counted(req[q], req[q].at)) ELSE Goto(q, "undo")
  /\ UNCHANGED <<now, store, used, allowance, breaker>>

\* ZREM; when it fails the entry stays and the request is refused all the same.
TakeOut(q) ==
  /\ At(q, "undo")
  /\ \/ Logged(q, {e \in Log(q) : e.req # q}) /\ End(q, "limited")
     \/ UNCHANGED entries /\ End(q, "unavailable")
  /\ UNCHANGED <<now, store, used, allowance, breaker>>

\* The store fails, before it has counted the request or after: refused.
CountFails(q) ==
  /\ At(q, "count")
  /\ \/ UNCHANGED entries
     \/ Logged(q, Log(q) \cup {[req |-> q, at |-> IF store = "redis" THEN req[q].at ELSE now]})
  /\ End(q, "unavailable")
  /\ UNCHANGED <<now, store, used, allowance, breaker>>

\* A body that is not valid is refused, counted by the first rule only.
RefuseBody(q) ==
  /\ At(q, "cap") /\ End(q, "invalid")
  /\ UNCHANGED <<now, Limits, breaker>>

\* The daily cap is read and the daily rule counts.
ReadCap(q) ==
  /\ At(q, "cap") /\ Set(q, [req[q] EXCEPT !.rule = 2, !.at = now, !.pc = "count"])
  /\ UNCHANGED <<now, Limits, breaker>>

ReadAllowance(q) ==
  /\ At(q, "allowance")
  /\ Set(q, [req[q] EXCEPT !.limit = allowance, !.pc = "consume"])
  /\ UNCHANGED <<now, Limits, breaker>>

\* guest_allowance_consume: compare and count in one step of the database. Its
\* answer may be lost: the request is refused, counted or not.
Consume(q) ==
  /\ At(q, "consume")
  /\ LET g == req[q].actor
         fits == used[g] < req[q].limit
     IN \/ fits /\ used' = [used EXCEPT ![g] = @ + 1]
             /\ Set(q, [req[q] EXCEPT !.limit = 0, !.pc = "screen"])
        \/ ~fits /\ UNCHANGED used /\ End(q, "limited")
        \/ /\ used' \in {used, IF fits THEN [used EXCEPT ![g] = @ + 1] ELSE used}
           /\ End(q, "unavailable")
  /\ UNCHANGED <<now, store, entries, allowance, breaker>>

\* The governed allowance is changed.
SetAllowance(n) ==
  /\ n # allowance /\ allowance' = n
  /\ UNCHANGED <<now, store, entries, used, breaker, req>>

(***************************************************************************)
(* The circuit breaker                                                     *)
(***************************************************************************)
Rested == now >= breaker.since + Recovery

\* canExecute: an open breaker that has rested lets calls through as probes.
MayCall == breaker.state # "open" \/ Rested
Entered == IF breaker.state = "open" THEN [breaker EXCEPT !.state = "half-open", !.successes = 0]
           ELSE breaker

\* recordSuccess, also of a call that began before the breaker opened.
Succeeded ==
  CASE breaker.state = "half-open" /\ breaker.successes + 1 >= Probes -> Closed
    [] breaker.state = "half-open" /\ breaker.successes + 1 < Probes -> [breaker EXCEPT !.successes = @ + 1]
    [] OTHER -> [breaker EXCEPT !.failures = 0]

\* recordFailure. Failures beyond the threshold are not told apart, nor is the time
\* of the last one while the breaker is closed below it.
\* Only answers of 500 and above are counted; a timeout is not.
Failed ==
  LET b == [breaker EXCEPT !.failures = IF @ < Threshold THEN @ + 1 ELSE @, !.since = now]
  IN IF b.state = "half-open" \/ b.failures >= Threshold THEN [b EXCEPT !.state = "open"] ELSE b

(***************************************************************************)
(* Screening: a prompt before anything is generated, output before it is   *)
(* shown                                                                   *)
(***************************************************************************)
Level(r) == IF r.kind = "name" THEN 3 ELSE 1

\* The text that is screened: the prompt, or the held-back tokens after the tail.
Text(r) == IF r.side = "input" THEN <<>> ELSE r.tail \o r.pending

HasPhrase(text) ==
  \E i \in 1..Len(text) :
    i + Len(Phrase) - 1 <= Len(text) /\ SubSeq(text, i, i + Len(Phrase) - 1) = Phrase

\* A block strikes the author, an escalation goes to the review queue; output is
\* nobody's, and a guest is not known. A name is screened without a user.
Consequence(r, action) ==
  IF r.side = "output" \/ r.actor \in Guests \/ r.kind = "name" THEN r.acted
  ELSE CASE action = "block" -> "strike"
         [] action = "escalate" -> "review"
         [] OTHER -> r.acted

\* The end of a text that is screened again with the next window.
EndOf(text) ==
  IF Len(text) <= Overlap THEN text ELSE SubSeq(text, Len(text) - Overlap + 1, Len(text))

Tail_(r) == EndOf(r.tail \o r.pending)

Release(r) ==
  LET s == [r EXCEPT !.shown = @ \o r.pending, !.tail = Tail_(r), !.pending = <<>>]
  IN IF r.last THEN Ended(s, "done") ELSE [s EXCEPT !.pc = "source"]

\* What follows a decision.
After(r, action) ==
  LET s == [r EXCEPT !.acted = Consequence(r, action), !.matches = {}]
  IN IF r.side = "output"
     THEN IF OutputPasses(action) THEN Release(s) ELSE Ended(s, "rejected")
     ELSE IF ~InputPasses(action) THEN Ended(s, "rejected")
          ELSE CASE r.kind = "process" -> [s EXCEPT !.pc = "work"]
                 [] r.kind = "stream" -> [s EXCEPT !.pc = "open"]
                 [] r.kind = "name" -> Ended(s, "done")

Thresholds(r) == {Seeded(Level(r)), Strict}

\* The screening run: the blocklist, then the classifier if the breaker lets it
\* through; a run that does not complete escalates.
Screen(q) ==
  /\ At(q, "screen")
  /\ LET r == req[q]
     IN \/ /\ BlockedOutright(r.matches)
           /\ Set(q, After(r, "block")) /\ UNCHANGED breaker
        \/ /\ ~BlockedOutright(r.matches) /\ MayCall
           /\ Goto(q, "asked") /\ breaker' = Entered
        \/ /\ ~BlockedOutright(r.matches) /\ ~MayCall /\ UNCHANGED breaker
           /\ \E t \in Thresholds(r) :
                Set(q, After([r EXCEPT !.failed = TRUE], Decision(r.matches, FailedVerdict, t, 0)))
        \/ Set(q, After([r EXCEPT !.failed = TRUE], "escalate")) /\ UNCHANGED breaker
  /\ UNCHANGED <<now, Limits>>

\* The classifier answers; it finds the phrase in a text that has it.
Judged(q) ==
  /\ At(q, "asked")
  /\ \E v \in (IF HasPhrase(Text(req[q])) THEN Alarms ELSE Verdicts), t \in Thresholds(req[q]) :
       Set(q, After(req[q], Decision(req[q].matches, v, t, 0)))
  /\ breaker' = Succeeded
  /\ UNCHANGED <<now, Limits>>

\* The call fails, in a way the breaker counts or not.
JudgeFails(q) ==
  /\ At(q, "asked")
  /\ \E t \in Thresholds(req[q]) :
       Set(q, After([req[q] EXCEPT !.failed = TRUE], Decision(req[q].matches, FailedVerdict, t, 0)))
  /\ breaker' \in {breaker, Failed}
  /\ UNCHANGED <<now, Limits>>

(***************************************************************************)
(* The work                                                                *)
(***************************************************************************)

\* Translations and speech; one failure fails the request.
Translate(q) ==
  /\ At(q, "work")
  /\ \/ End(q, "done")
     \/ End(q, "failed")
  /\ UNCHANGED <<now, Limits, breaker>>

\* From here on the text that is screened is the model's.
OpenStream(q) ==
  /\ At(q, "open")
  /\ \/ /\ MayCall /\ breaker' = Entered
        /\ \E s \in Scripts :
             Set(q, [req[q] EXCEPT !.pc = "source", !.left = s, !.side = "output"])
     \/ ~MayCall /\ End(q, "failed") /\ UNCHANGED breaker
  /\ UNCHANGED <<now, Limits>>

\* What is pending is screened, or there is nothing to screen.
Screened(r) == IF r.pending = <<>> THEN Release(r) ELSE [r EXCEPT !.pc = "screen"]

\* A chunk is held back until a window is full.
Chunk(q) ==
  /\ At(q, "source") /\ req[q].left # <<>>
  /\ LET r == [req[q] EXCEPT !.pending = @ \o Head(req[q].left), !.left = Tail(@), !.got = TRUE]
     IN Set(q, IF Len(r.pending) < Window THEN r ELSE Screened(r))
  /\ UNCHANGED <<now, Limits, breaker>>

\* The final chunk is a success; a source that just ends is not reported.
SourceEnds(q) ==
  /\ At(q, "source") /\ req[q].left = <<>>
  /\ Set(q, Screened([req[q] EXCEPT !.last = TRUE]))
  /\ breaker' \in {breaker, Succeeded}
  /\ UNCHANGED <<now, Limits>>

\* A stream that breaks before its first text is asked for again, in one piece
\* and without the breaker's leave; one that breaks later has failed.
SourceBreaks(q) ==
  /\ At(q, "source")
  /\ IF req[q].got THEN End(q, "failed") ELSE Goto(q, "whole")
  /\ breaker' \in {breaker, Failed}
  /\ UNCHANGED <<now, Limits>>

\* The model answers anew. A fallback that fails is not counted by the breaker.
WholeAnswer(q) ==
  /\ At(q, "whole")
  /\ \/ /\ breaker' = Succeeded
        /\ \E answer \in Answers :
             Set(q, Screened([req[q] EXCEPT !.pending = answer, !.left = <<>>, !.last = TRUE]))
     \/ End(q, "failed") /\ UNCHANGED breaker
  /\ UNCHANGED <<now, Limits>>

\* The client has gone: the next send throws, the source is read no further.
ClientGone(q) ==
  /\ At(q, "source") /\ End(q, "gone")
  /\ UNCHANGED <<now, Limits, breaker>>

Tick == now < MaxTime /\ now' = now + 1 /\ UNCHANGED <<Limits, breaker, req>>

Ask(q) == \E a \in Actors, k \in Kinds, m \in Matches : Arrive(q, a, k, m)

Step(q) ==
  \/ Ask(q)
  \/ CountAtomically(q) \/ CountByPipeline(q) \/ TakeOut(q) \/ CountFails(q) \/ RefuseBody(q) \/ ReadCap(q)
  \/ ReadAllowance(q) \/ Consume(q)
  \/ Screen(q) \/ Judged(q) \/ JudgeFails(q)
  \/ Translate(q) \/ OpenStream(q) \/ Chunk(q) \/ SourceEnds(q) \/ SourceBreaks(q)
  \/ WholeAnswer(q) \/ ClientGone(q)

Next == (\E q \in Requests : Step(q)) \/ (\E n \in Allowances : SetAllowance(n)) \/ Tick

Spec == Init /\ [][Next]_vars

(***************************************************************************)
(* Properties                                                              *)
(***************************************************************************)

Held ==
  [pc : PC, actor : Actors \cup {None}, kind : Kinds \cup {None}, rule : 1..2,
   at : 0..MaxTime, times : Seq(0..MaxTime), limit : Allowances \cup {0},
   matches : Matches \cup {{}}, side : {"input", "output"}, failed : BOOLEAN,
   acted : {"none", "strike", "review"}, left : Seq(Seq(Tokens)), got : BOOLEAN,
   last : BOOLEAN, pending : Seq(Tokens), tail : Seq(Tokens), shown : Seq(Tokens),
   result : Results \cup {None}]

TypeOK ==
  /\ now \in 0..MaxTime /\ store \in Stores /\ allowance \in Allowances
  /\ entries \in [1..2 -> [Actors -> SUBSET [req : Requests, at : 0..MaxTime]]]
  /\ used \in [Guests -> 0..10]
  /\ breaker \in [state : {"closed", "open", "half-open"}, failures : 0..Threshold,
                   successes : 0..Probes, since : 0..MaxTime]
  /\ req \in [Requests -> Held]

\* Past the limits: what follows costs money.
Paid(r) ==
  r.kind \in {"process", "stream"} /\ (r.pc \in {"screen", "asked", "work", "open", "source", "whole"}
                                          \/ r.result \in {"done", "rejected", "failed", "gone"})

\* The requests of an actor that a rule counted in the window that ends now, and those
\* of a guest that are past the limits.
InWindow(i, a) ==
  {q \in Requests : /\ req[q].actor = a /\ Len(req[q].times) >= i
                    /\ req[q].times[i] + Span[i] > now}
PaidBy(g) == {q \in Requests : req[q].actor = g /\ Paid(req[q])}

\* No actor gets more requests past a rule in any window than its cap, and no guest
\* more than the highest allowance there was, however many arrive at once and
\* whichever store calls fail; every paid request was counted by both rules first
\* (rate-limit, guest-allowance: a paid call is never made uncounted).
CountedBeforePaid ==
  /\ \A i \in 1..2, a \in Actors :
       Cardinality(InWindow(i, a)) <= Cap[i]
  /\ \A g \in Guests :
       /\ Cardinality(PaidBy(g)) <= used[g]
       /\ \E n \in Allowances : used[g] <= n
  /\ \A q \in Requests : Paid(req[q]) => Len(req[q].times) = 2

\* What is shown was screened. The phrase is never shown, in one window or across
\* two; content that struck its author or went to review is withheld; and a prompt
\* or output whose screening failed is withheld, too (screened-stream, lib/safety).
OnlyScreenedIsShown ==
  \A q \in Requests :
    LET r == req[q]
    IN /\ ~HasPhrase(r.shown)
       /\ r.acted # "none" => r.pc = "end" /\ r.result = "rejected"
       /\ r.kind # "name" /\ r.failed => r.pc = "end" /\ r.result = "rejected"

\* What a request's place says of what it holds, before it has ended.
InPlace ==
  \A q \in Requests :
    LET r == req[q]
    IN /\ r.at <= now
       /\ r.pc # "new" => r.actor \in Actors /\ r.kind \in Kinds
       /\ r.pc = "new" => r = Blank
       /\ r.pc \in {"count", "undo", "cap", "allowance", "consume", "work"} => r.kind # "name"
       /\ r.pc \in {"count", "undo"} => Len(r.times) = r.rule - 1
       /\ r.pc = "cap" => Len(r.times) = 1
       /\ r.pc \in {"allowance", "consume"} => Len(r.times) = 2 /\ r.actor \in Guests
       /\ r.pc = "consume" => r.limit \in Allowances
       /\ r.pc = "open" => r.kind = "stream"
       /\ r.pc \in {"source", "whole"} => r.side = "output"

\* The store has an entry of every request it counted that is still in the window, and
\* only finitely many.
CountedIsLogged ==
  \A i \in 1..2 :
    /\ \A q \in Requests :
         Len(req[q].times) >= i /\ req[q].times[i] + Span[i] > now =>
           [req |-> q, at |-> req[q].times[i]] \in entries[i][req[q].actor]
    /\ \A a \in Actors : IsFiniteSet(entries[i][a])

\* What is screened with the next window is the end of all that was shown.
ScreenedSoFar ==
  \A q \in Requests :
    LET r == req[q]
    IN r.pc # "end" => /\ r.acted = "none" /\ ~r.failed /\ r.result = None
                       /\ r.tail = EndOf(r.shown)
                       /\ r.side = "output" => r.kind = "stream"

PaidAreFinite == \A g \in Guests : IsFiniteSet(PaidBy(g))

IInv ==
  /\ TypeOK /\ InPlace /\ CountedIsLogged /\ ScreenedSoFar /\ PaidAreFinite
  /\ CountedBeforePaid /\ OnlyScreenedIsShown

\* classifier: it fails closed, any error means unsafe. guardian-adapter: if the
\* Guardian is unavailable, it blocks. A text whose screening failed is not accepted.
FailedScreeningWithholds ==
  \A q \in Requests : req[q].failed => req[q].result # "done"
=============================================================================
