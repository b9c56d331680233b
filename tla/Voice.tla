-------------------------------- MODULE Voice --------------------------------
(***************************************************************************)
(* The voice pipeline: speech to text, the safety screen, the translation, *)
(* for which requests share a cache, and text to speech, chunk by chunk;   *)
(* the conversion of a recording, the identification of a song from a clip,*)
(* and the probes of the providers.  Every provider is called over HTTP,   *)
(* tried again while it is busy or late, and may fail.                     *)
(***************************************************************************)
EXTENDS Chunker, FiniteSets

CONSTANTS
  Requests,    \* requests at work
  Said,        \* what people say
  Unsafe,      \* what of it the screen does not pass
  Targets,     \* languages to translate to
  Scripts,     \* the texts a translation may be
  None,
  MaxRetries,  \* fetchWithTimeout: how often a call is tried again
  MinClip, MaxClip,  \* seconds of a clip: fewer are refused, no more are sent
  Clips,       \* lengths of the clips recorded
  MaxRequests  \* bound: requests made in a behaviour

\* Chunks are sequences of texts.
Chunks == Seq(Seq(STRING))

\* What the constants are to satisfy (Services assumes it).
VoiceAssumption ==
  /\ None \notin Said /\ None \notin Chunks
  /\ MaxRetries \in Nat /\ MaxRequests \in Nat

VARIABLES
  request,  \* request[r]: None, or the request and the step it is at
  cache,    \* cache[<<s, l>>]: None, or the translation of s stored for language l
  answer,   \* answer[r]: None, or the latest result
  made

vars == <<request, cache, answer, made>>

Calling == {"stt", "translate", "tts", "convert", "identify"}

Steps == Calling \cup {"text", "nothing", "clip", "probe", "screen", "cache", "done"}

Translations == [of : Said, to : Targets, text : Scripts]

Request ==
  [step : Steps, said : Said \cup {None}, target : Targets, aloud : BOOLEAN, tries : Nat,
   passed : BOOLEAN, translation : Translations \cup {None}, todo : Chunks,
   spoken : Chunks \cup {None}, clip : Clips \cup {0, MaxClip}]

Result ==
  [success : BOOLEAN, transcript : Said \cup {None}, passed : BOOLEAN, target : Targets,
   translation : Translations \cup {None}, spoken : Chunks \cup {None},
   clip : Clips \cup {0, MaxClip}]

TypeOK ==
  /\ request \in [Requests -> Request \cup {None}]
  /\ cache \in [Said \X Targets -> Translations \cup {None}]
  /\ answer \in [Requests -> Result \cup {None}]
  /\ made \in 0 .. MaxRequests

----------------------------------------------------------------------------
(***************************************************************************)
(* A request and its calls.                                                *)
(***************************************************************************)

At(r, step) == request[r] # None /\ request[r].step = step

\* The step after this one, with nothing tried of it yet.
Goes(r, step, held) ==
  request' = [request EXCEPT ![r] = [held EXCEPT !.step = step, !.tries = 0]]

\* The result has whatever succeeded.
Finish(r, success) ==
  /\ request' = [request EXCEPT ![r] = None]
  /\ answer' = [answer EXCEPT ![r] =
       [success |-> success, transcript |-> request[r].said, passed |-> request[r].passed,
        target |-> request[r].target, translation |-> request[r].translation,
        spoken |-> request[r].spoken, clip |-> request[r].clip]]

\* A busy or late provider is called again, after a while; the converter and
\* the identifier once only.
MayRetry(r) ==
  request[r].tries < IF request[r].step \in {"convert", "identify"} THEN 1 ELSE MaxRetries

TryAgain(r) ==
  /\ \E step \in Calling : At(r, step)
  /\ MayRetry(r)
  /\ request' = [request EXCEPT ![r].tries = @ + 1]
  /\ UNCHANGED <<cache, answer, made>>

Begin(r) ==
  /\ request[r] = None /\ made < MaxRequests /\ made' = made + 1
  /\ \E step \in {"stt", "text", "nothing", "convert", "clip", "probe"}, s \in Said, l \in Targets,
        aloud \in BOOLEAN, seconds \in Clips :
       request' = [request EXCEPT ![r] =
         [step |-> step, said |-> IF step = "text" THEN s ELSE None, target |-> l,
          aloud |-> aloud, tries |-> 0, passed |-> FALSE, translation |-> None,
          todo |-> <<>>, spoken |-> None, clip |-> IF step = "clip" THEN seconds ELSE 0]]
  /\ UNCHANGED <<cache, answer>>

----------------------------------------------------------------------------
(***************************************************************************)
(* Speech to text, screen, translation, speech.                            *)
(***************************************************************************)

\* Some text, or none.
Transcribe(r) ==
  /\ At(r, "stt")
  /\ \/ \E s \in Said : Goes(r, "screen", [request[r] EXCEPT !.said = s]) /\ UNCHANGED answer
     \/ Finish(r, FALSE)
  /\ UNCHANGED <<cache, made>>

TakeText(r) ==
  /\ At(r, "text") /\ Goes(r, "screen", request[r])
  /\ UNCHANGED <<cache, answer, made>>

NothingSaid(r) ==
  /\ At(r, "nothing") /\ Finish(r, FALSE)
  /\ UNCHANGED <<cache, made>>

\* Mutant of Passes: a screen that fails passes.
PassesUnlessBlocked(s, answered) == answered => s \notin Unsafe

Passes(s, answered) == answered /\ s \notin Unsafe

\* A screen that fails is a screen not passed.
SafetyScreen(r) ==
  /\ At(r, "screen")
  /\ \E answered \in BOOLEAN :
       IF Passes(request[r].said, answered)
       THEN Goes(r, "cache", [request[r] EXCEPT !.passed = answered]) /\ UNCHANGED answer
       ELSE Finish(r, FALSE)
  /\ UNCHANGED <<cache, made>>

Cached(r) == cache[<<request[r].said, request[r].target>>]

Speak(r, translation) ==
  Goes(r, IF request[r].aloud THEN "tts" ELSE "done",
       [request[r] EXCEPT !.translation = translation, !.todo = ChunkText(translation.text)])

\* The key is the text and the target: the language it is in is not part of it.
ReadCache(r) ==
  /\ At(r, "cache")
  /\ \/ Cached(r) # None /\ Speak(r, Cached(r)) /\ UNCHANGED answer
     \/ Cached(r) = None /\ Goes(r, "translate", request[r]) /\ UNCHANGED answer
     \/ Finish(r, TRUE)
  /\ UNCHANGED <<cache, made>>

\* A failed translation leaves the transcript; a translation is stored for the
\* next request, when the cache takes it.
Translate(r) ==
  /\ At(r, "translate")
  /\ \/ \E script \in Scripts :
          LET t == [of |-> request[r].said, to |-> request[r].target, text |-> script] IN
          /\ cache' \in {cache, [cache EXCEPT ![<<t.of, t.to>>] = t]}
          /\ Speak(r, t) /\ UNCHANGED answer
     \/ Finish(r, TRUE) /\ UNCHANGED cache
  /\ UNCHANGED made

\* Chunk by chunk, in order.
SynthesizeChunk(r) ==
  /\ At(r, "tts") /\ request[r].todo # <<>>
  /\ LET said == IF request[r].spoken = None THEN <<>> ELSE request[r].spoken IN
       Goes(r, "tts", [request[r] EXCEPT !.todo = Tail(@),
                                         !.spoken = Append(said, Head(request[r].todo))])
  /\ UNCHANGED <<cache, answer, made>>

\* One chunk that fails, and there is no audio.
SpeechFails(r) ==
  /\ At(r, "tts") /\ request[r].todo # <<>>
  /\ Goes(r, "done", [request[r] EXCEPT !.spoken = None, !.todo = <<>>])
  /\ UNCHANGED <<cache, answer, made>>

Deliver(r) ==
  /\ At(r, "done") \/ (At(r, "tts") /\ request[r].todo = <<>>)
  /\ Finish(r, TRUE)
  /\ UNCHANGED <<cache, made>>

----------------------------------------------------------------------------
(***************************************************************************)
(* Recordings: converted, identified; and probes.                          *)
(***************************************************************************)

\* Passed through, converted by the service, or refused: not configured, too
\* large, a format it does not take, an error of the service.
Convert(r) ==
  /\ At(r, "convert")
  /\ \E success \in BOOLEAN : Finish(r, success)
  /\ UNCHANGED <<cache, made>>

\* A clip that is too short is refused before anything is sent; one that is too
\* long is cut.
PrepareClip(r) ==
  /\ At(r, "clip")
  /\ LET seconds == request[r].clip IN
       IF seconds < MinClip THEN Finish(r, FALSE)
       ELSE /\ Goes(r, "identify",
                 [request[r] EXCEPT !.clip = IF seconds > MaxClip THEN MaxClip ELSE seconds])
            /\ UNCHANGED answer
  /\ UNCHANGED <<cache, made>>

\* A match or none, which is an answer as well; or an error.
Identify(r) ==
  /\ At(r, "identify")
  /\ \E success \in BOOLEAN : Finish(r, success)
  /\ UNCHANGED <<cache, made>>

\* A probe makes a call of its own; an error is an answer too where only the
\* connection is asked about.
Healthy(provider, outcome) ==
  outcome = "ok" \/ (provider \in {"stt", "identify", "convert"} /\ outcome = "error")

Probe(r) ==
  /\ At(r, "probe")
  /\ \E provider \in Calling, outcome \in {"ok", "error", "unreachable"} :
       Finish(r, Healthy(provider, outcome))
  /\ UNCHANGED <<cache, made>>

----------------------------------------------------------------------------
Init ==
  /\ request = [r \in Requests |-> None]
  /\ cache = [k \in Said \X Targets |-> None]
  /\ answer = [r \in Requests |-> None]
  /\ made = 0

Next ==
  \E r \in Requests :
    \/ Begin(r) \/ TryAgain(r) \/ Transcribe(r) \/ TakeText(r) \/ NothingSaid(r)
    \/ SafetyScreen(r) \/ ReadCache(r) \/ Translate(r) \/ SynthesizeChunk(r)
    \/ SpeechFails(r) \/ Deliver(r) \/ Convert(r) \/ PrepareClip(r) \/ Identify(r) \/ Probe(r)

Spec == Init /\ [][Next]_vars

----------------------------------------------------------------------------
\* Nothing is translated, kept for others or said aloud that the screen did
\* not pass (pipeline.ts: "Safety screening before translation (fail closed)").
OnlyPassedIsTranslated ==
  /\ \A s \in Said, l \in Targets : cache[<<s, l>>] # None => s \notin Unsafe
  /\ \A r \in Requests :
       answer[r] # None /\ answer[r].translation # None =>
         answer[r].passed /\ answer[r].transcript \notin Unsafe

\* A translation answered is one of this request's words into its language,
\* whoever stored it; what is said aloud is all of it, in chunks that fit.
SaysItsOwnWords ==
  \A r \in Requests :
    LET a == answer[r] IN
    a # None /\ a.translation # None =>
      /\ a.translation.of = a.transcript /\ a.translation.to = a.target
      /\ a.spoken # None =>
           /\ \A i \in DOMAIN a.spoken : Fits(a.spoken[i])
           /\ Solid(FlattenSeq(a.spoken)) = Solid(a.translation.text)

\* What a request holds at each step, once it has been taken up.
HoldsItsOwn ==
  \A r \in Requests :
    LET q == request[r] IN
    q # None =>
      /\ q.step \in {"text", "screen"} => q.said \in Said
      /\ q.step \in {"cache", "translate", "tts", "done"} =>
           q.said \in Said \ Unsafe /\ q.passed
      /\ IF q.step \in {"tts", "done"}
         THEN q.translation \in Translations /\ q.translation.of = q.said
                /\ q.translation.to = q.target
         ELSE q.translation = None
      /\ q.step # "tts" => q.spoken = None
      /\ q.step = "tts" =>
           ChunkText(q.translation.text) = IF q.spoken = None THEN q.todo ELSE q.spoken \o q.todo

\* The cache holds a translation under its own words and language, and what is said
\* aloud is the chunks of the translation.
KeepsItsOwn ==
  /\ \A s \in Said, l \in Targets :
       cache[<<s, l>>] # None => cache[<<s, l>>].of = s /\ cache[<<s, l>>].to = l
  /\ \A r \in Requests :
       LET a == answer[r] IN
       a # None /\ a.translation # None =>
         /\ a.translation \in Translations
         /\ a.translation.of = a.transcript /\ a.translation.to = a.target
         /\ a.spoken # None => a.spoken = ChunkText(a.translation.text)

IInv == TypeOK /\ OnlyPassedIsTranslated /\ HoldsItsOwn /\ KeepsItsOwn

\* The two together: what comes out of the pipeline.
OnlyPassedIsSaid == OnlyPassedIsTranslated /\ SaysItsOwnWords
=============================================================================
