------------------------------- MODULE Chunker -------------------------------
(***************************************************************************)
(* How a text is cut for the synthesizer, which takes so many bytes at a   *)
(* time: at the ends of sentences, of clauses where a sentence is too      *)
(* long, and anywhere where a clause is.  A text is a sequence of UTF-16   *)
(* units; a letter outside the basic plane is two of them, High and Low.   *)
(***************************************************************************)
EXTENDS Naturals, Sequences, SequencesExt

CONSTANT ByteLimit

Space == " "
SentenceEnds == {"."}
ClauseEnds == {","}

\* UTF-8: a pair is four bytes, half a pair is replaced by a mark of three.
ByteLength(text) ==
  FoldLeftDomain(LAMBDA n, i :
      n + CASE text[i] = "High" -> IF i < Len(text) /\ text[i + 1] = "Low" THEN 4 ELSE 3
            [] text[i] = "Low"  -> IF i > 1 /\ text[i - 1] = "High" THEN 0 ELSE 3
            [] OTHER -> 1,
    0, text)

Fits(text) == ByteLength(text) <= ByteLimit

Trim(text) ==
  LET solid == {i \in DOMAIN text : text[i] # Space} IN
  IF solid = {} THEN <<>>
  ELSE SubSeq(text, CHOOSE i \in solid : \A j \in solid : i <= j,
                    CHOOSE i \in solid : \A j \in solid : j <= i)

\* The pieces between the spaces that follow one of the marks.
SplitAfter(text, marks) ==
  LET cut == FoldLeft(LAMBDA acc, u :
                 LET ended == acc.piece # <<>> /\ Last(acc.piece) \in marks IN
                 IF u = Space /\ (ended \/ acc.between)
                 THEN [pieces |-> IF acc.between THEN acc.pieces
                                  ELSE Append(acc.pieces, acc.piece),
                       piece |-> <<>>, between |-> TRUE]
                 ELSE [acc EXCEPT !.piece = Append(@, u), !.between = FALSE],
               [pieces |-> <<>>, piece |-> <<>>, between |-> FALSE], text)
  IN  IF cut.piece = <<>> THEN cut.pieces ELSE Append(cut.pieces, cut.piece)

\* The longest prefix that fits, again and again: it may end between the two
\* halves of a pair.
HardSplit(text) ==
  LET piece[t \in Seq({"a", ".", ",", Space, "High", "Low"})] ==
        IF Fits(t) THEN IF t = <<>> THEN <<>> ELSE <<t>>
        ELSE LET ends == {k \in 1 .. Len(t) : Fits(SubSeq(t, 1, k))}
                 at == IF ends = {} THEN 1 ELSE CHOOSE k \in ends : \A j \in ends : j <= k
             IN  <<Trim(SubSeq(t, 1, at))>> \o piece[Trim(SubSeq(t, at + 1, Len(t)))]
  IN  piece[text]

\* Pieces are joined while they fit; parts says what becomes of one that does not
\* fit alone, and keep whether its last part may be joined with the next.
Pack(pieces, parts, keep) ==
  LET packed == FoldLeftDomain(LAMBDA acc, i :
        LET p == pieces[i]
            joined == IF acc.open = <<>> THEN p ELSE acc.open \o <<Space>> \o p
            flushed == IF acc.open = <<>> THEN acc.done ELSE Append(acc.done, acc.open)
        IN  CASE Fits(joined) -> [acc EXCEPT !.open = joined]
              [] ~Fits(joined) /\ Fits(p) -> [done |-> flushed, open |-> p]
              [] OTHER -> IF keep
                          THEN [done |-> flushed \o Front(parts[i]), open |-> Last(parts[i])]
                          ELSE [done |-> flushed \o parts[i], open |-> <<>>],
        [done |-> <<>>, open |-> <<>>], pieces)
  IN  IF packed.open = <<>> THEN packed.done ELSE Append(packed.done, packed.open)

SplitLongSegment(text) ==
  LET clauses == SplitAfter(text, ClauseEnds) IN
  IF Len(clauses) > 1
  THEN Pack(clauses, [i \in DOMAIN clauses |-> HardSplit(clauses[i])], FALSE)
  ELSE HardSplit(text)

ChunkText(text) ==
  LET t == Trim(text)
      sentences == SplitAfter(t, SentenceEnds)
  IN  IF t = <<>> THEN <<>>
      ELSE IF Fits(t) THEN <<t>>
      ELSE Pack(sentences, [i \in DOMAIN sentences |-> SplitLongSegment(sentences[i])], TRUE)

----------------------------------------------------------------------------
\* What the chunks are for: each fits, and together they say the whole text in
\* its order (chunker.ts: "each chunk is under the limit"; "no reordering").
Solid(text) == SelectSeq(text, LAMBDA u : u # Space)

ChunksSayTheText(text) ==
  /\ \A i \in DOMAIN ChunkText(text) : Fits(ChunkText(text)[i])
  /\ Solid(FlattenSeq(ChunkText(text))) = Solid(text)

\* What they are not: cut between characters only (chunker.ts: "Splits at
\* character boundaries (never mid-character)").
NeverMidCharacter(text) ==
  \A i \in DOMAIN ChunkText(text) : ChunkText(text)[i][1] # "Low"
=============================================================================
