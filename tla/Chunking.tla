------------------------------ MODULE Chunking ------------------------------
(***************************************************************************)
(* services/chunking.py and extraction._join_pages: a file's text cut into  *)
(* the passages that are embedded and cited.                                *)
(*                                                                         *)
(* A character is what the separators tell apart: a letter "w", terminal    *)
(* punctuation ".", a closing quote "q", another symbol "d", a space "sp"   *)
(* or a newline "nl".  Offsets are Python's: position i is text[i + 1] here *)
(* and a slice holds its start and not its end.                             *)
(***************************************************************************)
EXTENDS Integers, FiniteSets, Sequences, SequencesExt

CONSTANT LettersPerToken   \* 3 in conservative_token_count

Blank(text, i) == text[i + 1] \in {"sp", "nl"}

PageBreak == <<"nl", "nl">>

JoinPages(pages) ==
  FoldLeft(LAMBDA read, page :
             LET gap == IF read.starts = <<>> THEN <<>> ELSE PageBreak
             IN  [text |-> read.text \o gap \o page,
                  starts |-> Append(read.starts, Len(read.text \o gap))],
           [text |-> <<>>, starts |-> <<>>], pages)

(* The maximal runs of positions in a..b - 1 that all satisfy P.            *)
RunsOf(P(_), a, b) ==
  {<<i, j>> \in (a .. b) \X (a .. b) :
     /\ i < j /\ \A k \in i .. j - 1 : P(k)
     /\ i = a \/ ~P(i - 1)
     /\ j = b \/ ~P(j)}

Blanks(text, a, b) == RunsOf(LAMBDA i : Blank(text, i), a, b)

(* conservative_token_count: letters by the word, anything else visible by  *)
(* the character.                                                           *)
ConservativeCount(text, a, b) ==
  LET words == RunsOf(LAMBDA i : text[i + 1] = "w", a, b)
      rest == {i \in a .. b - 1 : ~Blank(text, i) /\ text[i + 1] # "w"}
  IN  FoldSet(LAMBDA w, sum : sum + (w[2] - w[1] + LettersPerToken - 1) \div LettersPerToken,
              Cardinality(rest), words)

(* A provider's own tokenizer need not add up over passages: "whole" counts *)
(* the blanks between units too.                                            *)
Count(c, a, b) ==
  IF c.counter = "whole" THEN b - a ELSE ConservativeCount(c.text, a, b)

(* Where each separator matches, the widest first.  A sentence ends after   *)
(* its punctuation: closing quotes belong to the match.                     *)
Separators == <<"sentence", "line", "space">>

Newlines(text, m) == Cardinality({i \in m[1] .. m[2] - 1 : text[i + 1] = "nl"})

Matches(text, a, b, separator) ==
  CASE separator = "paragraph" -> {m \in Blanks(text, a, b) : Newlines(text, m) >= 2}
    [] separator = "line"      -> {m \in Blanks(text, a, b) : Newlines(text, m) >= 1}
    [] separator = "space"     -> Blanks(text, a, b)
    [] separator = "sentence"  ->
         UNION {{<<i, m[2]>> : i \in {k \in a + 1 .. m[1] :
                   text[k] = "." /\ \A q \in k .. m[1] - 1 : text[q + 1] = "q"}} :
                m \in Blanks(text, a, b)}

Trimmed(text, a, b) ==
  LET seen == {i \in a .. b - 1 : ~Blank(text, i)}
  IN  IF seen = {} THEN <<a, a>> ELSE <<Min(seen), Max(seen) + 1>>

Pieces(text, a, b, separator) ==
  LET cuts == SetToSortSeq(Matches(text, a, b, separator), LAMBDA m, n : m[1] < n[1])
      from(i) == IF i = 1 THEN a ELSE cuts[i - 1][2]
      to(i) == IF i > Len(cuts) THEN b ELSE cuts[i][1]
  IN  SelectSeq([i \in 1 .. Len(cuts) + 1 |-> Trimmed(text, from(i), to(i))],
                LAMBDA piece : piece[1] < piece[2])

Target(c) == Min({c.target, c.max})
Unit(c, a, b) == [start |-> a, end |-> b, tokens |-> Count(c, a, b)]

(* _cut: bisection for the longest prefix that fits, at least a character.  *)
RECURSIVE Bisect(_, _, _, _)
Bisect(c, start, low, high) ==
  LET middle == (low + high + 1) \div 2
  IN  IF low >= high THEN low
      ELSE IF Count(c, start, middle) <= Target(c) THEN Bisect(c, start, middle, high)
      ELSE Bisect(c, start, low, middle - 1)

RECURSIVE Cut(_, _, _)
Cut(c, start, end) ==
  IF start >= end THEN <<>>
  ELSE LET low == Bisect(c, start, start + 1, end)
       IN  <<Unit(c, start, low)>> \o Cut(c, low, end)

(* _fit: at the coarsest separator that makes it fit.                       *)
RECURSIVE Fit(_, _, _, _)
Fit(c, start, end, separators) ==
  IF Count(c, start, end) <= Target(c) THEN <<Unit(c, start, end)>>
  ELSE IF separators = <<>> THEN Cut(c, start, end)
  ELSE LET pieces == Pieces(c.text, start, end, Head(separators))
       IN  IF Len(pieces) = 1 THEN Fit(c, start, end, Tail(separators))
           ELSE FlattenSeq([i \in DOMAIN pieces |->
                              Fit(c, pieces[i][1], pieces[i][2], Tail(separators))])

Units(c) ==
  LET paragraphs == Pieces(c.text, 0, Len(c.text), "paragraph")
  IN  FlattenSeq([i \in DOMAIN paragraphs |->
                    Fit(c, paragraphs[i][1], paragraphs[i][2], Separators)])

Tokens(units, first, last) ==
  FoldLeft(LAMBDA sum, u : sum + u.tokens, 0, SubSeq(units, first, last))

(* The last unit of a passage that starts with `first`: as many as fit.     *)
LastUnit(c, units, first) ==
  Max({last \in first .. Len(units) :
         last = first \/ Tokens(units, first, last) <= Target(c)})

(* Where the next one starts: back over what fits in the overlap, forward   *)
(* from `first` whatever fits.                                              *)
Following(c, units, first, last) ==
  Min({next \in first + 1 .. last + 1 :
         next = last + 1 \/ Tokens(units, next, last) <= c.overlap})

RECURSIVE Spans(_, _, _)
Spans(c, units, first) ==
  IF first > Len(units) THEN <<>>
  ELSE LET last == LastUnit(c, units, first)
       IN  <<<<first, last>>>> \o
             IF last = Len(units) THEN <<>>
             ELSE Spans(c, units, Following(c, units, first, last))

(* Mutant: bisect_left, so that a page starts after its first character.    *)
PageOfMutant(starts, start) ==
  IF starts = <<>> THEN 0 ELSE Cardinality({i \in DOMAIN starts : starts[i] < start})

(* bisect_right.                                                            *)
PageOf(starts, start) ==
  IF starts = <<>> THEN 0 ELSE Cardinality({i \in DOMAIN starts : starts[i] <= start})

(* _verified: the passage is counted as a whole, and halved when over.      *)
RECURSIVE Verified(_, _)
Verified(c, units) ==
  LET start == Head(units).start
      end == Last(units).end
      half == Len(units) \div 2
  IN  IF Count(c, start, end) > c.max /\ Len(units) > 1
        THEN Verified(c, SubSeq(units, 1, half)) \o Verified(c, SubSeq(units, half + 1, Len(units)))
        ELSE <<[start |-> start, end |-> end, page |-> PageOf(c.starts, start)]>>

ChunkText(c) ==
  LET units == Units(c)
      spans == Spans(c, units, 1)
  IN  FlattenSeq([i \in DOMAIN spans |-> Verified(c, SubSeq(units, spans[i][1], spans[i][2]))])

-----------------------------------------------------------------------------
(* What should hold of the passages `drafts` of a call c.                   *)

(* chunk_text: "No passage exceeds max_tokens".                             *)
WithinCap(c, drafts) ==
  \A i \in DOMAIN drafts : Count(c, drafts[i].start, drafts[i].end) <= c.max

(* The quotes that end a sentence may fall between two passages.            *)
ClosesSentence(text, i) ==
  /\ text[i + 1] = "q"
  /\ \E k \in 1 .. i : text[k] = "." /\ \A q \in k .. i : text[q + 1] = "q"

(* All other visible text is in a passage.                                  *)
Covered(c, drafts) ==
  \A i \in 0 .. Len(c.text) - 1 :
    \/ Blank(c.text, i) \/ ClosesSentence(c.text, i)
    \/ \E k \in DOMAIN drafts : drafts[k].start <= i /\ i < drafts[k].end

(* The page of a passage is the one its first character is on.              *)
OnItsPage(c, drafts) ==
  c.starts # <<>> => \A k \in DOMAIN drafts :
    LET p == drafts[k].page IN
    /\ p \in DOMAIN c.pages
    /\ c.starts[p] <= drafts[k].start
    /\ drafts[k].start < c.starts[p] + Len(c.pages[p])
=============================================================================
