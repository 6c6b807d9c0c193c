----------------------------- MODULE Retrieval -----------------------------
(***************************************************************************)
(* services/retrieval.py and services/citations.py: the passages a question *)
(* is sent with, and what the numbers in the answer cite.                   *)
(*                                                                         *)
(* Each function is called once, on a call that is [op, chunks, topK,       *)
(* floor, budget, response]; `chunks` is the source_chunks table in order   *)
(* of distance to the question.  A chunk is [source, words, tokens, near, held]: `near` is the *)
(* similarity, in steps, and `held` where it is: "here" and ready, in a     *)
(* source that is not ready ("failed"), or in another workspace ("away").   *)
(***************************************************************************)
EXTENDS Integers, FiniteSets, Sequences, SequencesExt

CONSTANTS
  Alike,                  \* _NEAR_IDENTICAL, in percent
  CandidatesPerResult,    \* _CANDIDATES_PER_RESULT
  ProviderModel,          \* the provider's model and dimension
  RetrievalCalls          \* the calls: tables, questions' limits and answers

(* A chunk has a number of tokens, tables are sorted, top_k is positive     *)
(* and a marker a number.                                                   *)
ASSUME RetrievalAssumption ==
  /\ CandidatesPerResult \in Nat
  /\ \A c \in RetrievalCalls :
       /\ c.op = "answer" /\ c.chunks \in Seq(Range(c.chunks)) /\ c.response \in Seq(Nat)
       /\ c.topK \in Nat \ {0} /\ c.floor \in Int /\ c.budget \in Nat
       /\ \A i \in DOMAIN c.chunks : c.chunks[i].tokens \in Nat /\ c.chunks[i].near \in Int
       /\ \A i, k \in DOMAIN c.chunks : i < k => c.chunks[i].near >= c.chunks[k].near

VARIABLES call, result

Pending == [op |-> "pending"]

(* The elements of a sequence that are in S, in their order (SelectSeq,     *)
(* as a fold, which can be reasoned about).                                 *)
Only(seq, S) ==
  FoldLeft(LAMBDA kept, x : IF x \in S THEN Append(kept, x) ELSE kept, <<>>, seq)

(* Rows of a ready source of this workspace: the join and its filter.       *)
Searched(chunk) == chunk.held = "here"

(* _searchable_model: nothing to search, or an error, or the search.        *)
SearchableModel(chunks) ==
  LET models == {chunks[i].model : i \in {k \in DOMAIN chunks : Searched(chunks[k])}}
  IN  CASE models = {}               -> "nothing"
        [] Cardinality(models) > 1   -> "mixed"
        [] models # {ProviderModel}  -> "mismatch"
        [] OTHER                     -> "search"

(* _near_identical: the share of words in common.                           *)
NearIdentical(a, b) ==
  IF a = {} \/ b = {} THEN a = b
  ELSE 100 * Cardinality(a \cap b) >= Alike * Cardinality(a \cup b)

(* The statement: the nearest few, and of those the ones above the floor.   *)
Rows(c) ==
  LET mine == {chunk \in Range(c.chunks) : Searched(chunk) /\ chunk.model = ProviderModel}
      here == Only(c.chunks, mine)
      few == SubSeq(here, 1, Min({Len(here), c.topK * CandidatesPerResult}))
  IN  Only(few, {chunk \in mine : chunk.near >= c.floor})

Spent(chosen) == FoldLeft(LAMBDA sum, chunk : sum + chunk.tokens, 0, chosen)

Repeats(chosen, chunk) ==
  \E i \in DOMAIN chosen : /\ chosen[i].source = chunk.source
                           /\ NearIdentical(chosen[i].words, chunk.words)

(* The loop: skip what repeats a passage of its source or is over what is   *)
(* left of the budget; stop at top_k.                                       *)
Chosen(c) ==
  FoldLeft(LAMBDA chosen, chunk :
             IF \/ Len(chosen) = c.topK
                \/ Repeats(chosen, chunk)
                \/ Spent(chosen) + chunk.tokens > c.budget
               THEN chosen ELSE Append(chosen, chunk),
           <<>>, Rows(c))

Retrieve(c) == IF SearchableModel(c.chunks) = "search" THEN Chosen(c) ELSE <<>>

(* prompts.Source: the n-th passage is shown to the model as [n].           *)
ShownAs(sent) == [marker \in 1 .. Len(sent) |-> sent[marker]]

(* cited_markers: every number once, in the order first cited.              *)
CitedMarkers(response) ==
  FoldLeft(LAMBDA found, n : IF Contains(found, n) THEN found ELSE Append(found, n),
           <<>>, response)

(* Mutant: numbers are taken as offsets.                                    *)
ResolveMutant(response, sent) ==
  LET known == Only(CitedMarkers(response), {marker \in 0 .. Len(sent) : marker + 1 \in DOMAIN sent})
  IN  [i \in DOMAIN known |-> [marker |-> known[i], chunk |-> sent[known[i] + 1]]]

(* resolve: a number nothing was sent under is discarded.                   *)
Resolve(response, sent) ==
  LET known == Only(CitedMarkers(response), DOMAIN sent)
  IN  [i \in DOMAIN known |-> [marker |-> known[i], chunk |-> sent[known[i]]]]

(* create_query's search, then the runner's resolve.                        *)
Answer ==
  /\ call.op = "answer" /\ result = Pending
  /\ LET sent == Retrieve(call)
     IN  result' = [op |-> "answer", sent |-> sent, citations |-> Resolve(call.response, sent)]
  /\ UNCHANGED call

AnswerInit == call \in RetrievalCalls /\ result = Pending
AnswerSpec == AnswerInit /\ [][Answer]_<<call, result>>

-----------------------------------------------------------------------------
(* What should hold of the passages `sent` for a call c.                    *)

(* Only what the workspace may see and the model made, within the budget.   *)
Allowed(c, sent) ==
  /\ Len(sent) <= c.topK /\ Spent(sent) <= c.budget
  /\ \A i \in DOMAIN sent : /\ Searched(sent[i]) /\ sent[i].model = ProviderModel
                            /\ sent[i].near >= c.floor
                            /\ ~Repeats(SubSeq(sent, 1, i - 1), sent[i])

(* Best first: a passage that was left out repeats one of the passages      *)
(* before it in `sent`, all at least as near, or they used up the budget    *)
(* or top_k.                                                                *)
BestFirst(c, sent) ==
  LET rows == Rows(c)
      leftOut(k, better) ==
        /\ \A i \in DOMAIN better : better[i].near >= rows[k].near
        /\ \/ Repeats(better, rows[k])
           \/ Spent(better) + rows[k].tokens > c.budget
           \/ Len(better) = c.topK
  IN  SearchableModel(c.chunks) = "search" =>
        \A k \in DOMAIN rows :
          Contains(sent, rows[k]) \/ \E n \in 0 .. Len(sent) : leftOut(k, SubSeq(sent, 1, n))

(* A citation is of the passage the model saw under its number, and every   *)
(* number it could have seen and wrote is cited once.                       *)
Grounded(c, sent, citations) ==
  /\ \A i \in DOMAIN citations :
       citations[i].marker \in DOMAIN sent
         /\ citations[i].chunk = ShownAs(sent)[citations[i].marker]
  /\ {citations[i].marker : i \in DOMAIN citations} = Range(c.response) \cap DOMAIN sent
  /\ Len(citations) = Cardinality(Range(c.response) \cap DOMAIN sent)

(* retrieve and resolve: the passages sent are the workspace's, the nearest *)
(* that fit, and a citation is of the passage the model saw under its       *)
(* number.                                                                  *)
AnswersAreGrounded ==
  result.op = "answer" =>
    /\ Allowed(call, result.sent)
    /\ BestFirst(call, result.sent)
    /\ Grounded(call, result.sent, result.citations)
=============================================================================
