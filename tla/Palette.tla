------------------------------- MODULE Palette -------------------------------
(***************************************************************************)
(* The lore palette of an edition (retrieval/palette.py): the passages     *)
(* that were found are taken in turn, the first of every document before   *)
(* the further ones, until the token budget is spent; then it is judged    *)
(* whether they are enough to generate an edition.  A passage is the       *)
(* document it is from, whether it is free of instructions to a model, its *)
(* length in tokens and its score in percent.                              *)
(***************************************************************************)
EXTENDS Naturals, Sequences, SequencesExt, FiniteSets

CONSTANTS
  Documents,
  Lengths,       \* of passages, in tokens
  Scores,        \* of passages, in percent
  MaxFound,      \* bound: passages found
  TokenBudget,   \* context_token_budget
  MinChunks,     \* min_chunks_for_edition
  MinDocuments,  \* min_documents_for_edition
  MinScore       \* min_average_score, in percent

\* The last two conjuncts hold of the configuration (3 of 4, 1200 tokens); its
\* validators do not demand them.
ASSUME PaletteAssumption ==
  /\ Lengths \subseteq Nat \ {0}
  /\ Scores \subseteq 0..100
  /\ MinChunks \in Nat \ {0}
  /\ MaxFound \in Nat /\ MinScore \in 0..100
  /\ MinDocuments \in 1..MinChunks
  /\ TokenBudget \in Nat /\ TokenBudget >= MinChunks

VARIABLES
  found,     \* the passages, in the order of their ranks
  todo,      \* those not looked at yet
  left,      \* remaining
  evidence,  \* the passages taken: [doc, tokens, score]
  grounding  \* "pending", "palette" or "no_evidence"

palVars == <<found, todo, left, evidence, grounding>>

Passages == [doc : Documents, safe : BOOLEAN, length : Lengths, score : Scores]

\* first_by_document before additional.
IsFirst(s, i) == \A k \in 1..(i - 1) : s[k].doc # s[i].doc

Ordered(s) ==
  LET Pick(first) == [i \in DOMAIN s |-> IF IsFirst(s, i) = first THEN <<s[i]>> ELSE << >>]
  IN FlattenSeq(Pick(TRUE)) \o FlattenSeq(Pick(FALSE))

PalInit ==
  /\ found \in UNION {[1..n -> Passages] : n \in 0..MaxFound}
  /\ todo = Ordered(found)
  /\ left = TokenBudget
  /\ evidence = << >>
  /\ grounding = "pending"

-----------------------------------------------------------------------------
\* Mutant: a passage may be as long as the whole budget.
WholeBudget == TokenBudget

\* No passage takes more than its share, so that MinChunks of them have room.
PerChunkCap == TokenBudget \div MinChunks

\* _safe_excerpt cuts at the cap; what is longer than what is left is cut to that, or
\* to less where the last word ends.
Excerpts(length) ==
  LET tokens == IF length < PerChunkCap THEN length ELSE PerChunkCap
  IN IF tokens <= left THEN {tokens} ELSE 1..left

TakePassage ==
  /\ grounding = "pending"
  /\ todo # << >>
  /\ left > 0
  /\ todo' = Tail(todo)
  /\ LET p == Head(todo)
     IN IF p.safe
        THEN \E tokens \in Excerpts(p.length) :
               /\ evidence' = Append(evidence, [doc |-> p.doc, tokens |-> tokens,
                                                score |-> p.score])
               /\ left' = left - tokens
        ELSE UNCHANGED <<evidence, left>>
  /\ UNCHANGED <<found, grounding>>

SumOf(s) == FoldLeft(LAMBDA a, b : a + b, 0, s)
Tokens(s) == SumOf([i \in DOMAIN s |-> s[i].tokens])

Enough(s) ==
  /\ Len(s) >= MinChunks
  /\ Cardinality({s[i].doc : i \in DOMAIN s}) >= MinDocuments
  /\ SumOf([i \in DOMAIN s |-> s[i].score]) >= MinScore * Len(s)

\* build_lore_palette: NoEvidence fails the job.
JudgeGrounding ==
  /\ grounding = "pending"
  /\ todo = << >> \/ left = 0
  /\ grounding' = IF Enough(evidence) THEN "palette" ELSE "no_evidence"
  /\ UNCHANGED <<found, todo, left, evidence>>

PalNext == TakePassage \/ JudgeGrounding

PalSpec == PalInit /\ [][PalNext]_palVars

-----------------------------------------------------------------------------
\* Enough was found: MinChunks safe passages, MinDocuments documents of which the
\* best passage is safe, none below the score.
Sufficient(s) ==
  LET safe == {i \in DOMAIN s : s[i].safe}
  IN /\ Cardinality(safe) >= MinChunks
     /\ Cardinality({s[i].doc : i \in {i \in safe : IsFirst(s, i)}}) >= MinDocuments
     /\ \A i \in safe : s[i].score >= MinScore

\* An edition is not refused for want of grounding where enough was found, however
\* long the passages are and in whatever order they come, and what is
\* taken stays within the budget.
GroundingFair ==
  /\ grounding = "no_evidence" => ~Sufficient(found)
  /\ Tokens(evidence) <= TokenBudget
=============================================================================
