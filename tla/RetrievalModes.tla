--------------------------- MODULE RetrievalModes ---------------------------
(***************************************************************************)
(* One question through the retrieval of src/rag/service.py: the six modes *)
(* that rank passages by shared words, the corrective retry, the agentic   *)
(* plan and its repair, the fusion with a semantic ranking, and the gate   *)
(* that answers or refuses. Scores are integers in thousandths. A word     *)
(* stands for a token; passages are numbered in chunk order, which is the  *)
(* order Python's stable sorts keep for equal scores.                      *)
(***************************************************************************)
EXTENDS Ranks

CONSTANTS PassageKinds,     \* passages there may be: [words, title, modality, source]
          PassageCount,     \* how many a base has
          Questions,        \* questions, as the sequence of their words
          RelationWords,    \* words that ask how things relate
          ModalityWords,    \* the modalities a word asks for: [word -> modality]
          EntityWords,      \* words that may be entity names
          Similarities,     \* cosines, in thousandths
          Floor,            \* the model's semantic_similarity_floor
          CitedK,           \* 5: what a mode returns and an answer cites
          DepthK,           \* 8: ranks that enter a fusion
          MergedK,          \* 7: what the agentic mode merges
          JudgedK           \* 3: passages the evidence gate reads

ASSUME RetrievalAssumption ==
  /\ PassageCount \in Nat /\ Similarities \subseteq Nat /\ 0 \in Similarities
  /\ {CitedK, DepthK, MergedK, JudgedK} \subseteq Nat \ {0} /\ CitedK <= DepthK
  /\ \A q \in Questions : q \in Seq(ToSet(q))
  /\ \A kind \in PassageKinds : kind.words \in Seq(ToSet(kind.words))

VARIABLES mode,      \* rag_mode
          asked,     \* the question's words
          base,      \* the passages of the base
          named,     \* the words the entity graph knows
          similar,   \* each passage's similarity to the question, 0 without a vector
          step,      \* what comes next
          runs,      \* the agentic tool runs
          ranking,   \* the results, best first
          verdict    \* "answered", "refused" or none yet

modeVars == <<mode, asked, base, named, similar, step, runs, ranking, verdict>>

Modes == {"contextual_hybrid", "rag_fusion", "graph_rag", "corrective", "multi_modal", "agentic_rag"}
Passages == 1 .. PassageCount
Distinct(words) == Ascending({i \in DOMAIN words : \A j \in 1 .. (i - 1) : words[j] # words[i]})
Unique(words) == [k \in DOMAIN Distinct(words) |-> words[Distinct(words)[k]]]
Times(word, words) == Cardinality({i \in DOMAIN words : words[i] = word})

\* 1 / sqrt(length): _ChunkScoringData.length_norm.
LengthNorm(n) == CASE n <= 1 -> 1000 [] n = 2 -> 707 [] n = 3 -> 577 [] OTHER -> 500

\* _score_chunk: nothing without a shared word, else shared words, coverage, the
\* question verbatim and the title. "boost" is in tenths.
Score(question, words, p, boost) ==
  LET text   == base[p].words
      shared == ToSet(words) \cap ToSet(text)
      exact  == \E k \in 0 .. (Len(text) - Len(question)) :
                   SubSeq(text, k + 1, k + Len(question)) = question
  IN  IF shared = {} THEN 0
      ELSE ((SumOf([w \in shared |-> Times(w, text) * Times(w, words)]) * LengthNorm(Len(text))
            + (3000 * Cardinality(shared)) \div Cardinality(ToSet(words))
            + (IF exact THEN 2000 ELSE 0)
            + (IF shared \cap base[p].title # {} THEN 500 ELSE 0)) * boost) \div 10

InChunkOrder == [p \in Passages |-> p]
Hits(score, limit) == Take(Ranked({p \in Passages : score[p] > 0}, score, InChunkOrder), limit)
Hybrid(words, limit) == Hits([p \in Passages |-> Score(words, words, p, 10)], limit)

\* Where a passage stands in some lists: [list, rank]. No list names a passage twice.
Met(lists) == UNION {Members(lists[k]) : k \in DOMAIN lists}
Places(lists, p) ==
  {x \in (DOMAIN lists) \X Passages : x[2] \in DOMAIN lists[x[1]] /\ lists[x[1]][x[2]].p = p}
FirstMet(lists) ==
  [p \in Met(lists) |-> Min({x[1] * (PassageCount + 1) + x[2] : x \in Places(lists, p)})]

\* Reciprocal rank fusion, in millionths: _rag_fusion and _blend_semantic. Equal sums
\* stay in the order the passages were first met.
FusedRanks(lists, limit) ==
  LET value == [p \in Met(lists) |-> SumOf([x \in Places(lists, p) |-> 1000000 \div (60 + x[2])])]
  IN  Take(Ranked(Met(lists), value, FirstMet(lists)), limit)

\* _query_variants: the question, its distinct words, reversed, and the first three.
Variants(words) ==
  LET unique == Unique(words)
  IN  Unique(<<words>> \o (IF unique = << >> THEN << >> ELSE <<unique>>)
             \o (IF Len(unique) > 2 THEN <<Reverse(unique), Take(unique, 3)>> ELSE << >>))
Fusion(words) ==
  FusedRanks([v \in DOMAIN Variants(words) |-> Hybrid(Variants(words)[v], DepthK)], CitedK)

\* _rebuild_graph: an entity points at the passages that name it, and weighs as many.
Mentions(w) == {p \in Passages : w \in ToSet(base[p].words)}
Affinity(words, p) ==
  SumOf([w \in {w \in named \cap ToSet(words) : p \in Mentions(w)} |->
           10 + Min({Cardinality(Mentions(w)), 5})])

\* Mutant: the boost adds up on a scale of its own.
BoostOfItsOwn(top, affinity) == 150 * affinity
\* GRAPH_BOOST_MAX_FRACTION and GRAPH_BOOST_SATURATION: a saturating share of the best
\* score by words.
Boost(top, affinity) ==
  IF affinity = 0 THEN 0
  ELSE ((IF top > 0 THEN (top * 35) \div 100 ELSE 350) * affinity) \div (affinity + 30)

\* _graph_rag.
RanksOf(results, p) == {i \in DOMAIN results : results[i].p = p}
ScoreIn(results, p) == SumOf([i \in RanksOf(results, p) |-> results[i].score])
TopOf(results) == IF results = << >> THEN 0 ELSE results[1].score
Graph(words) ==
  LET hits   == Hybrid(words, DepthK)
      worth  == [p \in Passages |-> Boost(TopOf(hits), Affinity(words, p)) + ScoreIn(hits, p)]
      before == [p \in Passages |-> IF RanksOf(hits, p) = {} THEN Len(hits) + p ELSE Min(RanksOf(hits, p))]
  IN  Take(Ranked({p \in Passages : RanksOf(hits, p) # {} \/ Affinity(words, p) > 0}, worth, before), CitedK)

\* _multimodal_rag: the words once each, passages of the wanted modality first.
Wanted(words) == {ModalityWords[w] : w \in ToSet(words) \cap DOMAIN ModalityWords}
ModalityBoost(words, p) ==
  IF base[p].modality \in Wanted(words) THEN 18
  ELSE IF base[p].modality \in {"pdf", "text"} THEN 11 ELSE 10
Multimodal(words) ==
  Hits([p \in Passages |-> Score(words, Unique(words), p, ModalityBoost(words, p))], CitedK)

\* _has_sufficient_evidence without a semantic side, and with one.
Covered(words, results) ==
  ToSet(words) \cap UNION {ToSet(base[results[i].p].words) : i \in DOMAIN Take(results, JudgedK)}
Sufficient(words, results) ==
  /\ results # << >> /\ words # << >>
  /\ 100 * Cardinality(Covered(words, results)) >= 35 * Cardinality(ToSet(words))
  /\ results[1].score > 0
SemanticRanking == Hits(similar, DepthK)
SufficientOrSimilar(words, results) ==
  results # << >> /\ (Sufficient(words, results) \/ \E p \in Passages : similar[p] >= Floor)

\* _agentic_tool_plan: five tools, the heaviest first.
Tools == <<"contextual_hybrid", "rag_fusion", "corrective", "graph_rag", "multi_modal">>
Plan(words) ==
  LET weight == <<100, 125, 115, IF ToSet(words) \cap RelationWords # {} THEN 135 ELSE 85,
                  IF Wanted(words) # {} THEN 135 ELSE 75>>
      order  == Ranked(DOMAIN Tools, weight, [i \in DOMAIN Tools |-> i])
  IN  [k \in DOMAIN order |-> [tool |-> Tools[order[k].p], weight |-> order[k].score]]
ToolResults(tool, words) ==
  CASE tool = "contextual_hybrid" -> Hybrid(words, DepthK)
    [] tool = "rag_fusion" -> Fusion(words)
    [] tool = "corrective" -> LET primary == Hybrid(words, CitedK)
                              IN  IF Sufficient(words, primary) THEN primary ELSE Fusion(words)
    [] tool = "graph_rag" -> Graph(words)
    [] tool = "multi_modal" -> Multimodal(words)

\* _source_diverse_results: each pick lowers what its source is still worth.
Alike(chosen, p) == Cardinality({i \in DOMAIN chosen : base[chosen[i].p].source = base[p].source})
Picked(was) ==
  LET left   == DOMAIN was.pending
      worth  == [i \in left |-> was.pending[i].score - 150 * Alike(was.chosen, was.pending[i].p)]
      order  == Ranked(left, worth, [i \in left |-> i])
      sorted == [k \in DOMAIN order |-> was.pending[order[k].p]]
  IN  IF sorted = << >> THEN was
      ELSE [chosen |-> Append(was.chosen, sorted[1]), pending |-> Tail(sorted)]
Diverse(results, limit) ==
  LET pick[n \in 0 .. limit] ==
        IF n = 0 THEN [chosen |-> << >>, pending |-> results] ELSE Picked(pick[n - 1])
  IN  pick[limit].chosen

\* _merge_agentic_tool_results: each run on its own scale, its weight and its ranks.
Merged(toolRuns) ==
  LET lists == [k \in DOMAIN toolRuns |-> toolRuns[k].results]
      best  == [k \in DOMAIN lists |-> Max({1} \cup {lists[k][i].score : i \in DOMAIN lists[k]})]
      value == [p \in Met(lists) |-> SumOf([x \in Places(lists, p) |->
                  (lists[x[1]][x[2]].score * toolRuns[x[1]].weight * 10) \div best[x[1]] + 1000 \div (x[2] + 4)])]
  IN  Diverse(Ranked(Met(lists), value, FirstMet(lists)), MergedK)

ModeIdle ==
  /\ mode = "none" /\ asked = << >> /\ base = << >> /\ named = {} /\ similar = << >>
  /\ step = "absent" /\ runs = << >> /\ ranking = << >> /\ verdict = "none"

ModeInit ==
  /\ mode \in Modes /\ asked \in Questions
  /\ base \in [Passages -> PassageKinds] /\ named \in SUBSET EntityWords
  /\ similar \in [Passages -> Similarities]
  /\ step = "retrieve" /\ runs = << >> /\ ranking = << >> /\ verdict = "none"

\* The modes with a single pass.
Retrieve ==
  /\ step = "retrieve" /\ mode \notin {"corrective", "agentic_rag"}
  /\ ranking' = CASE mode = "contextual_hybrid" -> Hybrid(asked, CitedK)
                  [] mode = "rag_fusion" -> Fusion(asked)
                  [] mode = "graph_rag" -> Graph(asked)
                  [] mode = "multi_modal" -> Multimodal(asked)
  /\ step' = "blend"
  /\ UNCHANGED <<mode, asked, base, named, similar, runs, verdict>>

\* _corrective_rag: what the first pass found, unless it does not carry the question.
RetrieveCorrective ==
  /\ step = "retrieve" /\ mode = "corrective"
  /\ ranking' = ToolResults("corrective", asked)
  /\ step' = "blend"
  /\ UNCHANGED <<mode, asked, base, named, similar, runs, verdict>>

\* _agentic_rag: the tools of the plan, merged ...
RunTools ==
  /\ step = "retrieve" /\ mode = "agentic_rag"
  /\ runs' = [k \in DOMAIN Plan(asked) |->
                [results |-> ToolResults(Plan(asked)[k].tool, asked), weight |-> Plan(asked)[k].weight]]
  /\ ranking' = Merged(runs')
  /\ step' = IF Sufficient(asked, ranking') THEN "blend" ELSE "repair"
  /\ UNCHANGED <<mode, asked, base, named, similar, verdict>>
\* ... and merged again with one more pass per variant when that was not enough.
RepairTools ==
  /\ step = "repair"
  /\ runs' = runs \o [v \in 1 .. (Len(Variants(asked)) - 1) |->
                        [results |-> Hybrid(Variants(asked)[v + 1], CitedK), weight |-> 80]]
  /\ ranking' = Merged(runs')
  /\ step' = "blend"
  /\ UNCHANGED <<mode, asked, base, named, similar, verdict>>

\* _blend_semantic: a base without vectors keeps its ranking as it is.
Blend ==
  /\ step = "blend"
  /\ ranking' = IF SemanticRanking = << >> THEN ranking
                ELSE FusedRanks(<<ranking, SemanticRanking>>, CitedK)
  /\ step' = "judge"
  /\ UNCHANGED <<mode, asked, base, named, similar, runs, verdict>>

\* The gate on evidence. The corrective mode asks it twice and gets the same answer.
JudgeEvidence ==
  /\ step = "judge"
  /\ verdict' = IF SufficientOrSimilar(asked, ranking) THEN "answered" ELSE "refused"
  /\ step' = "done"
  /\ UNCHANGED <<mode, asked, base, named, similar, runs, ranking>>

ModeNext == Retrieve \/ RetrieveCorrective \/ RunTools \/ RepairTools \/ Blend \/ JudgeEvidence
ModeSpec == ModeInit /\ [][ModeNext]_modeVars

\* _citations and _unmatched_terms.
Cited == Members(Take(ranking, CitedK))
Unmatched == {w \in ToSet(asked) : Mentions(w) = {}}

-----------------------------------------------------------------------------
\* What refines a ranking never replaces it. The passage that matches the words best
\* is cited after the modality or the meaning had their say (the agentic mode merges
\* more than it cites and is left out); the graph can lift a passage over another only
\* when its words carry it to within 35% of the best score, so one without a word of
\* the question is never first; and a cited passage shares a word with the question or
\* has a similarity (src/rag/service.py:2365-2404, 2579-2655).
BestMatchIsCited ==
  LET best == CASE mode = "rag_fusion" -> Fusion(asked)
                [] mode = "corrective" -> ToolResults("corrective", asked)
                [] mode = "multi_modal" -> Multimodal(asked)
                [] OTHER -> Hybrid(asked, DepthK)
  IN  /\ step \in {"judge", "done"} =>
           /\ mode \notin {"agentic_rag", "graph_rag"} /\ best # << >> => best[1].p \in Cited
           /\ \A p \in Cited : similar[p] > 0 \/ ToSet(base[p].words) \cap ToSet(asked) # {}
      /\ mode = "graph_rag" /\ step = "blend" =>
           \A i, j \in DOMAIN ranking :
             i < j => ScoreIn(best, ranking[i].p) + (35 * TopOf(best)) \div 100 >= ScoreIn(best, ranking[j].p)
=============================================================================
