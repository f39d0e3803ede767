------------------------- MODULE PrecisionPipeline -------------------------
(***************************************************************************)
(* The high-precision mode, src/rag/precision/: one question through       *)
(* expansion, metadata filter, BM25 with feedback, the candidate pool, the *)
(* reranker, deduplication, MMR and parent recovery, each stage an action  *)
(* of retrieve(). Weights and scores are integers in thousandths, totals   *)
(* of BM25 in hundredths of those, so that a share of a score is exact. A  *)
(* chunk is its set of terms: term frequencies and lengths are taken       *)
(* equal, so BM25's saturation and length factors are 1.                   *)
(***************************************************************************)
EXTENDS Ranks, FiniteSets

CONSTANTS ChunkCount,      \* chunks of the base, numbered in the order of their ids
          TermSets,        \* what a chunk may contain
          Typed,           \* the terms of the question, none for one that has no word
          Expansions,      \* what expand_query may offer, in order: [term, weight]
          Negatives,       \* config.negative_terms
          Idf,             \* the weight of a term found in that many chunks, 0 .. ChunkCount
          FilterLists,     \* the filters a question may imply: sets of chunks, in order
          Setups,          \* configurations: see the fields below
          FamilySize,      \* parent_group_size
          ParentChars,     \* parent_max_chars
          Lengths          \* the characters of each chunk

\* A setup has the fields budget (expansion_max_terms), fraction (expansion_max_fraction,
\* in hundredths), prfDocuments, prfTerms, survivors (metadata_filter_min_survivors),
\* candidateK, topK, finalK, dedup (dedup_threshold in hundredths, 0 when off), lambda
\* (mmr_lambda in hundredths, 100 also when MMR is off) and reranker.
ASSUME PipelineAssumption ==
  /\ ChunkCount \in Nat /\ \A df \in 0 .. ChunkCount : Idf[df] \in Nat
  /\ \A terms \in TermSets : IsFiniteSet(terms)
  /\ IsFiniteSet(Typed) /\ IsFiniteSet(Negatives)
  /\ Expansions \in Seq(ToSet(Expansions)) /\ \A i \in DOMAIN Expansions : Expansions[i].weight \in Nat
  /\ \A list \in FilterLists : list \in Seq(SUBSET (1 .. ChunkCount))
  /\ FamilySize \in Nat \ {0} /\ ParentChars \in Nat /\ Lengths \in [1 .. ChunkCount -> Nat]
  /\ \A s \in Setups :
       /\ {s.budget, s.prfDocuments, s.prfTerms, s.survivors} \subseteq Nat
       /\ {s.candidateK, s.topK, s.finalK} \subseteq Nat \ {0}
       /\ {s.fraction, s.dedup, s.lambda} \subseteq 0 .. 100

VARIABLES setup, corpus, filters,   \* the configuration, the chunks' terms, the implied filters
          stage,      \* the stage that comes next
          weights,    \* term -> weight of the expanded query
          feedback,   \* the terms feedback added
          allowed,    \* chunks the filters left
          lexical,    \* chunk -> BM25 score, chunks without a term left out
          retrieval,  \* chunk -> fused score of the pool
          ranked,     \* the candidates, best first
          kept,       \* what deduplication kept of them
          results,    \* what MMR selected
          parents     \* result -> the chunks whose text comes with it

pipelineVars == <<setup, corpus, filters, stage, weights, feedback, allowed, lexical,
                  retrieval, ranked, kept, results, parents>>

Chunks == 1 .. ChunkCount
NoScores == [c \in {} |-> 0]
InIdOrder == [c \in Chunks |-> c]
IdfOf(term) == Idf[Cardinality({c \in Chunks : term \in corpus[c]})]

\* _normalize_scores: min-max onto 50 .. 1000; 0 stays what did not fire.
Normalized(scores, c) ==
  LET values == {scores[d] : d \in DOMAIN scores}
      low == Min(values)  span == Max(values) - Min(values)
  IN  IF scores[c] <= 0 THEN 0
      ELSE IF span = 0 THEN 1000 ELSE 50 + (950 * (scores[c] - low)) \div span

PipelineIdle ==
  /\ setup \in Setups /\ setup = CHOOSE s \in Setups : TRUE
  /\ corpus = [c \in Chunks |-> {}] /\ filters = << >> /\ stage = "absent"
  /\ weights = NoScores /\ feedback = {} /\ allowed = {} /\ lexical = NoScores
  /\ retrieval = NoScores /\ ranked = << >> /\ kept = << >> /\ results = << >> /\ parents = NoScores

PipelineInit ==
  /\ setup \in Setups /\ corpus \in [Chunks -> TermSets] /\ filters \in FilterLists
  /\ stage = "expand" /\ weights = NoScores /\ feedback = {} /\ allowed = {}
  /\ lexical = NoScores /\ retrieval = NoScores /\ ranked = << >> /\ kept = << >>
  /\ results = << >> /\ parents = NoScores

\* expand_query.offer: the first new terms, as many as the budget has room for; a term
\* that is there has the largest weight it was offered.
OffersOf(term) == {i \in DOMAIN Expansions : Expansions[i].term = term}
NewTerms == {i \in DOMAIN Expansions : Expansions[i].term \notin Typed /\ i = Min(OffersOf(Expansions[i].term))}
Accepted == {Expansions[i].term : i \in {i \in NewTerms : Cardinality({j \in NewTerms : j < i}) < setup.budget}}
WeightOf(term) ==
  Max((IF term \in Typed THEN {1000} ELSE {})
      \cup (IF setup.budget = 0 THEN {} ELSE {Expansions[i].weight : i \in OffersOf(term)}))
Expand ==
  /\ stage = "expand"
  /\ weights' = [t \in Typed \cup Accepted |-> WeightOf(t)]
  /\ stage' = IF Typed = {} THEN "done" ELSE "filter"
  /\ UNCHANGED <<setup, corpus, filters, feedback, allowed, lexical, retrieval, ranked, kept, results, parents>>

\* apply_filters: one after the other, each only when enough chunks are left.
Left(list) ==
  LET left[n \in 0 .. Len(list)] ==
        IF n = 0 THEN Chunks
        ELSE IF Cardinality(left[n - 1] \cap list[n]) >= setup.survivors
             THEN left[n - 1] \cap list[n] ELSE left[n - 1]
  IN  left[Len(list)]
Filter ==
  /\ stage = "filter"
  /\ allowed' = Left(filters)
  /\ stage' = "match"
  /\ UNCHANGED <<setup, corpus, filters, weights, feedback, lexical, retrieval, ranked, kept, results, parents>>

\* bm25.split_score: what the typed words earn, and what the others do.
Earned(query, terms, c) ==
  SumOf([t \in terms \cap DOMAIN query \cap corpus[c] |-> (query[t] * IdfOf(t)) \div 1000])
TypedScore(query, c) == Earned(query, Typed, c)
GuessScore(query, c) == Earned(query, DOMAIN query \ Typed, c)
BestTyped(query) == Max({0} \cup {TypedScore(query, c) : c \in allowed})
Ceiling(query) == setup.fraction * BestTyped(query)

\* Mutant: expansions count in full.
UncappedTotal(query, c) == 100 * (TypedScore(query, c) + GuessScore(query, c))
\* _bm25_pass: the guesses are capped by a share of the best score of typed words; a
\* cap of zero is no cap.
Total(query, c) ==
  100 * TypedScore(query, c)
  + (IF Ceiling(query) > 0 THEN Min({100 * GuessScore(query, c), Ceiling(query)})
     ELSE 100 * GuessScore(query, c))
LexicalPass(query) ==
  LET scored == {c \in allowed : Total(query, c) > 0}
  IN  [c \in scored |-> Total(query, c)]

\* feedback_terms: the rarest terms of the best chunks of the first pass.
FeedbackTerms(scores) ==
  LET best  == Members(Take(Ranked(DOMAIN scores, scores, InIdOrder), setup.prfDocuments))
      terms == SetToSeq((UNION {corpus[c] : c \in best}) \ DOMAIN weights)
      value == [i \in DOMAIN terms |-> SumOf([c \in {c \in best : terms[i] \in corpus[c]} |->
                                               IdfOf(terms[i]) \div Cardinality(corpus[c])])]
      order == Ranked({i \in DOMAIN terms : value[i] > 0}, value, [i \in DOMAIN terms |-> i])
  IN  {terms[i] : i \in Members(Take(order, setup.prfTerms))}
\* BM25, and once more with the feedback in the query.
MatchTerms ==
  /\ stage = "match"
  /\ LET first == LexicalPass(weights)
         found == FeedbackTerms(first)
     IN  /\ feedback' = found
         /\ weights' = [t \in DOMAIN weights \cup found |-> IF t \in found THEN 250 ELSE weights[t]]
         /\ lexical' = IF found = {} THEN first ELSE LexicalPass(weights')
  /\ stage' = "pool"
  /\ UNCHANGED <<setup, corpus, filters, allowed, retrieval, ranked, kept, results, parents>>

Penalty(c) == IF Negatives = {} THEN 0
              ELSE Min({950, (350 * Cardinality(Negatives \cap corpus[c])) \div Cardinality(Negatives)})
Penalized(score, c) == (score * (1000 - Penalty(c))) \div 1000
KeywordScore(c) == (1000 * Cardinality(Typed \cap corpus[c])) \div Cardinality(Typed)
MetadataScore(c) == Min({1000, 200 * Cardinality({i \in DOMAIN filters : c \in filters[i]})})

\* The pool: what either retriever found, scored by all signals together. The dense
\* side is whatever the host's embeddings ranked, of the allowed chunks.
BuildPool ==
  /\ stage = "pool"
  /\ \E dense \in {NoScores} \cup {[d \in {c} |-> 900] : c \in allowed} :
       LET pool   == DOMAIN lexical \cup DOMAIN dense
           bm25   == [c \in pool |-> IF c \in DOMAIN lexical THEN lexical[c] ELSE 0]
           cosine == [c \in pool |-> IF c \in DOMAIN dense THEN dense[c] ELSE 0]
           fused  == [c \in pool |-> Penalized(Normalized(cosine, c) + Normalized(bm25, c)
                                       + (350 * MetadataScore(c)) \div 1000
                                       + (500 * KeywordScore(c)) \div 1000, c)]
       IN  /\ ranked' = Take(Ranked(pool, fused, InIdOrder), setup.candidateK)
           /\ retrieval' = fused
  /\ stage' = IF ranked' = << >> THEN "done" ELSE "rerank"
  /\ UNCHANGED <<setup, corpus, filters, weights, feedback, allowed, lexical, kept, results, parents>>

\* lexical_cross_encode: how much of the question's information the chunk carries, the
\* terms of feedback left out, and what only the wording of the pair can tell.
Coverage(c) ==
  LET asked == DOMAIN weights \ feedback
      share(terms) == SumOf([t \in terms |-> (weights[t] * Max({IdfOf(t), 50})) \div 1000])
  IN  IF share(asked) = 0 THEN 0 ELSE (1000 * share(asked \cap corpus[c])) \div share(asked)
InteractionScores(wording) ==
  [c \in Members(ranked) |-> Min({1000, (340 * Coverage(c)) \div 1000 + (IF c \in wording THEN 660 ELSE 0)})]
\* http_cross_encode: scores of some candidates, on a scale of its own made 0 .. 1000,
\* the middle of it when they are all equal.
ServiceScores ==
  {[c \in S |-> IF S = {c} THEN 500 ELSE IF c = Min(S) THEN 1000 ELSE 0] : S \in SUBSET Members(ranked) \ {{}}}

\* rerank() and the blend with the retrieval score. A service that cannot be used
\* leaves the work to the interaction scorer; a candidate it did not score keeps the
\* score it came with.
Reranked(scores) ==
  LET inPool == [c \in Members(ranked) |-> retrieval[c]]
      final  == [c \in Members(ranked) |->
                   IF c \in DOMAIN scores
                   THEN Penalized((75 * scores[c] + 25 * Normalized(inPool, c)) \div 100, c)
                   ELSE retrieval[c]]
  IN  Ranked(Members(ranked), final, InIdOrder)
Rerank ==
  /\ stage = "rerank"
  /\ \/ setup.reranker = "none" /\ ranked' = Take(ranked, setup.topK)
     \/ /\ setup.reranker # "none"
        /\ \E wording \in {{}} \cup {{c} : c \in Members(ranked)} :
             ranked' = Take(Reranked(InteractionScores(wording)), setup.topK)
     \/ /\ setup.reranker = "http"
        /\ \E scores \in ServiceScores : ranked' = Take(Reranked(scores), setup.topK)
  /\ stage' = "dedup"
  /\ UNCHANGED <<setup, corpus, filters, weights, feedback, allowed, lexical, retrieval, kept, results, parents>>

\* deduplicate: max(jaccard, containment), which is the containment.
Overlap(c, d) == LET smaller == Min({Cardinality(corpus[c]), Cardinality(corpus[d])})
                 IN  IF smaller = 0 THEN 0 ELSE (100 * Cardinality(corpus[c] \cap corpus[d])) \div smaller
Copies(c, d) == setup.dedup > 0 /\ Overlap(c, d) >= setup.dedup
Survivors(list) ==
  LET upTo[n \in 0 .. Len(list)] ==
        IF n = 0 THEN {}
        ELSE IF \E i \in upTo[n - 1] : Copies(list[n].p, list[i].p) THEN upTo[n - 1]
        ELSE upTo[n - 1] \cup {n}
  IN  upTo[Len(list)]
Deduplicate ==
  /\ stage = "dedup"
  /\ LET order == Ascending(Survivors(ranked)) IN kept' = [n \in DOMAIN order |-> ranked[order[n]]]
  /\ stage' = "mmr"
  /\ UNCHANGED <<setup, corpus, filters, weights, feedback, allowed, lexical, retrieval, ranked, results, parents>>

\* maximal_marginal_relevance: the best first, then what adds most; positions of "kept".
Jaccard(c, d) == IF corpus[c] \cap corpus[d] = {} THEN 0
                 ELSE (1000 * Cardinality(corpus[c] \cap corpus[d])) \div Cardinality(corpus[c] \cup corpus[d])
Relevance(i) ==
  LET scores == {kept[j].score : j \in DOMAIN kept}
      span   == Max(scores) - Min(scores)
  IN  IF span = 0 THEN 500 ELSE (1000 * (kept[i].score - Min(scores))) \div span
Worth(i, chosen) ==
  setup.lambda * Relevance(i)
  - (100 - setup.lambda) * Max({Jaccard(kept[i].p, kept[j].p) : j \in ToSet(chosen)})
NextPick(chosen) ==
  LET left == DOMAIN kept \ ToSet(chosen)
  IN  Min({i \in left : \A j \in left : Worth(i, chosen) >= Worth(j, chosen)})
Picks(count) ==
  LET pick[n \in 0 .. count - 1] == IF n = 0 THEN <<1>> ELSE Append(pick[n - 1], NextPick(pick[n - 1]))
  IN  pick[count - 1]
Diversify ==
  /\ stage = "mmr"
  /\ LET order == Take(IF setup.lambda = 100 THEN [i \in DOMAIN kept |-> i] ELSE Picks(Len(kept)), setup.finalK)
     IN  results' = [n \in DOMAIN order |-> kept[order[n]]]
  /\ stage' = "parents"
  /\ UNCHANGED <<setup, corpus, filters, weights, feedback, allowed, lexical, retrieval, ranked, kept, parents>>

\* recover_parent: the neighbours of the window, one before and one after in turn, as
\* long as the nearer ones leave some of the characters.
Family(c) == {d \in Chunks : (d - 1) \div FamilySize = (c - 1) \div FamilySize} \ {c}
Apart(c, d) == IF d < c THEN c - d ELSE d - c
Nearer(c, d) == {e \in Family(c) : Apart(c, e) < Apart(c, d) \/ (Apart(c, e) = Apart(c, d) /\ e < d)}
ParentOf(c) ==
  {d \in Family(c) : Lengths[d] > 0 /\ Lengths[c] + SumOf([e \in Nearer(c, d) |-> Lengths[e]]) < ParentChars}
RecoverParents ==
  /\ stage = "parents"
  /\ parents' = [c \in Members(results) |-> ParentOf(c)]
  /\ stage' = "done"
  /\ UNCHANGED <<setup, corpus, filters, weights, feedback, allowed, lexical, retrieval, ranked, kept, results>>

PipelineNext == Expand \/ Filter \/ MatchTerms \/ BuildPool \/ Rerank \/ Deduplicate \/ Diversify \/ RecoverParents
PipelineSpec == PipelineInit /\ [][PipelineNext]_pipelineVars

-----------------------------------------------------------------------------
\* A passage reached by guesses alone never has the best lexical score: whatever feedback
\* and expansion add to it stays below what the typed words earn the best passage, as
\* long as the share is a real one (0 is no cap, 100 is a tie).
GuessesStayBelowTheTyped ==
  setup.fraction \in 1 .. 99 /\ BestTyped(weights) > 0
  => \A c \in DOMAIN lexical : TypedScore(weights, c) = 0 => lexical[c] < 100 * BestTyped(weights)

\* What the reranker put first is returned first; the results are of the allowed chunks,
\* no two of them copies; and a candidate is missing only for want of room or because a
\* better one that is returned says the same.
LeftOutForAReason ==
  LET returned == Members(results)
  IN  /\ results[1] = ranked[1]
      /\ Cardinality(returned) = Len(results) /\ returned \subseteq allowed
      /\ \A c, d \in returned : c # d => ~ Copies(c, d)
      /\ \A i \in DOMAIN ranked :
           \/ ranked[i].p \in returned \/ Len(results) = setup.finalK
           \/ \E k \in 1 .. i - 1 : ranked[k].p \in returned /\ Copies(ranked[i].p, ranked[k].p)

\* The text around a result has no gap: between a recovered neighbour and the result,
\* every chunk with text of its own is recovered too.
ContextHasNoGap ==
  \A c \in DOMAIN parents : \A d \in parents[c] :
    \A e \in Chunks : (d < e /\ e < c) \/ (c < e /\ e < d) => e \in parents[c] \/ Lengths[e] = 0

\* What the stages promise each other, through filter, feedback, reranker, deduplication
\* and MMR: retrieve(), _bm25_pass, deduplicate, maximal_marginal_relevance,
\* recover_parent.
BestEvidenceSurvives ==
  /\ stage \in {"pool", "rerank", "dedup", "mmr", "parents", "done"} => GuessesStayBelowTheTyped
  /\ stage \in {"parents", "done"} /\ ranked # << >> => LeftOutForAReason
  /\ stage = "done" => ContextHasNoGap
=============================================================================
