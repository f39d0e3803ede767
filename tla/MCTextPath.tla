----------------------------- MODULE MCTextPath -----------------------------
(***************************************************************************)
(* Four machines that share no state, checked by one run: a document's     *)
(* text becoming passages, a question finding some of them in the ordinary *)
(* modes and in the high-precision mode, and the answer on its way to the  *)
(* client. An initial state starts one of them and leaves the others idle, *)
(* so the states are the sum of the four, not their product.               *)
(***************************************************************************)
EXTENDS AnswerStream, Chunking, RetrievalModes, PrecisionPipeline

\* AnswerStream: an overdue hint, one to obey and one to clamp.
MCHints == {-1, 3, 100}
\* Short runs of words and whitespace.
MCDeltas == LET word == {"x", "y"}
            IN  {<<" ">>} \cup {<<w>> : w \in word} \cup {<<w, " ">> : w \in word}
                \cup {<<" ", w>> : w \in word} \cup {<<v, " ", w>> : v, w \in word}

\* Chunking: every normalized text of up to seven characters, and sizes and overlaps
\* below, within and above what is allowed.
Characters == {"a", ".", " "}
MCTexts == {t \in UNION {[1 .. n -> Characters] : n \in 1 .. 7} :
              /\ t[1] # " " /\ t[Len(t)] # " "
              /\ \A i \in 1 .. (Len(t) - 1) : ~ (t[i] = " " /\ t[i + 1] = " ")}
MCRawSizes == {-1, 3, 5, 9}
MCRawOverlaps == {-1, 1, 9}

\* RetrievalModes: passages with one, two and no word of a question, a table among them.
Kind(words, title, modality, source) ==
  [words |-> words, title |-> title, modality |-> modality, source |-> source]
MCKinds == {Kind(<<"pool">>, {}, "text", "manual"), Kind(<<"pool", "size">>, {"pool"}, "table", "sheet"),
            Kind(<<"size", "pool", "other">>, {}, "text", "sheet"), Kind(<<"other">>, {}, "text", "manual"),
            Kind(<<"compare", "size">>, {}, "text", "manual")}
MCQuestions == {<<"pool">>, <<"pool", "size">>, <<"compare", "pool", "size">>, << >>}
MCModalityWords == [size |-> "table"]

\* PrecisionPipeline: a question of two words, one offered synonym and one rediscovered
\* word, and chunks that hold the question, the guesses or both.
MCTermSets == {{"t"}, {"u"}, {"t", "u"}, {"g"}, {"g", "f"}, {"t", "g"}, {"u", "f"}}
MCExpansions == <<[term |-> "t", weight |-> 450], [term |-> "g", weight |-> 450], [term |-> "h", weight |-> 405]>>
MCIdf == [df \in 0 .. 3 |-> CASE df = 0 -> 2080 [] df = 1 -> 980 [] df = 2 -> 470 [] df = 3 -> 134]
MCFilters == {<< >>, <<{1, 2}>>, <<{1, 2}, {2, 3}>>}
MCLengths == <<4, 0, 5>>
Setup(budget, fraction, survivors, topK, finalK, dedup, lambda, reranker) ==
  [budget |-> budget, fraction |-> fraction, prfDocuments |-> 2, prfTerms |-> 1, survivors |-> survivors,
   candidateK |-> 3, topK |-> topK, finalK |-> finalK, dedup |-> dedup, lambda |-> lambda, reranker |-> reranker]
MCSetups == {Setup(1, 35, 1, 3, 2, 90, 70, "http"), Setup(2, 35, 2, 2, 2, 50, 100, "lexical"),
             Setup(0, 0, 1, 3, 1, 0, 70, "none")}

textVars == <<streamVars, chunkVars, modeVars, pipelineVars>>
MCInit == \/ StreamInit /\ ChunkIdle /\ ModeIdle /\ PipelineIdle
          \/ StreamIdle /\ ChunkInit /\ ModeIdle /\ PipelineIdle
          \/ StreamIdle /\ ChunkIdle /\ ModeInit /\ PipelineIdle
          \/ StreamIdle /\ ChunkIdle /\ ModeIdle /\ PipelineInit
MCNext == \/ StreamNext /\ UNCHANGED <<chunkVars, modeVars, pipelineVars>>
          \/ ChunkNext /\ UNCHANGED <<streamVars, modeVars, pipelineVars>>
          \/ ModeNext /\ UNCHANGED <<streamVars, chunkVars, pipelineVars>>
          \/ PipelineNext /\ UNCHANGED <<streamVars, chunkVars, modeVars>>
MCSpec == MCInit /\ [][MCNext]_textVars
=============================================================================
