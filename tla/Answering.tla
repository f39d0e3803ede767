----------------------------- MODULE Answering -----------------------------
(***************************************************************************)
(* Questions over knowledge bases that are still being indexed, ready, or  *)
(* being removed: _plan_answer and complete_answer of src/rag/service.py,  *)
(* and explain_precision_retrieval, which answers a diagnostic request     *)
(* without asking whether the base is ready. A question reads the database *)
(* in one snapshot; the index cache is shared by the threads; whether an   *)
(* LLM is asked depends on the user's settings.                            *)
(***************************************************************************)
EXTENDS PrecisionCache, LlmSettings

CONSTANTS Legacy,     \* bases indexed before jobs existed: ready from the start
          Documents,  \* documents a new base is uploaded with
          MaxChunks   \* bound on the passages of a document

\* A question as it was asked, with what it read of the database.
Questions == [base : Bases, trace : BOOLEAN, precise : BOOLEAN, llm : BOOLEAN, group : Groups, ready : BOOLEAN,
              rows : Corpora, left : 0 .. Documents, on : BOOLEAN, key : BOOLEAN]

ASSUME LegacyAssumption    == Legacy \subseteq Bases
ASSUME BoundsAssumption    == Documents \in Nat /\ MaxChunks \in Nat /\ Groups # {}
ASSUME QuestionsAssumption == Nobody \notin Questions

VARIABLES rows,     \* [Bases -> committed passages, in chunk_index order]
          left,     \* [Bases -> documents not indexed yet]
          state,    \* [Bases -> "indexing", "ready" or "gone"]
          nextId,   \* the next fresh passage id
          pending,  \* [Bases -> passages flushed and not committed, Nobody if none]
          ask,      \* [Askers -> the question being answered, Nobody if none]
          pc        \* [Askers -> where the question stands, or how it was answered]

baseVars == <<rows, left, state, nextId, pending>>
askVars == <<ask, pc>>
vars == <<baseVars, askVars, cacheVars, settingVars>>

DefaultGroup == CHOOSE g \in Groups : TRUE
\* How a question ends. "extract" is the answer retrieval composed; "extract and
\* note" is that answer with the reason why no model wrote one.
Citing == {"extract", "extract and note", "synthesis"}
Replies == Citing \cup {"trace", "not ready", "no passages", "fixed wording", "guarded answer"}
\* A thread "away" takes no question; the others are idle between two.
Steps == Replies \cup {"away", "idle", "embedding call", "indexing", "ranked",
                       "guarded call", "grounded call"}

Init ==
  /\ rows = [b \in Bases |-> IF b \in Legacy THEN <<1>> ELSE << >>]
  /\ left = [b \in Bases |-> IF b \in Legacy THEN 0 ELSE Documents]
  /\ state \in {f \in [Bases -> {"indexing", "ready", "gone"}] :
                   \A b \in Bases : f[b] = "ready" <=> b \in Legacy}
  /\ nextId = 2
  /\ pending = [b \in Bases |-> Nobody]
  /\ ask = [a \in Askers |-> Nobody]
  /\ pc \in [Askers -> {"idle", "away"}]
  /\ CacheInit /\ SettingsInit

-----------------------------------------------------------------------------
(* The indexing worker and removal, as far as questions see them.          *)

\* ingest_file drops the cached index after its flush and before its commit.
FlushDocument(b) ==
  /\ state[b] = "indexing" /\ left[b] > 0 /\ pending[b] = Nobody
  /\ \E n \in 0 .. MaxChunks :
       /\ pending' = [pending EXCEPT ![b] = [i \in 1 .. n |-> nextId + i - 1]]
       /\ nextId' = nextId + n
  /\ Invalidate(b)
  /\ UNCHANGED <<rows, left, state>>

CommitDocument(b) ==
  /\ pending[b] # Nobody
  /\ rows' = [rows EXCEPT ![b] = @ \o pending[b]]
  /\ left' = [left EXCEPT ![b] = @ - 1]
  /\ pending' = [pending EXCEPT ![b] = Nobody]
  /\ UNCHANGED <<state, nextId, cacheVars>>

\* Only after the last document does run_job make the base answerable.
Publish(b) ==
  /\ state[b] = "indexing" /\ left[b] = 0
  /\ state' = [state EXCEPT ![b] = "ready"]
  /\ UNCHANGED <<rows, left, nextId, pending, cacheVars>>

\* purge_resource: of a cancelled upload, or by the owner of a base no job names.
\* The index is dropped before the commit.
BeginPurge(b) ==
  /\ state[b] = "indexing" \/ (state[b] = "ready" /\ b \in Legacy)
  /\ pending[b] = Nobody
  /\ Invalidate(b)
  /\ UNCHANGED baseVars
CommitPurge(b) ==
  /\ state[b] = "indexing" \/ (state[b] = "ready" /\ b \in Legacy)
  /\ pending[b] = Nobody
  /\ state' = [state EXCEPT ![b] = "gone"]
  /\ rows' = [rows EXCEPT ![b] = << >>]
  /\ UNCHANGED <<left, nextId, pending, cacheVars>>

BaseStep(b) == \/ FlushDocument(b) \/ CommitDocument(b) \/ Publish(b)
               \/ BeginPurge(b) \/ CommitPurge(b)

-----------------------------------------------------------------------------
(* A question. What a thread does between two shared accesses is one step. *)

\* The switch is enforced by the plan, which drops the provider and the model the
\* request named; the call itself needs a credential.
MayUseModel(q) == q.llm /\ q.on

\* _guarded_reply: the model, under guardrails, where there is one to ask.
Guarded(q) == IF MayUseModel(q) /\ q.key THEN "guarded call" ELSE "fixed wording"

\* _semantic_retrieval: where passages carry vectors, the question is embedded by
\* the provider they were embedded with, whatever the request names and the switch
\* says. Which bases carry vectors, and whether that provider, which need not be the
\* one of creds, can be called at all, is left open: without either the step is inert.
Retrieval(q) == IF q.precise THEN "indexing" ELSE "ranked"
Searched(q) == {Retrieval(q)} \cup IF q.rows = << >> THEN {} ELSE {"embedding call"}

\* Small talk and questions about the world outside come before the passages.
Considered(q) == {Guarded(q)} \cup IF q.rows = << >> THEN {"no passages"} ELSE Searched(q)

\* A base that is still being indexed answers from what has landed so far.
PlannedEarly(q) == IF q.trace THEN Searched(q) ELSE Considered(q)

\* _plan_answer up to retrieval. A base that is not ready answers nothing. The trace
\* asks none of this.
Planned(q) ==
  IF q.trace THEN Searched(q) ELSE IF q.ready THEN Considered(q) ELSE {"not ready"}

\* complete_answer goes by the provider it is handed, which the plan dropped for
\* itself only.
JudgedByRequest(q) ==
  IF q.trace THEN {"trace"}
  ELSE {Guarded(q), IF ~ q.llm THEN "extract"
                    ELSE IF q.key THEN "grounded call" ELSE "extract and note"}

\* After retrieval, the evidence gate, whose scores are not modelled: a result too
\* weak is answered under guardrails, a sufficient one is written by the model,
\* or given as it is when there is none or its key is missing.
Judged(q) ==
  IF q.trace THEN {"trace"}
  ELSE {Guarded(q), IF ~ MayUseModel(q) THEN "extract"
                    ELSE IF q.key THEN "grounded call" ELSE "extract and note"}

\* get_user_resource finds the base; everything the plan reads of the database
\* comes from the snapshot that query opens.
Ask(a) ==
  /\ pc[a] = "idle"
  /\ \E b \in {x \in Bases : state[x] # "gone"}, trace, precise, llm \in BOOLEAN, g \in Groups :
       LET q == [base |-> b, trace |-> trace, precise |-> precise, llm |-> llm, group |-> g,
                 ready |-> state[b] = "ready", rows |-> rows[b], left |-> left[b],
                 on |-> SynthesisOn(pref), key |-> ActiveCreds(creds) # {}]
       IN  /\ IF trace THEN precise /\ ~ llm ELSE g = DefaultGroup
           /\ ask' = [ask EXCEPT ![a] = q]
           /\ \E step \in Planned(q) :
                /\ pc' = [pc EXCEPT ![a] = step]
                /\ IF step = "indexing" THEN Want(a, b, rows[b], g) ELSE UNCHANGED cacheVars

\* The provider has embedded the question or failed: either way retrieval goes on,
\* with the passages read before the call.
EmbedQuestion(a) ==
  /\ pc[a] = "embedding call"
  /\ pc' = [pc EXCEPT ![a] = Retrieval(ask[a])]
  /\ IF ask[a].precise THEN Want(a, ask[a].base, ask[a].rows, ask[a].group) ELSE UNCHANGED cacheVars
  /\ UNCHANGED ask

Judge(a) ==
  /\ pc[a] = "ranked" \/ (pc[a] = "indexing" /\ view[a] # NoIndex)
  /\ \E step \in Judged(ask[a]) : pc' = [pc EXCEPT ![a] = step]
  /\ UNCHANGED <<ask, cacheVars>>

ModelAnswers(a) ==
  /\ pc[a] \in {"guarded call", "grounded call"}
  /\ pc' = [pc EXCEPT ![a] = IF @ = "guarded call" THEN "guarded answer" ELSE "synthesis"]
  /\ UNCHANGED <<ask, cacheVars>>
\* A provider that fails costs the wording and never the answer.
ModelFails(a) ==
  /\ pc[a] \in {"guarded call", "grounded call"}
  /\ pc' = [pc EXCEPT ![a] = IF @ = "guarded call" THEN "fixed wording" ELSE "extract and note"]
  /\ UNCHANGED <<ask, cacheVars>>

\* The request ends and its view of the index with it.
EndAsk(a) ==
  /\ pc[a] \in Replies
  /\ pc' = [pc EXCEPT ![a] = "idle"]
  /\ ask' = [ask EXCEPT ![a] = Nobody]
  /\ IF view[a] # NoIndex THEN Release(a) ELSE UNCHANGED cacheVars

QuestionStep(a) == EmbedQuestion(a) \/ Judge(a) \/ ModelAnswers(a) \/ ModelFails(a) \/ EndAsk(a)

IndexStep(a) == GetIndex(a) /\ UNCHANGED askVars

Next ==
  \/ \E b \in Bases : BaseStep(b) /\ UNCHANGED <<askVars, settingVars>>
  \/ \E a \in Askers : (Ask(a) \/ QuestionStep(a) \/ IndexStep(a)) /\ UNCHANGED <<baseVars, settingVars>>
  \/ SettingsNext /\ UNCHANGED <<baseVars, askVars, cacheVars>>

\* A thread that has begun to answer runs on; nobody has to ask, index or remove.
Fairness == \A a \in Askers :
              WF_vars((QuestionStep(a) \/ IndexStep(a)) /\ UNCHANGED <<baseVars, settingVars>>)

Spec == Init /\ [][Next]_vars /\ Fairness

-----------------------------------------------------------------------------
(* Properties.                                                             *)

\* The types of the variables, the cap on the cache and one entry per base, and a
\* thread that holds an index for as long as it uses it.
TypeOK ==
  /\ \A b \in Bases : state[b] \in {"indexing", "ready", "gone"} /\ left[b] \in 0 .. Documents
  /\ \A a \in Askers : /\ pc[a] \in Steps
                       /\ (ask[a] = Nobody) <=> (pc[a] \in {"idle", "away"})
                       /\ want[a] # Nobody => ask[a] # Nobody
  /\ CacheTypeOK /\ SettingsTypeOK

\* The question has the whole base before it: every document had been indexed when
\* it was read and, in the high-precision mode, the index covers exactly its passages.
HasTheWholeBase(a) ==
  /\ ask[a].left = 0 /\ ask[a].rows # << >>
  /\ ask[a].precise => view[a].of = ask[a].rows /\ view[a].group = DefaultGroup

\* An answer that cites passages was drawn from the whole base, however the index
\* came out of the cache and whatever happened to base and cache while the question
\* was being embedded. The diagnostic trace makes no such promise
\* (src/rag/service.py:1004-1009, 2509-2546).
CitesTheWholeBase == \A a \in Askers : pc[a] \in Citing => HasTheWholeBase(a)

\* Passages go to a model that writes only for a question that named one and was
\* asked with the user's switch on, over a base it has the whole of; a greeting or a
\* refusal is reworded by a model on the same terms. Neither another request's save
\* nor the embedding call, which the switch does not stop, lets a question past that
\* (src/rag/service.py:1011-1017, 1056-1069, 1140-1147, 1255-1261).
PassagesLeaveBySwitch ==
  \A a \in Askers :
     /\ pc[a] \in {"guarded call", "grounded call"} => ask[a].llm /\ ask[a].on /\ ask[a].ready
     /\ pc[a] = "grounded call" => HasTheWholeBase(a)
=============================================================================
