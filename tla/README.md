# CorpusTrace API in TLA+

CorpusTrace is an API server through which people upload documents into *knowledge bases*
("brains"), have them indexed in the background and ask questions about them. This directory
models the parts of the server where an order of events matters, model-checks them with TLC on
small instances, and proves the most important facts with TLAPS for every value of the constants.

Paths below are relative to the repository. Names in `code font` are the source's or the modules'.

## 1. The system

| Component | State it keeps | Operations | Modelled |
|---|---|---|---|
| Indexing jobs (`rag/jobs.py`, worker loop in `main.py`, `models/ingestion.py`) | rows of `ingestion_jobs` and `ingestion_job_items`; in memory: the worker's place, its open transaction | enqueue, claim, run, cancel, discard, finish, reclaim at startup | `Ingestion` |
| Knowledge bases (`rag/service.py`, `controllers/chat_controller.py`) | rows of `resources`, `files`, `document_chunks`, the entity graph; the upload directory | stage, index a document, publish, purge; soft delete, restore, rename | `Ingestion` (the first four) |
| Chat over WebSocket (`controllers/chat_ws_controller.py`) | per connection: the receive loop, one answer task, one `Event`; rows of `chat_history` | authenticate, ask, cancel, ping, deliver, store, disconnect | `ChatSocket`, `DeltaSplit` |
| Chat over HTTP (`controllers/chat_controller.py`) | a generator per request; rows of `chat_history` | stream, persist in `finally` | `AnswerStream` |
| Sign-in and sessions (`controllers/auth_controller.py`, `controllers/user_controller.py`, `routes/auth_middleware.py`) | `users`: lockout counter, OTP, reset and invitation codes; `user_sessions` | login, refresh, logout, sign-up, invitation, verify, resend, reset, change, delete | `Accounts` |
| Roles and permissions (`controllers/roles.py`, `controllers/permissions.py`, `services/user.py`) | `roles`, `permissions`, `role_permissions`, `user_roles` | add, edit, remove, assign | `Roles` |
| LLM settings (`services/llm_provider.py`, catalogue loop in `main.py`) | credential, catalogue and preference rows | save, remove, test, list, refresh, prefer | `LlmSettings` |
| LLM calls (`services/llm_provider.py`) | a request or a stream in flight | open with retries, read, fail | `AnswerStream`; the call that embeds a question is a step of `Answering` |
| Answering (`_plan_answer`, `complete_answer` of `rag/service.py`) | none of its own | plan, embed the question, gate, synthesise, fall back, trace | `Answering` |
| Index cache (`rag/precision/index.py`) | a process-wide LRU cache | get, build, store, invalidate, evict | `PrecisionCache` |
| High-precision retrieval (`rag/precision/`) | none | expand, filter, match, pool, rerank, deduplicate, diversify, recover parents | `PrecisionPipeline` |
| Retrieval modes (`rag/service.py`) | none | six word modes, semantic fusion, evidence gate | `RetrievalModes` |
| Chunking (`rag/chunking.py`) | none | split a text by characters, sentences, paragraphs or pages | `Chunking` |
| Vectors, evaluation, activity log | rows or none | | no: see section 5 |
| Shell: configuration, logging, middleware, schemas, migrations, seeders | none | | no |

### How they interact

* A request handler stores an upload (`enqueue_ingestion`) and returns. The worker loop of *each*
  API process polls `ingestion_jobs` every second and runs one job at a time. They share only
  the database and the upload directory; a cancel reaches a running job as a flag in its row.
* Deleting a base for good (`purge_brain`) and cancelling a job both end in `purge_resource`, which
  removes the files and the rows of the base. The worker, the cancel request and the purge request
  can all be at the same base.
* A chat connection is one coroutine that reads frames and one answer task it spawns; both write to
  the socket. Planning, generation and storage are blocking calls on worker threads, which go on
  when the task that waits for them is cancelled.
* A question reads the base the worker is filling, the settings another request is saving and the
  index cache all threads of the process share. Indexing and purging invalidate the cache from the
  worker's thread, before their commit.
* A role is edited by administrators while users are assigned to it; an account's row is read by
  one request, mailed about, and written by another.
* The streamed body is pulled by the client: the provider is read only when the client reads.

### What is hard

* **Several processes.** `models/ingestion.py:72-74` allows two workers, each with its own loop. A
  claim, a cancel of a queued job and a restart of the other process race for the same row.
* **Transactions and snapshots.** The session is `autoflush=False` on MySQL's default isolation
  level. A poll inside an open transaction reads that transaction's snapshot, an uncommitted
  UPDATE holds a row lock, a failing statement rolls the document's chunks back but not its files.
* **Crashes.** A process may die between any two commits. Nothing notices before the next startup.
* **A cancel at any point** of a job or of an answer, including just after the last place that looks.
* **Read, wait, write.** A request checks a row, sends mail or calls a provider for seconds, and
  writes the columns it changed to whatever the row has become.
* **A cache filled outside its lock**, while the rows it was built from are replaced.
* **Text in pieces.** Deltas end anywhere, budgets and overlaps meet boundaries, and each of eight
  ranking stages may drop what the next would have put first.
* **Asyncio.** The receive loop and the answer task interleave at every `await`; a disconnect
  cancels the task at whatever `await` it is in.

### What makes each component correct

* *Indexing:* one holder per job; a base is answerable only when its indexing is complete; a
  cancelled upload leaves nothing; an outcome is final; every upload gets one; a document's passages
  are its own; the progress shown is the truth.
* *Chat socket:* frames in protocol order, one answer at a time, a cancel hits the question it was
  sent for, the end of an answer means the history holds what was shown, every question ends, and a
  client that is gone holds nothing.
* *Accounts:* a code on the row is one that was mailed, and works once; a reset ends every older
  session; a session that ended stays ended; a lock needs its failures; nobody loses all roles.
* *Answering:* an answer that cites was drawn from the whole base; passages reach
  a model that writes only while the user's switch is on; the cached index is as good as a fresh one;
  a setting moves only when a request named it.
* *HTTP stream:* what is shown is the stripped text however it was cut; the stored turn is what was
  shown; retries are bounded and come before the first byte.
* *Chunking:* every letter is in some passage, every passage can be located, the loops end.
* *Retrieval:* what refines a ranking never replaces it, and what a stage drops, it drops for a reason.

## 2. The modules

| Module | What it is | Code |
|---|---|---|
| `JobLifecycle` | abstract: what an uploader is promised about a job and its base | the status comment of `models/ingestion.py`, `jobs.py` |
| `Ingestion` | detailed: worker, cancel requests, purge, crashes, restarts, database errors | `rag/jobs.py`, staging/indexing/purge of `rag/service.py`, `main.py:94-138` |
| `IngestionProofs` | theorems about `Ingestion`: claims, cancels, the lifecycle; then the rows it leaves | |
| `MCIngestion` | two-document uploads for TLC | |
| `DeltaSplit` | `split_into_deltas` as a recursive function on lengths and positions | `chat_ws_controller.py:83-117` |
| `ChatSocket` | one connection: client, receive loop, answer task, threads | `chat_ws_controller.py`, `persist_chat_turn` |
| `ChatSocketProofs` | theorems about the two | |
| `MCChatSocket` | two questions with a few characteristic answers for TLC | |
| `Roles` | roles, permissions and who holds them; extended by `Accounts` | `controllers/roles.py`, `controllers/permissions.py`, `services/user.py:81-93` |
| `Accounts` | one address: its row, sessions, codes and the requests about it | `controllers/auth_controller.py`, `controllers/user_controller.py`, `routes/auth_middleware.py` |
| `AccountsProofs` | theorems about `Accounts` and `Roles` | |
| `MCAccounts` | symmetry of the requests | |
| `FreshIndex` | abstract: every question is given an index of its own passages | |
| `PrecisionCache` | the shared index cache; implements `FreshIndex` | `rag/precision/index.py` |
| `LlmSettings` | credential, catalogue and preference of a user | `services/llm_provider.py`, `main.py:67-92` |
| `Answering` | composes `PrecisionCache` and `LlmSettings` with bases being indexed and removed | `_plan_answer` .. `answer_question`, `explain_precision_retrieval` |
| `AnsweringProofs` | theorems about `Answering`, the cache and the settings | |
| `MCAnswering` | two bases, two threads, two settings requests | |
| `AnswerStream` | provider request, retries, stream, relay, body, client, stored turn | `llm_provider.py:1437-1766`, `service.py:1286-1377`, `chat_controller.py:144-277` |
| `AnswerStreamProofs` | theorems about `AnswerStream` | |
| `Orders` | finite sets put in order and summed over, without recursion | `sorted`, `sum` |
| `Chunking` | the splitting loops, one turn a step | `rag/chunking.py`, page and paragraph maps of `rag/service.py` |
| `ChunkingProofs` | theorem about `Chunking` | |
| `Ranks` | ranked lists | |
| `RetrievalModes` | one question through a word mode, the fusion and the gate | `rag/service.py:1046-1158, 2037-2856` |
| `PrecisionPipeline` | one question through `retrieve`, one stage a step | `rag/precision/pipeline.py` and what it calls |
| `RetrievalProofs` | theorems about the two | |
| `FiniteInduction` | lemmas: least and greatest number, functions defined step by step, orders and sums of finite sets, ranked lists | |
| `MCTextPath` | `AnswerStream`, `Chunking`, `RetrievalModes` and `PrecisionPipeline` side by side | |

Each module that is checked also holds, just before the definition concerned, the *defects*: the
form the definition would have with a plausible bug (`ClaimUnconditionally`, `StoreWholeAnswer`,
...). No specification uses them. Put in the place of the definition they make a property fail,
which shows the property depends on the code being as it is; `PROJECT.json` lists the pairs.

### `Ingestion`

State is in two groups. *Committed* state is the database and the disk: `status`, `flag`
(`cancel_requested`), `refers` (`resource_id` not NULL), `processed`, `indexed`, `item`, `base`
(`upload_status`), `chunks`, `graph`, `disk`. *Process* state dies with the process: the worker's
place `pc`, its job, document, `start_index`, flushed groups and transaction snapshot, and the
cancel request it is serving (`rpc`, `rjob`, `rseen`). A job owns one base, so both are indexed
by the job.

A commit is a step. Rows flushed and not yet committed are seen by nobody and hold a lock
(`RowLocked`). What a document's transaction has flushed is represented by `done` and becomes rows
in `CommitDocument`.

| Code | Actions |
|---|---|
| `enqueue_ingestion`, `stage_upload` | `Upload` |
| `claim_next_job`: the SELECT, the conditional UPDATE | `PollQueue`, `Claim` |
| `run_job`: head, loop head, linking, end | `LoadJob`, `BeginDocument`, `BeginLinking`, `Link`, `Finish` |
| `ingest_file`, `_embed_chunks` with its polls | `OpenDocument`, `ChunkGroup`, `EndChunking`, `Embed` |
| the error and cancel paths of a document | `DocumentRaises`, `AbortDocument`, `CommitDocument` |
| `_cancel`, `purge_resource` | `CancelAtCheckpoint`, `DiscardFiles`, `CommitDiscard` |
| `request_cancel`: read, flag, claim, discard | `ReadForCancel`, `FlagForWorker`, `ClaimForCancel`, `RequestRemovesFiles`, `RequestCommits` |
| `purge_brain` | `PurgeBase` |
| `reclaim_stranded_jobs` and the start of the loop | `Restart` with `Reclaim` |
| `except` of `run_job`, of the loop, of the request | `JobRaises`, `IterationRaises`, `RequestRaises` |
| a process dies | `Crash` |

Documents are numbers. Of their content the model keeps how many groups of `CANCEL_CHECK_CHUNKS`
chunks they have (`Size`), the sanitized file name (`Name`) and whether embeddings are asked for
(`Embedded`). A chunk records its document, whose bytes it was cut from and its `chunk_index`.

### `ChatSocket`

Frames from the client queue in `inbox`; `shown` is what the client received, in order. The
connection is `conn`; `event` names the question whose `asyncio.Event` the loop's variable `cancel`
holds, and `set` the Events that are set. The task is `task` (the `await` it is at), `q`, the
answer, the number of frames `delivered` and `stopped`. `writing` is a `persist_chat_turn` thread
under way, `stored` and `refused` the outcome in the history.

A step runs from one `await` to the next. `Step(from, frames, to)` is the part all task actions
share. Early returns of `_handle_ask` are actions of their own (`RejectAsk`, `PlanFails`,
`StopBeforeAnswer`, `CompleteFails`). A disconnect (`ReceiveNothing`) ends the task wherever it is,
and a thread it waited for runs on unless it had not started.

A text is its length and the positions of its spaces; a frame is the pair of positions it covers.
That is all `split_into_deltas` and the `strip()` of `persist_chat_turn` look at, with white space
taken to be spaces.

The client is free: nothing makes it wait for an answer before it asks again, cancels or leaves.

### `Accounts` and `Roles`

A request is two steps or three: it reads and checks (`Begin...`), may send mail, and commits
(`Commit...`). What it read travels with it as `seen`; an attribute it sets is written by row id and
only if it changed, as SQLAlchemy does, and a row that is gone fails the request. Sign-up and
invitation flush before they mail, so they hold the row lock meanwhile (`Blocked`). Time is an age
per code (`new`, `good`, `old`) and a lock that runs out. Five ghosts (`wrong`, `used`, `resets`,
`issued`, `presented`) exist for the properties only. A role is removed with its grants by the
foreign keys of the migrations, and `assign_role_for_user` restores what it deleted when its insert
fails.

### `Answering`, `PrecisionCache`, `LlmSettings`

A question is a record of what it read in its snapshot (`ask`) and a place (`pc`). Between two
accesses to shared state a thread is one step. `get_index` is three: `Hit`, or `Miss` (the lock is
released and the index built) and `Store`. Passages are fresh numbers, so two corpora that the
fingerprint does not tell apart would be seen. Evidence scores are left to `RetrievalModes`: here
the gate may go either way (`Judged`).

A plan that goes on to retrieval over a base with vectors first has a provider embed the question:
the place `embedding call`, left by `EmbedQuestion`. It comes after the passages were read and before
the index is asked for, so everything else may happen meanwhile. It is the provider the passages were
embedded with, whatever the request names and whether synthesis is on or off; a trace makes the call
too. Which bases have vectors, and whether that provider can be called, is left open (`Searched`), and
a call that fails leaves retrieval to words, so both outcomes end alike.

| Code | Actions |
|---|---|
| `_plan_answer` up to retrieval, `explain_precision_retrieval` up to retrieval | `Ask` with `Planned` |
| `_semantic_retrieval` | `EmbedQuestion` |
| `get_index` | `GetIndex`: `Hit`, `Miss`, `Store` |
| the mode, the evidence gate, the choice of who writes | `Judge` with `Judged` |
| `complete_answer`, `_guarded_reply`, `_synthesis_failed_answer` | `ModelAnswers`, `ModelFails` |
| the end of the request | `EndAsk` |

Settings requests hold what they read (`sawPref`, `sawCatalogue`) and commit columns. The switch, the
model and each generation parameter are columns of their own; a save that names any parameter carries
all of them, those it leaves out as NULL.

### `AnswerStream`

`said` is all the text the provider sent, `yielded` the pieces the relay and the body produced,
`sent` how many the client took. Words and spaces are single tokens. What a provider's stream may
carry, `Deltas`, is a constant: any non-empty pieces of words and white space. The generator rests while the
client does not ask; `ClientLeaves` suspends it, and it is collected, and the turn stored, at any
later time.

### `Chunking`

Texts are sequences of a letter, a stop and a space; the state is the loop's: spans so far, the next
unit, the region being cut. Offsets are the code's. Stops, breaks and units come in the order
`Ascending` puts them, a definition by places and not by recursion, so that it can be proved about.

### `RetrievalModes` and `PrecisionPipeline`

Scores are integers in thousandths (fusion sums in millionths), so rankings, ties, caps and weights
are the code's up to the last digit; a tie is broken as the code's stable sort does: `Ranked` takes the key that stands for the order the
list was in (`InChunkOrder`, `FirstMet`, `InIdOrder`). Cosines and the
reranking service's scores are chosen freely. In `PrecisionPipeline` a chunk is its set of terms,
so BM25's saturation and length factors are 1, and IDF is a table by document frequency.

## 3. What is checked

Deadlock is not checked in any run: with a bounded number of uploads or questions the system does
come to rest. That it does not come to rest too early is what the liveness properties say.

### Runs that pass

**`ingestion_one_process`** (246,000 states): two uploads of two documents each, the first document
of two chunk groups with embeddings and the second of one without; one process that dies at most
once. Two jobs are what it takes for a worker and a cancel request to be at different jobs, two
documents for a failure or a cancel between documents and for `start_index` to matter, two groups
for a poll with flushed rows behind it, one crash for every place a crash can strike.

* `AnswerableIsComplete`: an answerable base has an outcome for each document, exactly the passages
  of those read, indices without gap or repetition, and its graph.
* `CancelledLeavesNothing`, `PassagesComeFromTheirDocument`, `ProgressIsHonest`,
  `RunningItemIsWorkedOn`, `TerminalIsFinal`, `EveryUploadSettles`.
* `ImplementsLifecycle`: the module implements `JobLifecycle` under the identity mapping on `status`
  and `base`; everything else is hidden.

**`ingestion_two_processes`** (259,000 states): one upload, two processes, two crashes, two
statements refused by the database. `OneHolderPerJob` is the heart: of two polls, or a poll and a
cancel, one wins, and a job that a restart marked failed under its worker is not claimed again.
`TerminalIsFinal` and the lifecycle do *not* hold here (see `restart_beside`).

**`chat_connection`** (205,000 states): two questions, one cancel or other frame, one refused write.
The first answer is empty, white space, one that breaks at a space or one without spaces (the last
two need both frames of `MAX_DELTAS` = 2); the second has one frame. Two questions are what the busy
refusal and a stale cancel need.

* `FramesFollowTheProtocol`, `OneAnswerAtATime`, `CancelStopsNoLaterQuestion`, `EndedMeansStored`,
  `DoneIsTheWholeAnswer`, and `EveryQuestionEnds`, `ConnectionIsReleased` under fairness.
* `SplitIsExact`, an assumption of `MCChatSocket` that TLC evaluates, checks the splitter for all
  1,023 texts of up to nine characters.

**`accounts`** (180,000 states): one address, seeded or new; four requests, two at a time, and an
administrator editing two roles. Four requests are what it takes to register, verify, log in and
reset with another request in between any two of them; two wrong passwords lock.

* `StoredCodeWasMailed`, `SessionHasItsUser`, `UsedCodeIsGone`, `LockNeedsFailures`,
  `ResetEndsSessions`, and the action properties `EndedSessionStaysDead`, `UserKeepsARole`.

**`answering`** (2,061,000 states): a base being indexed, with two documents, and one that was always
ready; a cache with room for one. The initial states come in three families: two threads, with
questions in every mode and traces with two grouping sizes, beside the indexing; one thread beside two
settings requests of a user who has settings; or two requests that make the first ones. One entry for
two bases makes every eviction and every late store happen, also between the embedding of a question
and its index. Two parameter columns stand for the three: what one request names and the other does
not is what matters.

* `IndexIsFresh`: the cache implements `FreshIndex` under the mapping of `want` and `view`, liveness
  included: every question that asked for an index gets one.
* `CitesTheWholeBase`, `SettingsMoveOnlyWhenSaid`.
* `PassagesLeaveBySwitch`: passages go to a model that writes only for a question that named one, was
  asked with the switch on, and has the whole base before it; greetings and refusals are reworded on
  the same terms. `complete_answer` is handed the provider the request named, which the plan dropped
  only for itself, so this rests on what the plan left for it to do (`JudgedByRequest` is the defect).
  It does not say that no provider is called: the question itself is embedded whatever the switch
  says (section 5).

**`text_path`** (1,478,000 states): the sum of four machines that share no state.

* `StreamIsTheStrippedText`, `TurnIsWhatWasShown`, `RetriesAreBounded`: two retries, three events,
  two words with a space on either side, hints below, within and above the cap.
* `ChunksCoverTheText`: all texts of up to seven characters with every placement of pages or
  paragraphs, four strategies, sizes and overlaps that are clamped on both sides. With a minimum
  size of 3 a text of seven needs three chunks and an overlap that steps back.
* `BestMatchIsCited`: every base of three passages out of five kinds, four questions, any
  similarities; two are cited, so something is always left out.
* `BestEvidenceSurvives`: every corpus of three chunks over seven term sets, three configurations
  (all stages; a small reranked pool with a strict deduplication; the optional stages off), any
  dense candidate, any wording score, any answer of the reranking service.

### Runs that show a disagreement

Each checks one statement the repository makes and ends in a counterexample.

| Run | The repository says | The code does |
|---|---|---|
| `restart_beside` | the three terminal states are final (`models/ingestion.py:27`) | with two processes, a restart fails the other's running job and `_finish` overwrites `failed` |
| `cancel_poll` | without the poll Cancel would do nothing for a whole document (`service.py:478`) | the poll reads the snapshot of the document's transaction and never sees the flag |
| `refused_purge` | purge must not lose half a knowledge base (`tests/live/test_knowledge_bases.py:627`) | files go first, then the foreign key refuses the rows |
| `same_names` | the uploaded bytes are saved (`jobs.py:100`) | two names that sanitize alike share one file |
| `chat_lost_turn` | what was already sent is safe (`chat_ws_controller.py:434`) | a disconnect cancels the task before the turn is stored |
| `stale_rotation` | rotation yields a token that is actually usable (`tests/live/test_auth_live.py:378`) | two refreshes with one token both succeed, and the first pair is dead |

### Fairness

* `Ingestion`: the worker loop never ends (`_document_ingestion_worker_loop` catches everything), a
  request thread runs to its end, and a process that died is started again
  (`docker-compose.yml:56`, `restart: unless-stopped`). Users, crashes and errors have none.
* `ChatSocket`: the event loop runs what is ready, a thread returns (its network calls have
  timeouts) and the authentication timer fires. The client has none.

* `Answering`: a thread that has begun to answer runs to the end of its request; nobody has to ask,
  index, remove or save. The other machines have no liveness property and no fairness.

Each is weak fairness of the component's own steps, never of a choice inside them: nothing makes a
provider succeed or a client stay.

## 4. What is proved

Every machine has theorems, each for every value of the constants: any numbers of jobs, documents,
processes, questions, requests, threads, retries; any texts, corpora, questions, answers and
settings; any bounds on crashes and errors. Only the bounds of section 3 are TLC's. Every invariant
of a passing run is proved.

| Module | Theorem | Statement |
|---|---|---|
| `IngestionProofs` | `TypeCorrect` | `Spec => []TypeOK` |
| | `ClaimIsExclusive` | `Spec => []OneHolderPerJob` |
| | `CancelDiscards` | `Spec => []CancelledLeavesNothing` |
| | `BaseOutlives` | `Spec => []BaseOutlivesItsWorker` |
| | `OneProcessImplements` | with one process, `Spec => ImplementsLifecycle` |
| | `OneProcessSettlesOnce` | with one process, `Spec => TerminalIsFinal` |
| | `CompleteBeforeAnswering` | `Spec => []AnswerableIsComplete` |
| | `ProgressCounts` | `Spec => []ProgressIsHonest` |
| | `DistinctNamesKeepSources` | with distinct file names, `Spec => []PassagesComeFromTheirDocument` |
| | `OneProcessItemsAreWorkedOn` | with one process and no refused statement, `Spec => []RunningItemIsWorkedOn` |
| `ChatSocketProofs` | `SplitIsExact` | for every text, `Exact(text, Split(text))` |
| | `TypeCorrect` | `Spec => []TypeOK` |
| | `StagesAreFollowed` | `Spec => []FramesFollowTheProtocol` |
| | `AnswersNeverMix` | `Spec => []OneAnswerAtATime` |
| | `CancelsDoNotLatch` | `Spec => []CancelStopsNoLaterQuestion` |
| | `TheEndIsStored` | `Spec => []EndedMeansStored` |
| | `DoneMeansAll` | `Spec => []DoneIsTheWholeAnswer` |
| `AccountsProofs` | `TypeCorrect` | `Spec => []TypeOK` |
| | `CodesAreMailed`, `CodesAreSpent` | `Spec => []StoredCodeWasMailed`, `Spec => []UsedCodeIsGone` |
| | `SessionsHaveTheirUser` | `Spec => []SessionHasItsUser` |
| | `LocksAreEarned` | `Spec => []LockNeedsFailures` |
| | `ResetsEndSessions` | `Spec => []ResetEndsSessions` |
| | `SessionsStayDead`, `UsersKeepARole` | `Spec => EndedSessionStaysDead`, `Spec => UserKeepsARole` |
| `AnsweringProofs` | `TypeCorrect` | `Spec => []TypeOK` |
| | `WholeBaseIsCited` | `Spec => []CitesTheWholeBase` |
| | `PassagesAreSentBySwitch` | `Spec => []PassagesLeaveBySwitch` |
| | `PreferencesMoveWhenSaid` | `Spec => SettingsMoveOnlyWhenSaid` |
| | `IndexGivenIsFresh` | the safety half of `IndexIsFresh`: every step maps to one of `FreshIndex` or a stutter |
| `AnswerStreamProofs` | `StreamsWhatBlockingReturns` | `StreamSpec => []StreamIsTheStrippedText` |
| | `TurnsAreWhatWasShown` | `StreamSpec => []TurnIsWhatWasShown` |
| | `ProviderIsAskedInBounds` | `StreamSpec => RetriesAreBounded` |
| `ChunkingProofs` | `TextIsCovered` | `ChunkSpec => []ChunksCoverTheText` |
| `RetrievalProofs` | `RefinementNeverReplaces` | `ModeSpec => []BestMatchIsCited` |
| | `EvidenceIsKept` | `PipelineSpec => []BestEvidenceSurvives` |

### From which assumptions

Every assumption on a constant is named in the module that declares it. Most only give a constant
its type: counts are natural numbers, a limit is positive where the code clamps or hard-codes one
(`MaxFailsAssumption`, `CacheCapAssumption`, `RolesAssumption`, `DeltasAssumption`), there is a
seeded model (`SeedsAssumption`). The others:

* `AnswersAssumption`: an answer is a text, a length with the positions of its spaces.
* `StreamAssumption`: the backoff is not negative (`_retry_delay` takes its maximum with 0) and a
  delta is not empty (each of the four parsers yields only text it found).
* `WordsAssumption`: what a model writes is told from the pieces the code writes itself. In the
  program both are strings and the properties do not ask which wrote them; the model's names must be
  distinct for `turn` and `Notes` to mean what they say.
* `ChunkingAssumption`: a size is at least 3 and the bounds are in order; the code's are 200 and 4000
  (`chunking.py:42-43`). With a size of 1 or 2 and the overlap clamped to half of it a window could
  begin at the space before the letter the last one began with.
* `TextsAssumption`: a text is not empty and has no space at either end or next to another, which is
  what `_normalize_whitespace` leaves; of an empty text there are no spans (`chunking.py:162`).
* `RetrievalAssumption`: an answer cites no more passages than enter a fusion (5 and 8 in the code),
  and a passage without a vector has similarity 0.
* `PipelineAssumption`: what `PrecisionConfig` clamps (`config.py:201-240`): shares and thresholds
  between 0 and 1, limits that are not negative, a candidate pool and results of at least one. The
  sizes of pool, rerank and result need not be in order.
* `QuestionsAssumption`, `NobodyAssumption`: the value for "nobody" is no question and no want.

Three hypotheses are of single theorems. *One process* (any two processes are the same one):
`restart_beside` shows that `TerminalIsFinal` needs it. `DistinctNames`: `same_names` shows that
sources are lost without it. `LoneProcess` adds to one process that the database refuses nothing: an
error `run_job` catches leaves the item at `running` under a failed job.

### Along which argument

None of the properties is inductive. Behind those of each module is an invariant that is; TLC checked
it before it was proved, and a step is opened once per action.

**`IngestionProofs`.** `IndType` adds to `TypeOK` what a worker's place says of its variables.
`ClaimInv`: a worker is at a job that is running or was failed by a restart; a request that took a
job holds it in the queue, under its row lock; neither is shared. That is why the conditional UPDATE
of `claim_next_job` is enough: a job a worker holds is not `queued`, and nothing puts a job back.
`BaseInv`: a base exists exactly while its job is neither absent nor cancelled, so a cancel never
frees a base that a worker still fills. For the refinement, `PublishInv` (a base is published by the
step before `_finish`) and `LoneInv` (with one process the worker's job is running). Steps of
`run_job` that neither take nor release a job keep `StaysAtWork` and `OwnBaseOnly`, proved once per
action.

**`IngestionProofs`, the rows.** `RowsOK` says what the committed rows of a job say of each other: passages
numbered from 0 to `indexed_chunks`, as many of each document as it has when it was read and none
otherwise, `processed` the number of settled items. `WorkerOK` says what a worker's place adds:
items before `pos` are settled, those after are untouched, `start_index` is `indexed_chunks`, and
what is flushed of the document it is in. A commit moves a whole interval of passages into the rows,
and the cardinality of an interval is the only counting needed. `FilesOK` and `BytesOK` carry a
document's own bytes from the upload to the chunk.

**`ChatSocketProofs`.** `Queue` orders what the client sent against what was answered; `Cancels`
says that a set Event belongs to a question no later than the last cancel; `Place` says how much is
delivered and stored by where the task is; `Screen` says what the client sees, as facts about the
whole sequence of frames (`FollowsProtocol`, `OneAtATime`, `CancelledBy`) and the last frame of the
current question (`LastIs`, which is what makes the next frame legal). What the client has collected
of an answer is the part that was sent (`Sent`), so at "done" it is the whole `Split`, and
`SplitIsExact` says that is the text.

**`ChatSocketProofs`, the pieces.** A frame ends after it begins and within the text; the loop takes at most the
turns that were decided, which are at most `MAX_DELTAS`; and the last of them takes all that
remains, so the text is used up even when every frame before broke early at a space. The frames join
because each begins where the one before ended.

**`AccountsProofs`.** The parts of `IInv` and what each is needed for are listed at the head of the
module. The core is `NumberInv`: a code a request has drawn and not yet stored is on no column, with
no other request and never used; so a stale write, which is what requests do here, can overwrite a
code but not bring a spent one back. `RowInv` says what a request that read the row may still assume
of it: nobody replaces a row someone has logged into.

**`AnsweringProofs`.** `CorpusInv` is what makes a lookup sound: the fingerprint compares the number
of passages and the two ends only, and two corpora of one base with one length are equal because
both are the beginning of one growing list. It speaks of what a question *read*, not only of what it
wants of the cache: the embedding call lies between, and the list may have grown, or the base be gone,
when the index is asked for. `Served`: what a thread built or was given is made from
what it wanted; `Founded` and `WantsOK`: what a question's place says was already checked for it.
`SettingsInv`: rows are rewritten and deactivated by other requests but never taken away, so what an
open request read when it began is still there.

**`AnswerStreamProofs`.** `Flowing`: what was said is white space, what was yielded, and the white
space held back; and what was yielded begins and ends with a word. A text has one such
decomposition, so stripping what was said gives what was yielded (`StripIs`). That is an argument
about sequences, not about pieces, which is why it holds however the provider cuts. `Attended`: at
most one piece is under way, and a provider is read only when none is. `Budget`: each retry adds at
most `SleepCap`.

**`ChunkingProofs`.** A strategy's regions, pages or units, are laid out from one end of the text to
the other, with nothing but white space between two (`Layout`). `SplitInv` says that everything
before the place the loops have reached (`Frontier`) is in a passage, and that the last passage
began before it, so the next begins later still. Two places need care. A window of the character
splitter may step back over its overlap; of two characters in a row one is solid (`SomethingSolid`),
so as long as the window moves by two, which a size of 3 is enough for, its first letter is a later
one. A chunk of units ends where its last unit does, and the next begins at a unit that was not the first of this one (`UnitsOfAChunk`),
whatever the overlap asks for. A stripped slice of a page lies on that page and touches no other
(`RegionsAreApart`).

**`RetrievalProofs`, the modes.** A ranking of `S` is a list of members of `S` that names none twice
(`Rankings`), and each operator is shown to make one of another: scoring, cutting, fusing, merging,
picking by source. `FirstOfTheFirstStays` is the heart of `BestMatchIsCited`: in a reciprocal rank
fusion of two lists the first of the first counts for at least `1/61`; a passage only the second
names counts for no more and is met later, so everything that stands before it is in the first list
too. That list has at most `CitedK` passages, and the fusion keeps `CitedK`. `BoostIs` and `AffinityIs` bound what the
graph adds by 35% of the best score by words, and a sorted list passes that bound on to every pair.
`ModeInv` carries what each step has found to the next (`Retrieved`, `Blended`).

**`RetrievalProofs`, the pipeline.** `PipelineInv` holds what each stage leaves for those that
follow: scores whose guesses stay below the typed (`ScoresSoFar`), candidates of the allowed chunks
that name none twice (`CandidatesSoFar`), results with a reason for each absence
(`ResultsSoFar`), contexts (`ParentsSoFar`). `SurvivorsAre` is an induction along the candidates: what
is dropped is a copy of something kept before it. `PicksAre` is one along the picks: MMR only orders
what is left until it has all of it or as many as asked, and its first pick is the first candidate, so
it drops for want of room alone. `NoGap`: of two neighbours on one side the nearer has no more text before it than the farther (`SumOfPart`), so it is taken whenever that is.

Recursive functions (`end` of `DeltaSplit`, `Joined`, `Doublings`, the loops of `Left`, `Survivors`,
`Picks` and `Diverse`) are reasoned about through `FiniteInduction`: a function that goes wrong at all
first goes wrong at some number, and the step there contradicts it. The least number exists because
the order of the numbers is well-founded, a fact of the library about sets, so no induction scheme
with an operator parameter is needed. Orders go the same way: the place of an element is the number of
those before it, places of a finite total order are all different and therefore all taken
(`OrderIsComplete`), which makes `CHOOSE` of an element by its place well defined. A sum over a finite
set is what one function on its subsets computes (`PartialSums`), whatever the order of the summands.

### Only model-checked

* Liveness: `EveryUploadSettles`, `EveryQuestionEnds`, `ConnectionIsReleased`, and the fairness half
  of `IndexIsFresh`. Fairness and ENABLED are out of the prover's reach. That the loops of `Chunking`
  end is in `ChunksCoverTheText` as far as safety can say it: passages begin ever later in the text.

## 5. What the models leave out

* `Ingestion`: listings, the indexing settings of a document beyond embeddings, the text
  extractors (a document is readable or raises), soft delete and rename, the activity log, the
  *partial* outcome's reason. Row locks are modelled for the job row only. Under REPEATABLE READ
  only the read that decides something, `cancel_requested`, goes through the snapshot.
* `ChatSocket`: the content of frames other than deltas, how plan and answer come about, token
  verification (good or bad), ids chosen by the client, several connections (they share nothing
  but the history), shutdown of the server.
* `Accounts`: other addresses (an account shares only roles with them), password hashing, token
  signatures and expiry, rate limits, profile edits that touch no column of the model, reads
  (`verify_otp`, `verify_token`, profiles). `Roles`: names and descriptions, the pure look-up of a
  permission.
* `Answering`: wording, the cosine index, and the age of a snapshot within one request: what a plan
  reads is read at its first query, as REPEATABLE READ gives it.
* `AnswerStream`: the bytes of the four wire formats, proxies, redirects. `http.client` errors that
  are no `OSError` are treated as stream errors.
* `Chunking`: extraction of text from PDF, DOCX, XLSX and tables; titles; contextualised content.
* `RetrievalModes`, `PrecisionPipeline`: tokenising, stop words, spelling correction, category and
  heading detection, embedding calls; term frequencies and lengths in BM25.
* Not modelled at all: the *vector codec* (packing and rounding of IEEE 754 numbers), *evaluation
  and benchmark* (offline floating point metrics), the *activity log* (appended in the caller's
  transaction, read by nothing), the *shell*, and *migrations, seeders and scripts*, which an
  operator runs once. What they contribute (foreign keys, seeded rows, limits) is in the models.
* Embeddings can cost an answer. `service.py:2680-2682` and `tests/unit/test_semantic_retrieval.py:11`
  say that enabling them can never make the system refuse a question it used to answer, because
  similarity is only added to the evidence gate. The gate reads the first three passages of the
  *fused* ranking, though. With the code's limits, a question of four words, a passage with two of
  them and no vector, and three passages with one of them and a similarity of 0.15 under a floor of
  0.20: the first alone gives a coverage of a half and an answer; fused, it scores 1/61 in one list,
  the three about 2/62 in two, so it is fourth, the coverage is a quarter, and the question is
  refused. `RetrievalModes` reaches this by `Retrieve`, `Blend` and `JudgeEvidence`. No run states it.
* Other things seen while modelling retrieval and streams that no run states: an
  `expansion_max_fraction` of 0 switches the cap on guesses off instead of closing it (`pipeline.py:451`); a literal match can rank below a
  guess when it is not the *best* literal match, which `pipeline.py:417` does not say; a reranking
  service that scores only some candidates leaves the others on the scale of the pool, above the
  scored ones (`pipeline.py:310-313`); a stream whose only delta was white space and then fails
  yields just the note although nothing is on the wire (`service.py:1364`); a connection test
  records its verdict on a key that was replaced meanwhile; two overlapping catalogue refreshes can
  leave no active model until the next listing refreshes again; `add_role` that dies between its two
  commits leaves a role that grants nothing.
* The switch is about synthesis, not about every provider. With `llm_enabled` off, `_plan_answer` still
  embeds the question with the user's credential when the base carries vectors
  (`service.py:1056-1069, 2246`), and so does a trace; the passages themselves went to the embedding
  provider when they were indexed, by the setting of the document. `plan_answer` is documented as
  stopping "before any provider call" (`service.py:1231`), which neither that call nor a guarded reply
  keeps to. `Answering` takes both steps; no property says otherwise.
* A save that names only `temperature` clears `max_tokens` and `top_p` (`llm_controller.py:89-99`,
  `llm_provider.py:544-547`). The comment there promises only that saving a model alone keeps them,
  and `SettingsMoveOnlyWhenSaid` counts the columns sent along as named.
* Things the models show that no document forbids: a cancel accepted after the last checkpoint is
  acknowledged and dropped; `_finish` runs outside the
  `try`, so a refused commit leaves an answerable base under a `running` job until a restart calls it
  failed with "Please upload again"; a queued cancel that dies between removing the files and its
  commit leaves a queued job without files, which later *succeeds* with every document failed; a
  terminal frame is seen before `pending.done()`, so a prompt next question may be refused with 409;
  an error that `run_job` itself catches leaves the item it was at shown as `running` under a failed
  job, which is why `OneProcessItemsAreWorkedOn` assumes a database that refuses nothing.

## 6. Plan

1. **Done, models:** `JobLifecycle`, `Ingestion`, `DeltaSplit`, `ChatSocket`, `Roles`, `Accounts`,
   `FreshIndex`, `PrecisionCache`, `LlmSettings`, `Answering`, `AnswerStream`, `Orders`, `Chunking`,
   `Ranks`, `RetrievalModes`, `PrecisionPipeline`.
2. **Done, proofs:** `IngestionProofs`, `ChatSocketProofs`, `AccountsProofs`, `AnsweringProofs`,
   `AnswerStreamProofs`, `ChunkingProofs`, `RetrievalProofs`, on `FiniteInduction`.
3. **Open:** term frequencies and lengths in BM25, and a budget by characters in
   `RecoverParents` that keeps which part of a neighbour is cut; soft delete and restore of a base
   beside its indexing; a statement, in the repository, of whose verdict a connection test records
   (`llm_provider.py:388`) and of what a late cancel means (`jobs.py:325`), for properties to follow.
