------------------------------ MODULE Ingestion ------------------------------
(***************************************************************************)
(* The document-indexing worker (rag/jobs.py, the staging, indexing and    *)
(* purging parts of rag/service.py, and the worker loop of main.py).       *)
(*                                                                         *)
(* Every API process runs one worker loop and serves requests; they share  *)
(* nothing but the database and the upload directory.  A variable of the   *)
(* first group is committed data, visible to all.  A variable of the second*)
(* group is what one process holds in memory, lost when it dies.           *)
(*                                                                         *)
(* A commit is one step.  Writes flushed but not yet committed are visible *)
(* to nobody and hold a row lock (RowLocked).  The database is MySQL with  *)
(* its default isolation level, as db/session.py leaves it: a transaction  *)
(* reads the snapshot taken by its first read (snap), and the foreign key  *)
(* of ingestion_jobs.resource_id is enforced.                              *)
(***************************************************************************)
EXTENDS Integers, FiniteSets

CONSTANTS
  NumJobs,       \* how many uploads arrive
  NumDocs,       \* how many documents each upload holds
  Size,          \* Size[i]: groups of CANCEL_CHECK_CHUNKS chunks of document i
  Name,          \* Name[i]: its file name after _safe_filename
  Embedded,      \* the documents whose settings ask for embeddings
  Procs,         \* the API processes
  MaxCrashes,    \* bound on process deaths
  MaxDbErrors    \* bound on statements the database refuses

Jobs  == 1..NumJobs
Docs  == 1..NumDocs
Names == {Name[i] : i \in Docs}

ASSUME CountsAssumption == NumJobs \in Nat /\ NumDocs \in Nat /\ MaxCrashes \in Nat /\ MaxDbErrors \in Nat
ASSUME DocsAssumption   == Size \in [Docs -> Nat] /\ Embedded \subseteq Docs

VARIABLES
  \* Committed: the rows of ingestion_jobs, ingestion_job_items, resources,
  \* document_chunks and the graph tables, and the upload directory.
  status,        \* IngestionJob.status, or "absent" before the upload
  flag,          \* IngestionJob.cancel_requested
  refers,        \* IngestionJob.resource_id is not NULL
  processed,     \* IngestionJob.processed_documents
  indexed,       \* IngestionJob.indexed_chunks
  item,          \* item[j][i]: IngestionJobItem.status of document i
  base,          \* the resources row: none, staged, answerable (upload_status)
  chunks,        \* the document_chunks rows of the base
  graph,         \* the base has its entity graph
  disk,          \* disk[j][n]: whose bytes the file named n holds, 0 if none
  \* Held by a process: its worker ...
  pc,            \* where the worker is
  cur,           \* the job it works on, 0 if none
  pos,           \* the document it is at
  start,         \* run_job's indexed_chunks: the next document's start_index
  done,          \* chunk groups of the current document flushed so far
  bytes,         \* whose bytes it read for the current document
  snap,          \* cancel_requested as its open transaction sees it
  outcome,       \* the terminal status _finish is about to write
  \* ... and the cancel request it is serving.
  rpc, rjob, rseen,
  \* Faults so far.
  crashes, dberrors

jobvars  == <<status, flag, refers, processed, indexed, item>>
basevars == <<base, chunks, graph>>
dbvars   == <<status, flag, refers, processed, indexed, item, base, chunks, graph>>
procvars == <<pc, cur, pos, start, done, bytes, snap, outcome>>
reqvars  == <<rpc, rjob, rseen>>
faults   == <<crashes, dberrors>>
vars     == <<status, flag, refers, processed, indexed, item, base, chunks, graph, disk,
              pc, cur, pos, start, done, bytes, snap, outcome, rpc, rjob, rseen, crashes, dberrors>>

Terminal == {"succeeded", "failed", "cancelled"}
Settled  == {"succeeded", "partial", "failed"}

NoFiles == [n \in Names |-> 0]

\* The worker places at which a claimed job is being worked on.
Working == {"claimed", "checkpoint", "open", "chunking", "embedding", "ingested",
            "linking", "finishing", "discarding", "discarded"}

JobStatus  == {"absent", "queued", "running"} \cup Terminal
ItemStatus == {"absent", "pending", "running", "cancelled"} \cup Settled

Chunk == [doc : Docs, src : Docs, index : Nat]

-----------------------------------------------------------------------------
(* Locks and snapshots                                                      *)

\* An ORM flush has updated job j's row and its transaction is still open:
\* _cancel flushes before it removes files, request_cancel before it claims.
RowLocked(j) ==
  \E p \in Procs : \/ pc[p] = "discarded" /\ cur[p] = j
                   \/ rpc[p] \in {"claimed", "removed"} /\ rjob[p] = j

\* The session closes, or dies, with all the worker held in it.
LoseWorker(p, at) ==
  /\ pc'    = [pc EXCEPT ![p] = at]
  /\ cur'   = [cur EXCEPT ![p] = 0]
  /\ pos'   = [pos EXCEPT ![p] = 1]
  /\ start' = [start EXCEPT ![p] = 0]
  /\ done'  = [done EXCEPT ![p] = 0]
  /\ bytes' = [bytes EXCEPT ![p] = 0]
  /\ snap'  = [snap EXCEPT ![p] = "closed"]
  /\ outcome' = [outcome EXCEPT ![p] = "failed"]

\* What a first read in a new transaction fixes for the rest of it.
Snapshot(j) == IF flag[j] THEN "raised" ELSE "clear"

\* _cancel_requested: a query, answered from the open snapshot if there is one.
CancelRequested(p) == IF snap[p] = "closed" THEN flag[cur[p]] ELSE snap[p] = "raised"

-----------------------------------------------------------------------------
Init ==
  /\ status    = [j \in Jobs |-> "absent"]
  /\ flag      = [j \in Jobs |-> FALSE]
  /\ refers    = [j \in Jobs |-> FALSE]
  /\ processed = [j \in Jobs |-> 0]
  /\ indexed   = [j \in Jobs |-> 0]
  /\ item      = [j \in Jobs |-> [i \in Docs |-> "absent"]]
  /\ base      = [j \in Jobs |-> "none"]
  /\ chunks    = [j \in Jobs |-> {}]
  /\ graph     = [j \in Jobs |-> FALSE]
  /\ disk      = [j \in Jobs |-> NoFiles]
  /\ pc        = [p \in Procs |-> "boot"]
  /\ cur       = [p \in Procs |-> 0]
  /\ pos       = [p \in Procs |-> 1]
  /\ start     = [p \in Procs |-> 0]
  /\ done      = [p \in Procs |-> 0]
  /\ bytes     = [p \in Procs |-> 0]
  /\ snap      = [p \in Procs |-> "closed"]
  /\ outcome   = [p \in Procs |-> "failed"]
  /\ rpc       = [p \in Procs |-> "idle"]
  /\ rjob      = [p \in Procs |-> 0]
  /\ rseen     = [p \in Procs |-> "absent"]
  /\ crashes   = 0
  /\ dberrors  = 0

-----------------------------------------------------------------------------
(* The upload request                                                       *)

\* Startup, and reclaiming with it, ends before the first request is served.
Serving(p) == pc[p] \notin {"down", "boot"}

\* Defect: the bytes are written under the names in reverse order.
StagesReversed(files) == \A n \in Names : Name[NumDocs + 1 - files[n]] = n

\* What stage_upload leaves in the directory: it writes the documents one after
\* another, so of several with one sanitized name the last one's bytes remain.
Stages(files) ==
  \A n \in Names : /\ Name[files[n]] = n
                   /\ \A i \in Docs : Name[i] = n => i <= files[n]

\* enqueue_ingestion and the commit of upload_documents.  Jobs are numbered
\* in order of created_at.
Upload(j) ==
  /\ \E p \in Procs : Serving(p)
  /\ status[j] = "absent"
  /\ \A i \in Jobs : i < j => status[i] # "absent"
  /\ status' = [status EXCEPT ![j] = "queued"]
  /\ refers' = [refers EXCEPT ![j] = TRUE]
  /\ item'   = [item EXCEPT ![j] = [i \in Docs |-> "pending"]]
  /\ base'   = [base EXCEPT ![j] = "staged"]
  /\ \E files \in [Names -> Docs] : Stages(files) /\ disk' = [disk EXCEPT ![j] = files]
  /\ UNCHANGED <<flag, processed, indexed, chunks, graph, procvars, reqvars, faults>>

-----------------------------------------------------------------------------
(* Claiming                                                                 *)

\* The SELECT of claim_next_job: the oldest queued job.
PollQueue(p) ==
  /\ pc[p] = "idle"
  /\ \E j \in Jobs :
       /\ status[j] = "queued"
       /\ \A i \in Jobs : status[i] = "queued" => j <= i
       /\ cur' = [cur EXCEPT ![p] = j]
  /\ pc' = [pc EXCEPT ![p] = "picked"]
  /\ UNCHANGED <<dbvars, disk, pos, start, done, bytes, snap, outcome, reqvars, faults>>

\* Defect: SELECT-then-UPDATE, without the status in the WHERE clause.
ClaimUnconditionally(p) ==
  /\ pc[p] = "picked"
  /\ ~RowLocked(cur[p])
  /\ status' = [status EXCEPT ![cur[p]] = "running"]
  /\ pc' = [pc EXCEPT ![p] = "claimed"]
  /\ UNCHANGED <<cur, pos, start, done, bytes, snap, outcome>>
  /\ UNCHANGED <<flag, refers, processed, indexed, item, basevars, disk, reqvars, faults>>

\* Its conditional UPDATE and commit.  The UPDATE waits for the row lock and
\* then sees the committed row, so a job that left the queue matches no row.
Claim(p) ==
  LET j == cur[p] IN
  /\ pc[p] = "picked"
  /\ ~RowLocked(j)
  /\ \/ /\ status[j] = "queued"
        /\ status' = [status EXCEPT ![j] = "running"]
        /\ pc' = [pc EXCEPT ![p] = "claimed"]
        /\ UNCHANGED cur
        /\ UNCHANGED <<pos, start, done, bytes, snap, outcome>>
     \/ /\ status[j] # "queued"
        /\ LoseWorker(p, "idle")
        /\ UNCHANGED status
  /\ UNCHANGED <<flag, refers, processed, indexed, item, basevars, disk, reqvars, faults>>

-----------------------------------------------------------------------------
(* run_job                                                                  *)

\* Load the resource and the items: the first reads of the transaction the
\* first checkpoint is in.
LoadJob(p) ==
  LET j == cur[p] IN
  /\ pc[p] = "claimed"
  /\ IF base[j] = "none"
     THEN /\ pc' = [pc EXCEPT ![p] = "finishing"]
          /\ outcome' = [outcome EXCEPT ![p] = "failed"]
          /\ UNCHANGED <<pos, start, snap>>
     ELSE /\ pc'    = [pc EXCEPT ![p] = "checkpoint"]
          /\ pos'   = [pos EXCEPT ![p] = 1]
          /\ start' = [start EXCEPT ![p] = 0]
          /\ snap'  = [snap EXCEPT ![p] = Snapshot(j)]
          /\ UNCHANGED outcome
  /\ UNCHANGED <<dbvars, disk, cur, done, bytes, reqvars, faults>>

\* Defects: numbering restarts with every document, or is off by one.
NewChunksRestart(p) ==
  [doc : {pos[p]}, src : {bytes[p]}, index : 0..(done[p] - 1)]
NewChunksOffByOne(p) ==
  [doc : {pos[p]}, src : {bytes[p]}, index : (start[p] - 1)..(start[p] + done[p] - 2)]

\* The rows ingest_file adds: chunk_index continues from start_index.
NewChunks(p) ==
  [doc : {pos[p]}, src : {bytes[p]}, index : start[p]..(start[p] + done[p] - 1)]

\* After the commit that settles a document's item, the loop moves on.
NextDocument(p) ==
  /\ pc'    = [pc EXCEPT ![p] = "checkpoint"]
  /\ pos'   = [pos EXCEPT ![p] = @ + 1]
  /\ done'  = [done EXCEPT ![p] = 0]
  /\ bytes' = [bytes EXCEPT ![p] = 0]
  /\ snap'  = [snap EXCEPT ![p] = "closed"]

\* Defects: the failed document is not counted, or not rolled back.
FailItemUncounted(p) ==
  LET j == cur[p] IN
  /\ item'  = [item EXCEPT ![j][pos[p]] = "failed"]
  /\ NextDocument(p)
  /\ UNCHANGED <<status, flag, refers, processed, indexed, basevars, disk, cur, start, outcome, reqvars, faults>>
FailItemUnrolled(p) ==
  LET j == cur[p] IN
  /\ item'      = [item EXCEPT ![j][pos[p]] = "failed"]
  /\ processed' = [processed EXCEPT ![j] = @ + 1]
  /\ chunks'    = [chunks EXCEPT ![j] = @ \cup NewChunks(p)]
  /\ NextDocument(p)
  /\ UNCHANGED <<status, flag, refers, indexed, base, graph, disk, cur, start, outcome, reqvars, faults>>

\* _fail_item, after the rollback its callers make: the item is settled, what
\* the document had flushed is gone, and the loop moves on.
FailItem(p) ==
  LET j == cur[p] IN
  /\ item'      = [item EXCEPT ![j][pos[p]] = "failed"]
  /\ processed' = [processed EXCEPT ![j] = @ + 1]
  /\ NextDocument(p)
  /\ UNCHANGED <<status, flag, refers, indexed, basevars, disk, cur, start, outcome, reqvars, faults>>

\* The checkpoint before a document finds no cancel: mark the item running.
\* The files rows live and die with the base's row.
BeginDocument(p) ==
  LET j == cur[p] IN
  /\ pc[p] = "checkpoint"
  /\ pos[p] <= NumDocs
  /\ ~CancelRequested(p)
  /\ IF base[j] = "none"
     THEN FailItem(p)
     ELSE /\ item' = [item EXCEPT ![j][pos[p]] = "running"]
          /\ pc'   = [pc EXCEPT ![p] = "open"]
          /\ snap' = [snap EXCEPT ![p] = "closed"]
          /\ UNCHANGED <<status, flag, refers, processed, indexed, basevars, disk,
                         cur, pos, start, done, bytes, outcome, reqvars, faults>>

\* ingest_file reads the document's settings, which opens the transaction the
\* whole document runs in, and then its bytes; a missing file fails the item.
OpenDocument(p) ==
  LET j == cur[p]
      b == disk[j][Name[pos[p]]]
  IN
  /\ pc[p] = "open"
  /\ IF b = 0 \/ base[j] = "none"
     THEN FailItem(p)
     ELSE /\ bytes' = [bytes EXCEPT ![p] = b]
          /\ snap'  = [snap EXCEPT ![p] = Snapshot(j)]
          /\ pc'    = [pc EXCEPT ![p] = "chunking"]
          /\ UNCHANGED <<dbvars, disk, cur, pos, start, done, outcome, reqvars, faults>>

\* The polls of should_cancel: between chunk groups, and before an embedding call.
AtPoll(p) == \/ pc[p] = "chunking" /\ 0 < done[p] /\ done[p] < Size[pos[p]]
             \/ pc[p] = "embedding"

PollPasses(p) == AtPoll(p) => ~CancelRequested(p)

\* One more group of chunks is added to the session.
ChunkGroup(p) ==
  /\ pc[p] = "chunking"
  /\ done[p] < Size[pos[p]]
  /\ PollPasses(p)
  /\ done' = [done EXCEPT ![p] = @ + 1]
  /\ UNCHANGED <<dbvars, disk, pc, cur, pos, start, bytes, snap, outcome, reqvars, faults>>

\* The last group is flushed; embedding follows where the settings ask for it.
EndChunking(p) ==
  /\ pc[p] = "chunking"
  /\ done[p] = Size[pos[p]]
  /\ pc' = [pc EXCEPT ![p] = IF pos[p] \in Embedded /\ done[p] > 0 THEN "embedding" ELSE "ingested"]
  /\ UNCHANGED <<dbvars, disk, cur, pos, start, done, bytes, snap, outcome, reqvars, faults>>

\* _embed_chunks: vectors or a provider error, and the document goes on either way.
Embed(p) ==
  /\ pc[p] = "embedding"
  /\ PollPasses(p)
  /\ pc' = [pc EXCEPT ![p] = "ingested"]
  /\ UNCHANGED <<dbvars, disk, cur, pos, start, done, bytes, snap, outcome, reqvars, faults>>

\* Parsing, chunking or a flush raises: one bad document does not sink the batch.
DocumentRaises(p) ==
  /\ pc[p] \in {"chunking", "embedding"}
  /\ FailItem(p)

\* A poll raises IngestionCancelled: roll the document back and discard.
AbortDocument(p) ==
  /\ AtPoll(p)
  /\ ~PollPasses(p)
  /\ pc'    = [pc EXCEPT ![p] = "discarding"]
  /\ done'  = [done EXCEPT ![p] = 0]
  /\ bytes' = [bytes EXCEPT ![p] = 0]
  /\ snap'  = [snap EXCEPT ![p] = "closed"]
  /\ UNCHANGED <<dbvars, disk, cur, pos, start, outcome, reqvars, faults>>

\* The document is done: its chunks, its item and the job's progress commit
\* together.  A file with nothing readable in it is partial.
CommitDocument(p) ==
  LET j == cur[p] IN
  /\ pc[p] = "ingested"
  /\ \E result \in {"succeeded", "partial"} : item' = [item EXCEPT ![j][pos[p]] = result]
  /\ chunks'    = [chunks EXCEPT ![j] = @ \cup NewChunks(p)]
  /\ start'     = [start EXCEPT ![p] = @ + done[p]]
  /\ processed' = [processed EXCEPT ![j] = @ + 1]
  /\ indexed'   = [indexed EXCEPT ![j] = start[p] + done[p]]
  /\ NextDocument(p)
  /\ UNCHANGED <<status, flag, refers, base, graph, disk, cur, outcome, reqvars, faults>>

\* The last checkpoint finds no cancel: announce the linking stage.
BeginLinking(p) ==
  /\ pc[p] = "checkpoint"
  /\ pos[p] > NumDocs
  /\ ~CancelRequested(p)
  /\ pc'   = [pc EXCEPT ![p] = "linking"]
  /\ snap' = [snap EXCEPT ![p] = "closed"]
  /\ UNCHANGED <<dbvars, disk, cur, pos, start, done, bytes, outcome, reqvars, faults>>

\* _rebuild_graph over every chunk of the base, and upload_status = True: an
\* UPDATE that fails the job when it matches no row.
Link(p) ==
  LET j == cur[p] IN
  /\ pc[p] = "linking"
  /\ pc' = [pc EXCEPT ![p] = "finishing"]
  /\ IF base[j] = "none"
     THEN /\ outcome' = [outcome EXCEPT ![p] = "failed"]
          /\ UNCHANGED <<graph, base>>
     ELSE /\ outcome' = [outcome EXCEPT ![p] = "succeeded"]
          /\ graph' = [graph EXCEPT ![j] = TRUE]
          /\ base'  = [base EXCEPT ![j] = "answerable"]
  /\ UNCHANGED <<jobvars, chunks, disk, cur, pos, start, done, bytes, snap, reqvars, faults>>

\* _finish, in a transaction of its own.
Finish(p) ==
  LET j == cur[p] IN
  /\ pc[p] = "finishing"
  /\ status' = [status EXCEPT ![j] = outcome[p]]
  /\ LoseWorker(p, "idle")
  /\ UNCHANGED <<flag, refers, processed, indexed, item, basevars, disk, reqvars, faults>>

-----------------------------------------------------------------------------
(* _cancel and purge_resource: shared by the worker and the cancel request  *)

\* The directory goes before the transaction commits; rmtree may fail, which
\* is logged and leaves it.
RemoveFiles(j) == \E left \in {NoFiles, disk[j]} : disk' = [disk EXCEPT ![j] = left]

\* The documents without an outcome get one; the others keep theirs.
CancelItems(j) ==
  item' = [item EXCEPT ![j] = [i \in Docs |->
            IF item[j][i] \in {"pending", "running"} THEN "cancelled" ELSE item[j][i]]]

\* Defects: the chunks, or the base's own row, outlive the cancel.
DiscardRowsKeepChunks(j) ==
  /\ CancelItems(j)
  /\ refers' = [refers EXCEPT ![j] = FALSE]
  /\ base'   = [base EXCEPT ![j] = "none"]
  /\ graph'  = [graph EXCEPT ![j] = FALSE]
  /\ status' = [status EXCEPT ![j] = "cancelled"]
  /\ UNCHANGED chunks
DiscardRowsKeepBase(j) ==
  /\ CancelItems(j)
  /\ refers' = [refers EXCEPT ![j] = FALSE]
  /\ chunks' = [chunks EXCEPT ![j] = {}]
  /\ status' = [status EXCEPT ![j] = "cancelled"]
  /\ UNCHANGED <<base, graph>>

\* Everything _cancel writes, with the purge of the base and _finish.
DiscardRows(j) ==
  /\ CancelItems(j)
  /\ refers' = [refers EXCEPT ![j] = FALSE]
  /\ base'   = [base EXCEPT ![j] = "none"]
  /\ chunks' = [chunks EXCEPT ![j] = {}]
  /\ graph'  = [graph EXCEPT ![j] = FALSE]
  /\ status' = [status EXCEPT ![j] = "cancelled"]

\* A checkpoint between documents, or the last one, finds the cancel.
CancelAtCheckpoint(p) ==
  /\ pc[p] = "checkpoint"
  /\ CancelRequested(p)
  /\ pc' = [pc EXCEPT ![p] = "discarding"]
  /\ UNCHANGED <<dbvars, disk, cur, pos, start, done, bytes, snap, outcome, reqvars, faults>>

\* Flush the items and the released job row, then remove the directory.
DiscardFiles(p) ==
  /\ pc[p] = "discarding"
  /\ ~RowLocked(cur[p])
  /\ RemoveFiles(cur[p])
  /\ pc' = [pc EXCEPT ![p] = "discarded"]
  /\ UNCHANGED <<dbvars, cur, pos, start, done, bytes, snap, outcome, reqvars, faults>>

CommitDiscard(p) ==
  /\ pc[p] = "discarded"
  /\ DiscardRows(cur[p])
  /\ LoseWorker(p, "idle")
  /\ UNCHANGED <<flag, processed, indexed, disk, reqvars, faults>>

-----------------------------------------------------------------------------
(* The cancel request, served by a thread of process p                      *)

\* get_job opens the transaction; a job that has finished is refused (409).
ReadForCancel(p, j) ==
  /\ Serving(p)
  /\ rpc[p] = "idle"
  /\ status[j] \in {"queued", "running"}
  /\ rpc'   = [rpc EXCEPT ![p] = "read"]
  /\ rjob'  = [rjob EXCEPT ![p] = j]
  /\ rseen' = [rseen EXCEPT ![p] = status[j]]
  /\ UNCHANGED <<dbvars, disk, procvars, faults>>

RequestEnds(p) ==
  /\ rpc'   = [rpc EXCEPT ![p] = "idle"]
  /\ rjob'  = [rjob EXCEPT ![p] = 0]
  /\ rseen' = [rseen EXCEPT ![p] = "absent"]

\* The job was not seen queued, or no longer is: leave the flag and commit.
\* The status read before is not read again.
FlagForWorker(p) ==
  LET j == rjob[p] IN
  /\ rpc[p] = "read"
  /\ ~RowLocked(j)
  /\ rseen[p] = "running" \/ status[j] # "queued"
  /\ flag' = [flag EXCEPT ![j] = TRUE]
  /\ RequestEnds(p)
  /\ UNCHANGED <<status, refers, processed, indexed, item, basevars, disk, procvars, faults>>

\* Defect: the claim trusts the status read before.
ClaimForCancelBlindly(p) ==
  /\ rpc[p] = "read"
  /\ ~RowLocked(rjob[p])
  /\ rseen[p] = "queued"
  /\ rpc' = [rpc EXCEPT ![p] = "claimed"]
  /\ UNCHANGED <<dbvars, disk, procvars, rjob, rseen, faults>>

\* Seen queued and still queued: the conditional UPDATE takes it from the
\* pollers, in a transaction that stays open.
ClaimForCancel(p) ==
  LET j == rjob[p] IN
  /\ rpc[p] = "read"
  /\ ~RowLocked(j)
  /\ rseen[p] = "queued"
  /\ status[j] = "queued"
  /\ rpc' = [rpc EXCEPT ![p] = "claimed"]
  /\ UNCHANGED <<dbvars, disk, procvars, rjob, rseen, faults>>

RequestRemovesFiles(p) ==
  /\ rpc[p] = "claimed"
  /\ RemoveFiles(rjob[p])
  /\ rpc' = [rpc EXCEPT ![p] = "removed"]
  /\ UNCHANGED <<dbvars, procvars, rjob, rseen, faults>>

RequestCommits(p) ==
  LET j == rjob[p] IN
  /\ rpc[p] = "removed"
  /\ DiscardRows(j)
  /\ flag' = [flag EXCEPT ![j] = TRUE]
  /\ RequestEnds(p)
  /\ UNCHANGED <<processed, indexed, disk, procvars, faults>>

\* purge_brain.  Unlike _cancel it leaves ingestion_jobs.resource_id, so the
\* final DELETE violates the foreign key and the request rolls back -- after
\* the directory went.
PurgeBase(p, j) ==
  /\ Serving(p)
  /\ base[j] # "none"
  /\ RemoveFiles(j)
  /\ IF refers[j]
     THEN UNCHANGED basevars
     ELSE /\ base'   = [base EXCEPT ![j] = "none"]
          /\ chunks' = [chunks EXCEPT ![j] = {}]
          /\ graph'  = [graph EXCEPT ![j] = FALSE]
  /\ UNCHANGED <<jobvars, procvars, reqvars, faults>>

-----------------------------------------------------------------------------
(* Processes                                                                *)

\* Defects: a restart forgets the running items, or the running jobs.
ReclaimJobsOnly(p) ==
  /\ pc[p] = "boot"
  /\ \A j \in Jobs : ~RowLocked(j)
  /\ status' = [j \in Jobs |-> IF status[j] = "running" THEN "failed" ELSE status[j]]
  /\ pc' = [pc EXCEPT ![p] = "idle"]
  /\ UNCHANGED <<flag, refers, processed, indexed, item, basevars, disk,
                 cur, pos, start, done, bytes, snap, outcome, reqvars, faults>>
ReclaimNothing(p) ==
  /\ pc[p] = "boot"
  /\ pc' = [pc EXCEPT ![p] = "idle"]
  /\ UNCHANGED <<dbvars, disk, cur, pos, start, done, bytes, snap, outcome, reqvars, faults>>

\* reclaim_stranded_jobs at startup: every running job is taken for stranded,
\* whoever runs it, and then every running item of any job.
Reclaim(p) ==
  LET stranded == {j \in Jobs : status[j] = "running"} IN
  /\ pc[p] = "boot"
  /\ \A j \in Jobs : ~RowLocked(j)
  /\ status' = [j \in Jobs |-> IF j \in stranded THEN "failed" ELSE status[j]]
  /\ item' = IF stranded = {} THEN item
             ELSE [j \in Jobs |-> [i \in Docs |->
                    IF item[j][i] = "running" THEN "failed" ELSE item[j][i]]]
  /\ pc' = [pc EXCEPT ![p] = "idle"]
  /\ UNCHANGED <<flag, refers, processed, indexed, basevars, disk,
                 cur, pos, start, done, bytes, snap, outcome, reqvars, faults>>

\* The process dies; its open transactions roll back.
Crash(p) ==
  /\ pc[p] # "down"
  /\ crashes < MaxCrashes
  /\ crashes' = crashes + 1
  /\ LoseWorker(p, "down")
  /\ RequestEnds(p)
  /\ UNCHANGED <<dbvars, disk, dberrors>>

Restart(p) ==
  /\ pc[p] = "down"
  /\ pc' = [pc EXCEPT ![p] = "boot"]
  /\ UNCHANGED <<dbvars, disk, cur, pos, start, done, bytes, snap, outcome, reqvars, faults>>

\* The database refuses a statement or a commit inside run_job's try: roll
\* back and finish as failed.
JobRaises(p) ==
  /\ pc[p] \in {"checkpoint", "ingested", "linking", "discarding", "discarded"}
  /\ dberrors < MaxDbErrors
  /\ dberrors' = dberrors + 1
  /\ pc'      = [pc EXCEPT ![p] = "finishing"]
  /\ outcome' = [outcome EXCEPT ![p] = "failed"]
  /\ done'    = [done EXCEPT ![p] = 0]
  /\ bytes'   = [bytes EXCEPT ![p] = 0]
  /\ snap'    = [snap EXCEPT ![p] = "closed"]
  /\ UNCHANGED <<dbvars, disk, cur, pos, start, reqvars, crashes>>

\* ... or outside it: the exception ends the iteration of the worker loop.
IterationRaises(p) ==
  /\ pc[p] \in {"claimed", "finishing"}
  /\ dberrors < MaxDbErrors
  /\ dberrors' = dberrors + 1
  /\ LoseWorker(p, "idle")
  /\ UNCHANGED <<dbvars, disk, reqvars, crashes>>

\* The same for a cancel request: the controller rolls back and answers 500.
RequestRaises(p) ==
  /\ rpc[p] # "idle"
  /\ dberrors < MaxDbErrors
  /\ dberrors' = dberrors + 1
  /\ RequestEnds(p)
  /\ UNCHANGED <<dbvars, disk, procvars, crashes>>

-----------------------------------------------------------------------------
Worker(p) ==
  \/ PollQueue(p) \/ Claim(p) \/ LoadJob(p)
  \/ BeginDocument(p) \/ OpenDocument(p) \/ ChunkGroup(p) \/ EndChunking(p) \/ Embed(p)
  \/ DocumentRaises(p) \/ AbortDocument(p) \/ CommitDocument(p)
  \/ BeginLinking(p) \/ Link(p) \/ Finish(p)
  \/ CancelAtCheckpoint(p) \/ DiscardFiles(p) \/ CommitDiscard(p)
  \/ Reclaim(p)

Request(p) ==
  FlagForWorker(p) \/ ClaimForCancel(p) \/ RequestRemovesFiles(p) \/ RequestCommits(p)

User ==
  \/ \E j \in Jobs : Upload(j)
  \/ \E p \in Procs, j \in Jobs : ReadForCancel(p, j) \/ PurgeBase(p, j)

Fault == \E p \in Procs : Crash(p) \/ JobRaises(p) \/ IterationRaises(p) \/ RequestRaises(p)

Next ==
  \/ User
  \/ Fault
  \/ \E p \in Procs : Worker(p) \/ Request(p) \/ Restart(p)

Spec == Init /\ [][Next]_vars

\* The worker loop never stops, a request thread runs to its end, and the
\* supervisor restarts a process that died.
Fairness ==
  \A p \in Procs : WF_vars(Worker(p)) /\ WF_vars(Request(p)) /\ WF_vars(Restart(p))

FairSpec == Spec /\ Fairness

-----------------------------------------------------------------------------
(* Properties                                                               *)

TypeOK ==
  /\ status \in [Jobs -> JobStatus]
  /\ flag \in [Jobs -> BOOLEAN]
  /\ refers \in [Jobs -> BOOLEAN]
  /\ processed \in [Jobs -> Nat]
  /\ indexed \in [Jobs -> Nat]
  /\ item \in [Jobs -> [Docs -> ItemStatus]]
  /\ base \in [Jobs -> {"none", "staged", "answerable"}]
  /\ chunks \in [Jobs -> SUBSET Chunk]
  /\ graph \in [Jobs -> BOOLEAN]
  /\ disk \in [Jobs -> [Names -> 0..NumDocs]]
  /\ pc \in [Procs -> Working \cup {"down", "boot", "idle", "picked"}]
  /\ cur \in [Procs -> 0..NumJobs]
  /\ pos \in [Procs -> 1..(NumDocs + 1)]
  /\ start \in [Procs -> Nat]
  /\ done \in [Procs -> Nat]
  /\ bytes \in [Procs -> 0..NumDocs]
  /\ snap \in [Procs -> {"closed", "clear", "raised"}]
  /\ outcome \in [Procs -> {"succeeded", "failed"}]
  /\ rpc \in [Procs -> {"idle", "read", "claimed", "removed"}]
  /\ rjob \in [Procs -> 0..NumJobs]
  /\ rseen \in [Procs -> {"absent", "queued", "running"}]
  /\ crashes \in 0..MaxCrashes
  /\ dberrors \in 0..MaxDbErrors

\* The processes that hold job j: a worker running it, or a cancel request
\* that took it from the queue.
Holders(j) ==
  {<<"worker", p>> : p \in {q \in Procs : pc[q] \in Working /\ cur[q] = j}} \cup
  {<<"request", p>> : p \in {q \in Procs : rpc[q] \in {"claimed", "removed"} /\ rjob[q] = j}}

\* Two pollers, or a poller and a cancel request, never both win a job
\* (claim_next_job, request_cancel), and a job is not claimed again by anyone
\* while it is worked on, even after a restart elsewhere marked it failed.
OneHolderPerJob ==
  \A j \in Jobs : \A a, b \in Holders(j) : a = b

\* The base answers only when indexing is complete: every document has its
\* outcome, the passages searched are exactly those of the documents that were
\* read, numbered without gap or repetition, and the graph covers them
\* (_not_ready_note, ingest_file's start_index, Link).
AnswerableIsComplete ==
  \A j \in Jobs : base[j] = "answerable" =>
    /\ \A i \in Docs : item[j][i] \in Settled
    /\ \A i \in Docs : Cardinality({c \in chunks[j] : c.doc = i}) =
                        IF item[j][i] = "failed" THEN 0 ELSE Size[i]
    /\ {c.index : c \in chunks[j]} = 0..(indexed[j] - 1)
    /\ Cardinality(chunks[j]) = indexed[j]
    /\ graph[j]

\* A cancelled upload leaves no row behind and nobody still writing to it
\* (_cancel: "Stop, and leave nothing behind").
CancelledLeavesNothing ==
  \A j \in Jobs : status[j] = "cancelled" =>
    /\ base[j] = "none" /\ chunks[j] = {} /\ ~graph[j] /\ ~refers[j]
    /\ \A i \in Docs : item[j][i] \notin {"pending", "running"}
    /\ Holders(j) = {}

\* A passage comes from the document it is filed under (stage_upload,
\* ingest_file).
PassagesComeFromTheirDocument ==
  \A j \in Jobs : \A c \in chunks[j] : c.src = c.doc

\* The base is there for as long as somebody works on its job: run_job's
\* guards against a missing resource or file row are never needed.
BaseOutlivesItsWorker ==
  \A p \in Procs : pc[p] \in Working => base[cur[p]] # "none"

\* The progress a running job shows counts the documents that have an outcome
\* (processed_documents is bumped in three places and never recomputed).
ProgressIsHonest ==
  \A j \in Jobs : status[j] = "running" =>
    processed[j] = Cardinality({i \in Docs : item[j][i] \in Settled})

\* An item shows as running only while a worker is at that document, or until
\* the process that died on it has started again.
RunningItemIsWorkedOn ==
  \A j \in Jobs, i \in Docs : item[j][i] = "running" =>
    \E p \in Procs :
      \/ pc[p] \in {"open", "chunking", "embedding", "ingested", "discarding", "discarded"}
         /\ cur[p] = j /\ pos[p] = i
      \/ pc[p] \in {"down", "boot"}

\* models/ingestion.py: the three terminal states are final.
TerminalIsFinal ==
  [][\A j \in Jobs : status[j] \in Terminal => status'[j] = status[j]]_vars

\* Every upload reaches an outcome (run_job: "a job that dies has to end up in
\* a terminal state").
EveryUploadSettles ==
  \A j \in Jobs : status[j] # "absent" ~> status[j] \in Terminal

\* service.py on should_cancel: without the poll a long document "would make
\* the Cancel button do nothing for the whole of that document".  So a poll
\* made after the flag was committed does not pass.
PollSeesCancel ==
  [][\A p \in Procs : AtPoll(p) /\ flag[cur[p]] =>
       done'[p] <= done[p] /\ pc'[p] # "ingested"]_vars

\* The tests of permanent deletion: whatever purge does, "it must not lose
\* half a knowledge base".  While the rows of a base are there and nobody is
\* cancelling it, so are its documents.
BaseKeepsItsFiles ==
  \A j \in Jobs : base[j] # "none" /\ Holders(j) = {} =>
    \A i \in Docs : disk[j][Name[i]] # 0

Lifecycle == INSTANCE JobLifecycle

\* One process: the worker implements the lifecycle its users are promised.
ImplementsLifecycle == Lifecycle!Spec
=============================================================================
