--------------------------- MODULE IngestionProofs ---------------------------
(***************************************************************************)
(* What Ingestion guarantees for every number of jobs, documents, processes*)
(* and faults.  The inductive invariant is built in layers: IndType (types,*)
(* and what the place of a worker or a request says of its variables),     *)
(* ClaimInv (who may hold a job in which status) and BaseInv (what exists  *)
(* of a job's base in which status).                                       *)
(***************************************************************************)
EXTENDS Ingestion, FiniteSetTheorems, TLAPS

USE CountsAssumption, DocsAssumption

InDocument == {"open", "chunking", "embedding", "ingested"}
Taken      == {"claimed", "removed"}

PlacesOK ==
  /\ \A p \in Procs : pc[p] \in Working \cup {"picked"} => cur[p] \in Jobs
  /\ \A p \in Procs : pc[p] \in InDocument => pos[p] \in Docs
  /\ \A p \in Procs : pc[p] \in InDocument \ {"open"} => bytes[p] \in Docs
  /\ \A p \in Procs : rpc[p] # "idle" => rjob[p] \in Jobs

IndType == TypeOK /\ PlacesOK

LEMMA InitType == Init => IndType
  BY DEF Init, IndType, TypeOK, PlacesOK, Jobs, Docs, Names, NoFiles, JobStatus, ItemStatus,
         Working, InDocument, Terminal, Settled

LEMMA FailItemType ==
  ASSUME IndType, NEW p \in Procs, pc[p] \in {"checkpoint"} \cup InDocument, pos[p] \in Docs, FailItem(p)
  PROVE  IndType'
<1> USE DEF IndType, TypeOK, PlacesOK, InDocument
<1> cur[p] \in Jobs
  BY DEF Working
<1>1. item' \in [Jobs -> [Docs -> ItemStatus]]
  <2>1. item' = [item EXCEPT ![cur[p]] = [item[cur[p]] EXCEPT ![pos[p]] = "failed"]]
    BY DEF FailItem
  <2>2. item[cur[p]] \in [Docs -> ItemStatus]
    OBVIOUS
  <2>3. "failed" \in ItemStatus
    BY DEF ItemStatus, Settled
  <2> QED
    BY <2>1, <2>2, <2>3
<1>2. processed' \in [Jobs -> Nat]
  BY DEF FailItem
<1>3. pc' \in [Procs -> Working \cup {"down", "boot", "idle", "picked"}]
  BY DEF FailItem, NextDocument, Working
<1>4. pos' \in [Procs -> 1..(NumDocs + 1)]
  BY DEF FailItem, NextDocument, Docs
<1>5. done' \in [Procs -> Nat] /\ bytes' \in [Procs -> 0..NumDocs] /\ snap' \in [Procs -> {"closed", "clear", "raised"}]
  BY DEF FailItem, NextDocument, Docs
<1>6. UNCHANGED <<status, flag, refers, indexed, base, chunks, graph, disk, cur, start, outcome, rpc, rjob, rseen, crashes, dberrors>>
  BY DEF FailItem, basevars, reqvars, faults
<1>7. TypeOK'
  BY <1>1, <1>2, <1>3, <1>4, <1>5, <1>6
<1>8. PlacesOK'
  BY <1>6 DEF FailItem, NextDocument, Working
<1> QED
  BY <1>7, <1>8

LEMMA LoseWorkerType ==
  ASSUME IndType, NEW p \in Procs, NEW at \in {"idle", "down"}, LoseWorker(p, at)
  PROVE  /\ pc' \in [Procs -> Working \cup {"down", "boot", "idle", "picked"}]
         /\ cur' \in [Procs -> 0..NumJobs]
         /\ pos' \in [Procs -> 1..(NumDocs + 1)]
         /\ start' \in [Procs -> Nat]
         /\ done' \in [Procs -> Nat]
         /\ bytes' \in [Procs -> 0..NumDocs]
         /\ snap' \in [Procs -> {"closed", "clear", "raised"}]
         /\ outcome' \in [Procs -> {"succeeded", "failed"}]
         /\ \A q \in Procs : pc'[q] \in Working \cup {"picked"} => cur'[q] \in Jobs
         /\ \A q \in Procs : pc'[q] \in InDocument => pos'[q] \in Docs
         /\ \A q \in Procs : pc'[q] \in InDocument \ {"open"} => bytes'[q] \in Docs
<1> USE DEF LoseWorker, IndType, TypeOK, PlacesOK, InDocument, Working
<1>1. /\ pc' \in [Procs -> Working \cup {"down", "boot", "idle", "picked"}]
      /\ cur' \in [Procs -> 0..NumJobs]
      /\ pos' \in [Procs -> 1..(NumDocs + 1)]
      /\ start' \in [Procs -> Nat]
  OBVIOUS
<1>2. /\ done' \in [Procs -> Nat]
      /\ bytes' \in [Procs -> 0..NumDocs]
      /\ snap' \in [Procs -> {"closed", "clear", "raised"}]
      /\ outcome' \in [Procs -> {"succeeded", "failed"}]
  OBVIOUS
<1>3. \A q \in Procs : pc'[q] \in Working \cup {"picked"} => cur'[q] \in Jobs
  OBVIOUS
<1>4. /\ \A q \in Procs : pc'[q] \in InDocument => pos'[q] \in Docs
      /\ \A q \in Procs : pc'[q] \in InDocument \ {"open"} => bytes'[q] \in Docs
  OBVIOUS
<1> QED
  BY <1>1, <1>2, <1>3, <1>4

LEMMA DiscardRowsType ==
  ASSUME IndType, NEW j \in Jobs, DiscardRows(j)
  PROVE  /\ status' \in [Jobs -> JobStatus]
         /\ refers' \in [Jobs -> BOOLEAN]
         /\ item' \in [Jobs -> [Docs -> ItemStatus]]
         /\ base' \in [Jobs -> {"none", "staged", "answerable"}]
         /\ chunks' \in [Jobs -> SUBSET Chunk]
         /\ graph' \in [Jobs -> BOOLEAN]
<1> USE DEF IndType, TypeOK
<1>1. [i \in Docs |-> IF item[j][i] \in {"pending", "running"} THEN "cancelled" ELSE item[j][i]]
        \in [Docs -> ItemStatus]
  BY DEF ItemStatus
<1>2. item' \in [Jobs -> [Docs -> ItemStatus]]
  BY <1>1 DEF DiscardRows, CancelItems
<1>3. status' \in [Jobs -> JobStatus]
  BY DEF DiscardRows, JobStatus, Terminal
<1> QED
  BY <1>2, <1>3 DEF DiscardRows

LEMMA RequestEndsType ==
  ASSUME IndType, NEW p \in Procs, RequestEnds(p)
  PROVE  /\ rpc' \in [Procs -> {"idle", "read", "claimed", "removed"}]
         /\ rjob' \in [Procs -> 0..NumJobs]
         /\ rseen' \in [Procs -> {"absent", "queued", "running"}]
         /\ \A q \in Procs : rpc'[q] # "idle" => rjob'[q] \in Jobs
  BY DEF RequestEnds, IndType, TypeOK, PlacesOK

LEMMA RemoveFilesType ==
  ASSUME IndType, NEW j \in Jobs, RemoveFiles(j)
  PROVE  disk' \in [Jobs -> [Names -> 0..NumDocs]]
  BY DEF RemoveFiles, NoFiles, IndType, TypeOK

LEMMA UploadType ==
  ASSUME IndType, NEW j \in Jobs, Upload(j)
  PROVE  IndType'
<1> USE DEF IndType, TypeOK, PlacesOK
<1>1. status' \in [Jobs -> JobStatus] /\ refers' \in [Jobs -> BOOLEAN]
      /\ base' \in [Jobs -> {"none", "staged", "answerable"}]
  BY DEF Upload, JobStatus
<1>2. item' \in [Jobs -> [Docs -> ItemStatus]]
  <2>1. [i \in Docs |-> "pending"] \in [Docs -> ItemStatus]
    BY DEF ItemStatus
  <2> QED
    BY <2>1 DEF Upload
<1>3. disk' \in [Jobs -> [Names -> 0..NumDocs]]
  <2>1. PICK files \in [Names -> Docs] : disk' = [disk EXCEPT ![j] = files]
    BY DEF Upload
  <2>2. files \in [Names -> 0..NumDocs]
    BY DEF Docs
  <2> QED
    BY <2>1, <2>2
<1>4. UNCHANGED <<flag, processed, indexed, chunks, graph, procvars, reqvars, faults>>
  BY DEF Upload
<1>5. TypeOK'
  BY <1>1, <1>2, <1>3, <1>4 DEF procvars, reqvars, faults
<1>6. PlacesOK'
  BY <1>4 DEF procvars, reqvars
<1> QED
  BY <1>5, <1>6

LEMMA WorkerType ==
  ASSUME IndType, NEW p \in Procs, Worker(p)
  PROVE  IndType'
<1> USE DEF IndType, TypeOK, PlacesOK
<1>1. CASE PollQueue(p)
  <2>1. PICK j \in Jobs : cur' = [cur EXCEPT ![p] = j]
    BY <1>1 DEF PollQueue
  <2>2. /\ pc' = [pc EXCEPT ![p] = "picked"]
        /\ UNCHANGED <<dbvars, disk, pos, start, done, bytes, snap, outcome, reqvars, faults>>
    BY <1>1 DEF PollQueue
  <2>3. cur' \in [Procs -> 0..NumJobs]
    BY <2>1 DEF Jobs
  <2>4. TypeOK'
    BY <2>2, <2>3 DEF dbvars, reqvars, faults
  <2>5. PlacesOK'
    BY <2>1, <2>2 DEF InDocument, Working, reqvars
  <2> QED
    BY <2>4, <2>5
<1>2. CASE Claim(p)
  <2>1. CASE status[cur[p]] = "queued"
    <3>1. /\ pc[p] = "picked"
          /\ status' = [status EXCEPT ![cur[p]] = "running"]
          /\ pc' = [pc EXCEPT ![p] = "claimed"]
          /\ UNCHANGED <<cur, pos, start, done, bytes, snap, outcome>>
      BY <1>2, <2>1 DEF Claim
    <3>2. UNCHANGED <<flag, refers, processed, indexed, item, basevars, disk, reqvars, faults>>
      BY <1>2 DEF Claim
    <3>3. TypeOK'
      BY <3>1, <3>2 DEF JobStatus, Working, basevars, reqvars, faults
    <3>4. PlacesOK'
      BY <3>1, <3>2 DEF InDocument, Working, reqvars
    <3> QED
      BY <3>3, <3>4
  <2>2. CASE status[cur[p]] # "queued"
    <3>1. LoseWorker(p, "idle") /\ UNCHANGED status
      BY <1>2, <2>2 DEF Claim
    <3>2. UNCHANGED <<flag, refers, processed, indexed, item, basevars, disk, reqvars, faults>>
      BY <1>2 DEF Claim
    <3> QED
      BY <3>1, <3>2, LoseWorkerType DEF basevars, reqvars, faults
  <2> QED
    BY <2>1, <2>2
<1>3. CASE LoadJob(p)
  <2>1. UNCHANGED <<dbvars, disk, cur, done, bytes, reqvars, faults>> /\ pc[p] = "claimed"
    BY <1>3 DEF LoadJob
  <2>8. \/ pc' = [pc EXCEPT ![p] = "finishing"] /\ pos' = pos /\ start' = start
        \/ /\ pc' = [pc EXCEPT ![p] = "checkpoint"]
           /\ pos' = [pos EXCEPT ![p] = 1]
           /\ start' = [start EXCEPT ![p] = 0]
    BY <1>3 DEF LoadJob
  <2>2. pc' \in [Procs -> Working \cup {"down", "boot", "idle", "picked"}]
    BY <2>8 DEF Working
  <2>3. pos' \in [Procs -> 1..(NumDocs + 1)] /\ start' \in [Procs -> Nat]
    <3>1. 1 \in 1..(NumDocs + 1) /\ 0 \in Nat
      OBVIOUS
    <3>2. CASE pos' = pos /\ start' = start
      BY <3>2
    <3>3. CASE pos' = [pos EXCEPT ![p] = 1] /\ start' = [start EXCEPT ![p] = 0]
      BY <3>1, <3>3
    <3> QED
      BY <2>8, <3>2, <3>3
  <2>4. snap' \in [Procs -> {"closed", "clear", "raised"}] /\ outcome' \in [Procs -> {"succeeded", "failed"}]
    BY <1>3 DEF LoadJob, Snapshot
  <2>5. TypeOK'
    BY <2>1, <2>2, <2>3, <2>4 DEF dbvars, reqvars, faults
  <2>6. pc'[p] \in {"finishing", "checkpoint"} /\ \A q \in Procs \ {p} : pc'[q] = pc[q] /\ pos'[q] = pos[q]
    BY <2>8
  <2>7. PlacesOK'
    BY <2>1, <2>6 DEF InDocument, Working, reqvars
  <2> QED
    BY <2>5, <2>7
<1>4. CASE BeginDocument(p)
  <2>1. pos[p] \in Docs
    BY <1>4 DEF BeginDocument, Docs
  <2>2. CASE base[cur[p]] = "none"
    <3>1. FailItem(p) /\ pc[p] = "checkpoint"
      BY <1>4, <2>2 DEF BeginDocument
    <3> QED
      BY <2>1, <3>1, FailItemType
  <2>3. CASE base[cur[p]] # "none"
    <3>1. item' = [item EXCEPT ![cur[p]] = [item[cur[p]] EXCEPT ![pos[p]] = "running"]]
      BY <1>4, <2>3 DEF BeginDocument
    <3>2. item' \in [Jobs -> [Docs -> ItemStatus]]
      BY <3>1 DEF ItemStatus
    <3>3. /\ pc[p] = "checkpoint"
          /\ pc'   = [pc EXCEPT ![p] = "open"]
          /\ snap' = [snap EXCEPT ![p] = "closed"]
          /\ UNCHANGED <<status, flag, refers, processed, indexed, basevars, disk,
                         cur, pos, start, done, bytes, outcome, reqvars, faults>>
      BY <1>4, <2>3 DEF BeginDocument
    <3> QED
      BY <2>1, <3>2, <3>3 DEF InDocument, Working, basevars, reqvars, faults
  <2> QED
    BY <2>2, <2>3
<1>5. CASE OpenDocument(p)
  <2>1. pc[p] = "open" /\ pos[p] \in Docs /\ cur[p] \in Jobs
    BY <1>5 DEF OpenDocument, InDocument, Working
  <2>2. disk[cur[p]][Name[pos[p]]] \in 0..NumDocs
    <3>1. Name[pos[p]] \in Names
      BY <2>1 DEF Names
    <3>2. disk[cur[p]] \in [Names -> 0..NumDocs]
      BY <2>1
    <3> QED
      BY <3>1, <3>2
  <2>3. CASE FailItem(p)
    BY <2>1, <2>3, FailItemType DEF InDocument
  <2>4. CASE ~FailItem(p)
    <3>1. /\ disk[cur[p]][Name[pos[p]]] # 0
          /\ bytes' = [bytes EXCEPT ![p] = disk[cur[p]][Name[pos[p]]]]
          /\ snap'  = [snap EXCEPT ![p] = Snapshot(cur[p])]
          /\ pc'    = [pc EXCEPT ![p] = "chunking"]
          /\ UNCHANGED <<dbvars, disk, cur, pos, start, done, outcome, reqvars, faults>>
      BY <1>5, <2>4 DEF OpenDocument
    <3>2. bytes' \in [Procs -> 0..NumDocs] /\ bytes'[p] \in Docs
      BY <2>2, <3>1 DEF Docs
    <3> QED
      BY <2>1, <3>1, <3>2 DEF Snapshot, InDocument, Working, dbvars, reqvars, faults
  <2> QED
    BY <2>3, <2>4
<1>6. CASE ChunkGroup(p)
  BY <1>6 DEF ChunkGroup, InDocument, Working, dbvars, reqvars, faults
<1>7. CASE EndChunking(p)
  BY <1>7 DEF EndChunking, InDocument, Working, dbvars, reqvars, faults
<1>8. CASE Embed(p)
  BY <1>8 DEF Embed, InDocument, Working, dbvars, reqvars, faults
<1>9. CASE DocumentRaises(p)
  BY <1>9, FailItemType DEF DocumentRaises, InDocument
<1>10. CASE AbortDocument(p)
  BY <1>10 DEF AbortDocument, AtPoll, InDocument, Working, dbvars, reqvars, faults
<1>11. CASE CommitDocument(p)
  <2> DEFINE j == cur[p]
  <2>1. pc[p] = "ingested" /\ pos[p] \in Docs /\ bytes[p] \in Docs /\ j \in Jobs
    BY <1>11 DEF CommitDocument, InDocument, Working
  <2>2. item' \in [Jobs -> [Docs -> ItemStatus]]
    <3>1. PICK result \in {"succeeded", "partial"} :
            item' = [item EXCEPT ![j] = [item[j] EXCEPT ![pos[p]] = result]]
      BY <1>11 DEF CommitDocument
    <3>2. result \in ItemStatus
      BY DEF ItemStatus, Settled
    <3> QED
      BY <3>1, <3>2
  <2>3. NewChunks(p) \subseteq Chunk
    BY <2>1 DEF NewChunks, Chunk
  <2>4. chunks' \in [Jobs -> SUBSET Chunk]
    BY <1>11, <2>3 DEF CommitDocument
  <2>5. start' \in [Procs -> Nat] /\ processed' \in [Jobs -> Nat] /\ indexed' \in [Jobs -> Nat]
    <3>1. start[p] \in Nat /\ done[p] \in Nat /\ start[p] + done[p] \in Nat
      OBVIOUS
    <3>2. start' \in [Procs -> Nat]
      BY <1>11, <3>1 DEF CommitDocument
    <3>3. processed' \in [Jobs -> Nat]
      <4>1. processed' = [processed EXCEPT ![cur[p]] = processed[cur[p]] + 1]
        BY <1>11 DEF CommitDocument
      <4> QED
        BY <2>1, <4>1
    <3>4. indexed' \in [Jobs -> Nat]
      BY <1>11, <3>1 DEF CommitDocument
    <3> QED
      BY <3>2, <3>3, <3>4
  <2>6. NextDocument(p)
    BY <1>11 DEF CommitDocument
  <2>7. UNCHANGED <<status, flag, refers, base, graph, disk, cur, outcome, reqvars, faults>>
    BY <1>11 DEF CommitDocument
  <2>10. /\ pc' \in [Procs -> Working \cup {"down", "boot", "idle", "picked"}]
         /\ pos' \in [Procs -> 1..(NumDocs + 1)]
    BY <2>1, <2>6 DEF NextDocument, Docs, Working
  <2>11. done' \in [Procs -> Nat] /\ bytes' \in [Procs -> 0..NumDocs] /\ snap' \in [Procs -> {"closed", "clear", "raised"}]
    BY <2>6 DEF NextDocument
  <2>8. TypeOK'
    BY <2>2, <2>4, <2>5, <2>7, <2>10, <2>11 DEF reqvars, faults
  <2>9. PlacesOK'
    BY <2>1, <2>6, <2>7 DEF NextDocument, InDocument, Working, reqvars
  <2> QED
    BY <2>8, <2>9
<1>12. CASE BeginLinking(p)
  BY <1>12 DEF BeginLinking, InDocument, Working, dbvars, reqvars, faults
<1>13. CASE Link(p)
  BY <1>13 DEF Link, InDocument, Working, jobvars, reqvars, faults
<1>14. CASE Finish(p)
  <2>1. cur[p] \in Jobs
    BY <1>14 DEF Finish, Working
  <2>2. status' \in [Jobs -> JobStatus]
    BY <1>14, <2>1 DEF Finish, JobStatus, Terminal
  <2>3. LoseWorker(p, "idle")
    BY <1>14 DEF Finish
  <2>4. UNCHANGED <<flag, refers, processed, indexed, item, basevars, disk, reqvars, faults>>
    BY <1>14 DEF Finish
  <2> QED
    BY <2>2, <2>3, <2>4, LoseWorkerType DEF basevars, reqvars, faults
<1>15. CASE CancelAtCheckpoint(p)
  BY <1>15 DEF CancelAtCheckpoint, InDocument, Working, dbvars, reqvars, faults
<1>16. CASE DiscardFiles(p)
  <2>1. cur[p] \in Jobs /\ RemoveFiles(cur[p])
    BY <1>16 DEF DiscardFiles, Working
  <2>2. disk' \in [Jobs -> [Names -> 0..NumDocs]]
    BY <2>1, RemoveFilesType
  <2> QED
    BY <1>16, <2>2 DEF DiscardFiles, InDocument, Working, dbvars, reqvars, faults
<1>17. CASE CommitDiscard(p)
  <2>1. cur[p] \in Jobs
    BY <1>17 DEF CommitDiscard, Working
  <2>2. DiscardRows(cur[p]) /\ LoseWorker(p, "idle")
    BY <1>17 DEF CommitDiscard
  <2>3. UNCHANGED <<flag, processed, indexed, disk, reqvars, faults>>
    BY <1>17 DEF CommitDiscard
  <2> QED
    BY <2>1, <2>2, <2>3, LoseWorkerType, DiscardRowsType DEF reqvars, faults
<1>18. CASE Reclaim(p)
  <2>1. status' \in [Jobs -> JobStatus]
    BY <1>18 DEF Reclaim, JobStatus, Terminal
  <2>2. item' \in [Jobs -> [Docs -> ItemStatus]]
    <3>1. [j \in Jobs |-> [i \in Docs |-> IF item[j][i] = "running" THEN "failed" ELSE item[j][i]]]
            \in [Jobs -> [Docs -> ItemStatus]]
      BY DEF ItemStatus, Settled
    <3> QED
      BY <1>18, <3>1 DEF Reclaim
  <2> QED
    BY <1>18, <2>1, <2>2 DEF Reclaim, InDocument, Working, basevars, reqvars, faults
<1> QED
  BY <1>1, <1>2, <1>3, <1>4, <1>5, <1>6, <1>7, <1>8, <1>9, <1>10, <1>11, <1>12, <1>13, <1>14,
     <1>15, <1>16, <1>17, <1>18 DEF Worker

LEMMA RequestType ==
  ASSUME IndType, NEW p \in Procs, Request(p)
  PROVE  IndType'
<1> USE DEF IndType, TypeOK, PlacesOK
<1>1. CASE FlagForWorker(p)
  <2>1. RequestEnds(p) /\ flag' \in [Jobs -> BOOLEAN]
    BY <1>1 DEF FlagForWorker
  <2> QED
    BY <1>1, <2>1, RequestEndsType DEF FlagForWorker, basevars, procvars, faults
<1>2. CASE ClaimForCancel(p)
  BY <1>2 DEF ClaimForCancel, dbvars, procvars, faults
<1>3. CASE RequestRemovesFiles(p)
  <2>1. rjob[p] \in Jobs /\ RemoveFiles(rjob[p])
    BY <1>3 DEF RequestRemovesFiles
  <2>2. disk' \in [Jobs -> [Names -> 0..NumDocs]]
    BY <2>1, RemoveFilesType
  <2> QED
    BY <1>3, <2>2 DEF RequestRemovesFiles, dbvars, procvars, faults
<1>4. CASE RequestCommits(p)
  <2>1. rjob[p] \in Jobs
    BY <1>4 DEF RequestCommits
  <2>2. DiscardRows(rjob[p]) /\ RequestEnds(p) /\ flag' \in [Jobs -> BOOLEAN]
    BY <1>4 DEF RequestCommits
  <2> QED
    BY <1>4, <2>1, <2>2, DiscardRowsType, RequestEndsType DEF RequestCommits, procvars, faults
<1> QED
  BY <1>1, <1>2, <1>3, <1>4 DEF Request

LEMMA FaultType ==
  ASSUME IndType, NEW p \in Procs, Crash(p) \/ JobRaises(p) \/ IterationRaises(p) \/ RequestRaises(p) \/ Restart(p)
  PROVE  IndType'
<1> USE DEF IndType, TypeOK, PlacesOK
<1>1. CASE Crash(p)
  <2>1. LoseWorker(p, "down") /\ RequestEnds(p) /\ crashes' \in 0..MaxCrashes
    BY <1>1 DEF Crash
  <2> QED
    BY <1>1, <2>1, LoseWorkerType, RequestEndsType DEF Crash, dbvars
<1>2. CASE JobRaises(p)
  BY <1>2 DEF JobRaises, InDocument, Working, dbvars, reqvars
<1>3. CASE IterationRaises(p)
  <2>1. LoseWorker(p, "idle") /\ dberrors' \in 0..MaxDbErrors
    BY <1>3 DEF IterationRaises
  <2> QED
    BY <1>3, <2>1, LoseWorkerType DEF IterationRaises, dbvars, reqvars
<1>4. CASE RequestRaises(p)
  <2>1. RequestEnds(p) /\ dberrors' \in 0..MaxDbErrors
    BY <1>4 DEF RequestRaises
  <2> QED
    BY <1>4, <2>1, RequestEndsType DEF RequestRaises, dbvars, procvars
<1>5. CASE Restart(p)
  BY <1>5 DEF Restart, InDocument, Working, dbvars, reqvars, faults
<1> QED
  BY <1>1, <1>2, <1>3, <1>4, <1>5

LEMMA PurgeType ==
  ASSUME IndType, NEW p \in Procs, NEW j \in Jobs, ReadForCancel(p, j) \/ PurgeBase(p, j)
  PROVE  IndType'
<1> USE DEF IndType, TypeOK, PlacesOK
<1>1. CASE ReadForCancel(p, j)
  <2>1. rjob' \in [Procs -> 0..NumJobs] /\ rseen' \in [Procs -> {"absent", "queued", "running"}]
    BY <1>1 DEF ReadForCancel, Jobs
  <2>2. rpc' \in [Procs -> {"idle", "read", "claimed", "removed"}] /\ UNCHANGED <<dbvars, disk, procvars, faults>>
    BY <1>1 DEF ReadForCancel
  <2>3. PlacesOK'
    BY <1>1, <2>2 DEF ReadForCancel, procvars
  <2> QED
    BY <2>1, <2>2, <2>3 DEF dbvars, procvars, faults
<1>2. CASE PurgeBase(p, j)
  <2>1. disk' \in [Jobs -> [Names -> 0..NumDocs]]
    BY <1>2, RemoveFilesType DEF PurgeBase
  <2>2. /\ base' \in [Jobs -> {"none", "staged", "answerable"}]
        /\ chunks' \in [Jobs -> SUBSET Chunk]
        /\ graph' \in [Jobs -> BOOLEAN]
    BY <1>2 DEF PurgeBase, basevars
  <2> QED
    BY <1>2, <2>1, <2>2 DEF PurgeBase, jobvars, procvars, reqvars, faults
<1> QED
  BY <1>1, <1>2

LEMMA NextType == IndType /\ [Next]_vars => IndType'
<1> SUFFICES ASSUME IndType, [Next]_vars PROVE IndType'
  OBVIOUS
<1>1. CASE UNCHANGED vars
  BY <1>1 DEF vars, IndType, TypeOK, PlacesOK
<1>2. CASE Next
  BY <1>2, UploadType, WorkerType, RequestType, FaultType, PurgeType DEF Next, User, Fault
<1> QED
  BY <1>1, <1>2

\* Every variable stays in its range, and a worker or request that holds a job,
\* a document or bytes holds real ones.
THEOREM TypeCorrect == Spec => []TypeOK
<1>1. IndType => TypeOK
  BY DEF IndType
<1> QED
  BY InitType, NextType, <1>1, PTL DEF Spec

-----------------------------------------------------------------------------
(* Who holds a job                                                          *)

\* A worker works on a job that has left the queue and that it has not settled
\* itself (a restart elsewhere may have failed it), a request takes a job still
\* in the queue, and neither shares it.
ClaimInv ==
  /\ \A p \in Procs : pc[p] \in Working => status[cur[p]] \in {"running", "failed"}
  /\ \A p \in Procs : rpc[p] \in Taken => status[rjob[p]] = "queued"
  /\ \A p, q \in Procs : pc[p] \in Working /\ pc[q] \in Working /\ cur[p] = cur[q] => p = q
  /\ \A p, q \in Procs : rpc[p] \in Taken /\ rpc[q] \in Taken /\ rjob[p] = rjob[q] => p = q

\* The job-row of a base points at it, nothing of a base outlives it, and a
\* cancelled job has no unfinished item.
BaseInv ==
  \A j \in Jobs :
    /\ base[j] = "none" <=> status[j] \in {"absent", "cancelled"}
    /\ base[j] = "none" => ~refers[j] /\ chunks[j] = {} /\ ~graph[j]
    /\ base[j] # "none" => refers[j]
    /\ status[j] = "cancelled" => \A i \in Docs : item[j][i] \notin {"pending", "running"}

IInv == IndType /\ ClaimInv /\ BaseInv

\* The steps of run_job that neither take a job nor let go of it.
RunStep(p) ==
  \/ LoadJob(p) \/ BeginDocument(p) \/ OpenDocument(p) \/ ChunkGroup(p) \/ EndChunking(p) \/ Embed(p)
  \/ DocumentRaises(p) \/ AbortDocument(p) \/ CommitDocument(p) \/ BeginLinking(p) \/ Link(p)
  \/ CancelAtCheckpoint(p) \/ DiscardFiles(p) \/ JobRaises(p)

\* What they have in common: p stays at work on the same job, no job's status
\* changes, and no row of another job's base.
StaysAtWork(p) ==
  /\ pc[p] \in Working /\ pc'[p] \in Working
  /\ \A q \in Procs : q # p => pc'[q] = pc[q]
  /\ UNCHANGED <<status, refers, cur, rpc, rjob>>

OwnBaseOnly(p) ==
  /\ \A j \in Jobs : j # cur[p] =>
       base'[j] = base[j] /\ chunks'[j] = chunks[j] /\ graph'[j] = graph[j] /\ item'[j] = item[j]
  /\ base'[cur[p]] = "none" <=> base[cur[p]] = "none"

LEMMA FailItemStays ==
  ASSUME IndType, NEW p \in Procs, pc[p] \in Working, FailItem(p)
  PROVE  StaysAtWork(p) /\ OwnBaseOnly(p)
<1>1. StaysAtWork(p)
  BY DEF FailItem, NextDocument, IndType, TypeOK, Working, StaysAtWork, reqvars
<1>2. OwnBaseOnly(p)
  BY DEF FailItem, IndType, TypeOK, OwnBaseOnly, basevars
<1> QED
  BY <1>1, <1>2

LEMMA RunStepStays ==
  ASSUME IndType, NEW p \in Procs, RunStep(p)
  PROVE  StaysAtWork(p) /\ OwnBaseOnly(p)
<1> USE DEF IndType, TypeOK
<1>1. CASE LoadJob(p)
  BY <1>1 DEF LoadJob, Working, StaysAtWork, OwnBaseOnly, dbvars, reqvars
<1>2. CASE BeginDocument(p)
  <2>1. pc[p] = "checkpoint"
    BY <1>2 DEF BeginDocument
  <2>2. CASE FailItem(p)
    BY <2>1, <2>2, FailItemStays DEF Working
  <2>3. CASE ~FailItem(p)
    BY <1>2, <2>3 DEF BeginDocument, Working, StaysAtWork, OwnBaseOnly, basevars, reqvars
  <2> QED
    BY <2>2, <2>3
<1>3. CASE OpenDocument(p)
  <2>1. pc[p] = "open"
    BY <1>3 DEF OpenDocument
  <2>2. CASE FailItem(p)
    BY <2>1, <2>2, FailItemStays DEF Working
  <2>3. CASE ~FailItem(p)
    BY <1>3, <2>3 DEF OpenDocument, Working, StaysAtWork, OwnBaseOnly, dbvars, reqvars
  <2> QED
    BY <2>2, <2>3
<1>4. CASE ChunkGroup(p)
  BY <1>4 DEF ChunkGroup, Working, StaysAtWork, OwnBaseOnly, dbvars, reqvars
<1>5. CASE EndChunking(p)
  BY <1>5 DEF EndChunking, Working, StaysAtWork, OwnBaseOnly, dbvars, reqvars
<1>6. CASE Embed(p)
  BY <1>6 DEF Embed, Working, StaysAtWork, OwnBaseOnly, dbvars, reqvars
<1>7. CASE DocumentRaises(p)
  BY <1>7, FailItemStays DEF DocumentRaises, Working
<1>8. CASE AbortDocument(p)
  BY <1>8 DEF AbortDocument, AtPoll, Working, StaysAtWork, OwnBaseOnly, dbvars, reqvars
<1>9. CASE CommitDocument(p)
  <2>1. StaysAtWork(p)
    BY <1>9 DEF CommitDocument, NextDocument, Working, StaysAtWork, reqvars
  <2>2. OwnBaseOnly(p)
    BY <1>9 DEF CommitDocument, OwnBaseOnly
  <2> QED
    BY <2>1, <2>2
<1>10. CASE BeginLinking(p)
  BY <1>10 DEF BeginLinking, Working, StaysAtWork, OwnBaseOnly, dbvars, reqvars
<1>11. CASE Link(p)
  <2>1. StaysAtWork(p)
    BY <1>11 DEF Link, Working, StaysAtWork, jobvars, reqvars
  <2>2. OwnBaseOnly(p)
    BY <1>11 DEF Link, OwnBaseOnly, jobvars
  <2> QED
    BY <2>1, <2>2
<1>12. CASE CancelAtCheckpoint(p)
  BY <1>12 DEF CancelAtCheckpoint, Working, StaysAtWork, OwnBaseOnly, dbvars, reqvars
<1>13. CASE DiscardFiles(p)
  BY <1>13 DEF DiscardFiles, Working, StaysAtWork, OwnBaseOnly, dbvars, reqvars
<1>14. CASE JobRaises(p)
  BY <1>14 DEF JobRaises, Working, StaysAtWork, OwnBaseOnly, dbvars, reqvars
<1> QED
  BY <1>1, <1>2, <1>3, <1>4, <1>5, <1>6, <1>7, <1>8, <1>9, <1>10, <1>11, <1>12, <1>13, <1>14 DEF RunStep

LEMMA InitInv == Init => IInv
  BY InitType DEF Init, IInv, ClaimInv, BaseInv, Working, Taken

LEMMA RunStepInv ==
  ASSUME IInv, NEW p \in Procs, RunStep(p)
  PROVE  ClaimInv' /\ BaseInv'
<1>1. StaysAtWork(p) /\ OwnBaseOnly(p)
  BY RunStepStays DEF IInv
<1>2. cur[p] \in Jobs /\ status[cur[p]] \in {"running", "failed"}
  BY <1>1 DEF IInv, IndType, PlacesOK, ClaimInv, StaysAtWork
<1>3. ClaimInv'
  BY <1>1 DEF IInv, ClaimInv, StaysAtWork
<1>4. ASSUME NEW j \in Jobs PROVE
        /\ base'[j] = "none" <=> status'[j] \in {"absent", "cancelled"}
        /\ base'[j] = "none" => ~refers'[j] /\ chunks'[j] = {} /\ ~graph'[j]
        /\ base'[j] # "none" => refers'[j]
        /\ status'[j] = "cancelled" => \A i \in Docs : item'[j][i] \notin {"pending", "running"}
  <2>1. CASE j = cur[p]
    BY <1>1, <1>2, <2>1 DEF IInv, BaseInv, StaysAtWork, OwnBaseOnly
  <2>2. CASE j # cur[p]
    BY <1>1, <2>2 DEF IInv, BaseInv, StaysAtWork, OwnBaseOnly
  <2> QED
    BY <2>1, <2>2
<1>5. BaseInv'
  BY <1>4 DEF BaseInv
<1> QED
  BY <1>3, <1>5

\* A row of the base or of its job changes nowhere.
SameRows == UNCHANGED <<status, refers, base, chunks, graph, item>>

LEMMA SameRowsBase ==
  ASSUME BaseInv, SameRows
  PROVE  BaseInv'
  BY DEF BaseInv, SameRows

\* The steps that touch no row: they take nothing and may let go.
LEMMA QuietInv ==
  ASSUME IInv, NEW p \in Procs,
         \/ PollQueue(p) \/ \E j \in Jobs : ReadForCancel(p, j)
         \/ FlagForWorker(p) \/ RequestRemovesFiles(p)
         \/ Crash(p) \/ IterationRaises(p) \/ RequestRaises(p) \/ Restart(p)
  PROVE  ClaimInv' /\ BaseInv'
<1> USE DEF IInv, IndType, TypeOK, ClaimInv, Working, Taken
<1>1. CASE PollQueue(p)
  <2>1. SameRows /\ UNCHANGED <<rpc, rjob>>
    BY <1>1 DEF PollQueue, SameRows, dbvars, reqvars
  <2>2. pc' = [pc EXCEPT ![p] = "picked"] /\ \A q \in Procs : q # p => cur'[q] = cur[q]
    BY <1>1 DEF PollQueue
  <2> QED
    BY <2>1, <2>2, SameRowsBase DEF SameRows
<1>2. CASE \E j \in Jobs : ReadForCancel(p, j)
  <2>1. SameRows /\ UNCHANGED <<pc, cur>>
    BY <1>2 DEF ReadForCancel, SameRows, dbvars, procvars
  <2>2. rpc' = [rpc EXCEPT ![p] = "read"] /\ \A q \in Procs : q # p => rjob'[q] = rjob[q]
    BY <1>2 DEF ReadForCancel
  <2> QED
    BY <2>1, <2>2, SameRowsBase DEF SameRows
<1>3. CASE FlagForWorker(p)
  BY <1>3, SameRowsBase DEF FlagForWorker, RequestEnds, SameRows, basevars, procvars
<1>4. CASE RequestRemovesFiles(p)
  BY <1>4, SameRowsBase DEF RequestRemovesFiles, SameRows, dbvars, procvars
<1>5. CASE Crash(p)
  BY <1>5, SameRowsBase DEF Crash, LoseWorker, RequestEnds, SameRows, dbvars
<1>6. CASE IterationRaises(p)
  BY <1>6, SameRowsBase DEF IterationRaises, LoseWorker, SameRows, dbvars, reqvars
<1>7. CASE RequestRaises(p)
  BY <1>7, SameRowsBase DEF RequestRaises, RequestEnds, SameRows, dbvars, procvars
<1>8. CASE Restart(p)
  BY <1>8, SameRowsBase DEF Restart, SameRows, dbvars, reqvars
<1> QED
  BY <1>1, <1>2, <1>3, <1>4, <1>5, <1>6, <1>7, <1>8

LEMMA UploadInv ==
  ASSUME IInv, NEW j \in Jobs, Upload(j)
  PROVE  ClaimInv' /\ BaseInv'
<1> USE DEF IInv, IndType, TypeOK
<1>1. /\ status[j] = "absent"
      /\ status' = [status EXCEPT ![j] = "queued"]
      /\ refers' = [refers EXCEPT ![j] = TRUE]
      /\ base'   = [base EXCEPT ![j] = "staged"]
      /\ \A k \in Jobs : k # j => item'[k] = item[k]
      /\ UNCHANGED <<chunks, graph, pc, cur, rpc, rjob>>
  BY DEF Upload, procvars, reqvars
<1>2. ClaimInv'
  BY <1>1 DEF ClaimInv, PlacesOK, Working, Taken
<1>3. BaseInv'
  BY <1>1 DEF BaseInv
<1> QED
  BY <1>2, <1>3

LEMMA PurgeInv ==
  ASSUME IInv, NEW p \in Procs, NEW j \in Jobs, PurgeBase(p, j)
  PROVE  ClaimInv' /\ BaseInv'
<1>1. refers[j]
  BY DEF PurgeBase, IInv, BaseInv
<1>2. SameRows /\ UNCHANGED <<pc, cur, rpc, rjob>>
  BY <1>1 DEF PurgeBase, SameRows, basevars, jobvars, procvars, reqvars
<1> QED
  BY <1>2, SameRowsBase DEF SameRows, IInv, ClaimInv

LEMMA ClaimStepInv ==
  ASSUME IInv, NEW p \in Procs, Claim(p)
  PROVE  ClaimInv' /\ BaseInv'
<1> DEFINE j == cur[p]
<1> USE DEF IInv, IndType, TypeOK
<1>1. j \in Jobs /\ pc[p] = "picked" /\ ~RowLocked(j)
  BY DEF Claim, PlacesOK
<1>2. UNCHANGED <<refers, item, base, chunks, graph, rpc, rjob>>
  BY DEF Claim, basevars, reqvars
<1>3. CASE status[j] = "queued"
  <2>1. /\ status' = [status EXCEPT ![j] = "running"]
        /\ pc' = [pc EXCEPT ![p] = "claimed"]
        /\ cur' = cur
    BY <1>3 DEF Claim
  <2>2. \A q \in Procs : pc[q] \in Working => cur[q] # j
    BY <1>3 DEF ClaimInv
  <2>3. \A q \in Procs : rpc[q] \in Taken => rjob[q] # j
    BY <1>1 DEF RowLocked, Taken
  <2>4. ClaimInv'
    BY <1>1, <1>2, <2>1, <2>2, <2>3 DEF ClaimInv, PlacesOK, Working, Taken
  <2>5. BaseInv'
    BY <1>1, <1>2, <1>3, <2>1 DEF BaseInv
  <2> QED
    BY <2>4, <2>5
<1>4. CASE status[j] # "queued"
  <2>1. LoseWorker(p, "idle") /\ UNCHANGED status
    BY <1>4 DEF Claim
  <2>2. ClaimInv'
    BY <1>2, <2>1 DEF ClaimInv, LoseWorker, Working, Taken
  <2> QED
    BY <1>2, <2>1, <2>2, SameRowsBase DEF SameRows
<1> QED
  BY <1>3, <1>4

LEMMA FinishInv ==
  ASSUME IInv, NEW p \in Procs, Finish(p)
  PROVE  ClaimInv' /\ BaseInv'
<1> DEFINE j == cur[p]
<1> USE DEF IInv, IndType, TypeOK
<1>1. j \in Jobs /\ pc[p] \in Working /\ status[j] \in {"running", "failed"}
  BY DEF Finish, PlacesOK, ClaimInv, Working
<1>2. status' = [status EXCEPT ![j] = outcome[p]] /\ outcome[p] \in {"succeeded", "failed"}
  BY DEF Finish
<1>3. LoseWorker(p, "idle") /\ UNCHANGED <<refers, item, base, chunks, graph, rpc, rjob>>
  BY DEF Finish, basevars, reqvars
<1>4. ClaimInv'
  BY <1>1, <1>2, <1>3 DEF ClaimInv, PlacesOK, LoseWorker, Working, Taken
<1>5. BaseInv'
  BY <1>1, <1>2, <1>3 DEF BaseInv
<1> QED
  BY <1>4, <1>5

\* What discarding a job does to the rows, whoever does it.
LEMMA DiscardRowsBase ==
  ASSUME IInv, NEW j \in Jobs, DiscardRows(j)
  PROVE  BaseInv'
<1> USE DEF IInv, IndType, TypeOK
<1>1. /\ status'[j] = "cancelled" /\ base'[j] = "none" /\ chunks'[j] = {}
      /\ graph'[j] = FALSE /\ refers'[j] = FALSE
  BY DEF DiscardRows
<1>2. \A i \in Docs : item'[j][i] \notin {"pending", "running"}
  <2>1. item'[j] = [i \in Docs |-> IF item[j][i] \in {"pending", "running"} THEN "cancelled" ELSE item[j][i]]
    BY DEF DiscardRows, CancelItems
  <2> QED
    BY <2>1
<1>3. \A k \in Jobs : k # j => /\ status'[k] = status[k] /\ base'[k] = base[k] /\ chunks'[k] = chunks[k]
                             /\ graph'[k] = graph[k] /\ refers'[k] = refers[k] /\ item'[k] = item[k]
  BY DEF DiscardRows, CancelItems
<1>4. ASSUME NEW k \in Jobs PROVE
        /\ base'[k] = "none" <=> status'[k] \in {"absent", "cancelled"}
        /\ base'[k] = "none" => ~refers'[k] /\ chunks'[k] = {} /\ ~graph'[k]
        /\ base'[k] # "none" => refers'[k]
        /\ status'[k] = "cancelled" => \A i \in Docs : item'[k][i] \notin {"pending", "running"}
  <2>1. CASE k = j
    BY <1>1, <1>2, <2>1
  <2>2. CASE k # j
    BY <1>3, <2>2 DEF BaseInv
  <2> QED
    BY <2>1, <2>2
<1> QED
  BY <1>4 DEF BaseInv

LEMMA CommitDiscardInv ==
  ASSUME IInv, NEW p \in Procs, CommitDiscard(p)
  PROVE  ClaimInv' /\ BaseInv'
<1> USE DEF IInv, IndType, TypeOK
<1>1. cur[p] \in Jobs /\ pc[p] \in Working /\ status[cur[p]] \in {"running", "failed"}
  BY DEF CommitDiscard, PlacesOK, ClaimInv, Working
<1>2. DiscardRows(cur[p]) /\ LoseWorker(p, "idle") /\ UNCHANGED <<rpc, rjob>>
  BY DEF CommitDiscard, reqvars
<1>3. status' = [status EXCEPT ![cur[p]] = "cancelled"]
  BY <1>2 DEF DiscardRows
<1>4. ClaimInv'
  BY <1>1, <1>2, <1>3 DEF ClaimInv, PlacesOK, LoseWorker, Working, Taken
<1> QED
  BY <1>1, <1>2, <1>4, DiscardRowsBase

LEMMA ReclaimInv ==
  ASSUME IInv, NEW p \in Procs, Reclaim(p)
  PROVE  ClaimInv' /\ BaseInv'
<1> USE DEF IInv, IndType, TypeOK
<1>1. \A j \in Jobs : status'[j] = IF status[j] = "running" THEN "failed" ELSE status[j]
  BY DEF Reclaim
<1>2. \A j \in Jobs, i \in Docs : item'[j][i] = item[j][i] \/ item'[j][i] = "failed"
  BY DEF Reclaim
<1>3. pc' = [pc EXCEPT ![p] = "idle"] /\ UNCHANGED <<refers, base, chunks, graph, cur, rpc, rjob>>
  BY DEF Reclaim, basevars, reqvars
<1>4. ClaimInv'
  <2>1. \A q \in Procs : pc'[q] \in Working => pc[q] \in Working /\ cur[q] \in Jobs
    BY <1>3 DEF PlacesOK, Working
  <2>2. \A q \in Procs : rpc[q] \in Taken => rjob[q] \in Jobs
    BY DEF PlacesOK, Taken
  <2> QED
    BY <1>1, <1>3, <2>1, <2>2 DEF ClaimInv
<1>5. BaseInv'
  BY <1>1, <1>2, <1>3 DEF BaseInv
<1> QED
  BY <1>4, <1>5

LEMMA ClaimForCancelInv ==
  ASSUME IInv, NEW p \in Procs, ClaimForCancel(p)
  PROVE  ClaimInv' /\ BaseInv'
<1> USE DEF IInv, IndType, TypeOK
<1>1. SameRows /\ UNCHANGED <<pc, cur, rjob>> /\ rpc' = [rpc EXCEPT ![p] = "claimed"]
  BY DEF ClaimForCancel, SameRows, dbvars, procvars
<1>2. status[rjob[p]] = "queued" /\ ~RowLocked(rjob[p])
  BY DEF ClaimForCancel
<1>3. ClaimInv'
  BY <1>1, <1>2 DEF ClaimInv, SameRows, RowLocked, Working, Taken
<1> QED
  BY <1>1, <1>3, SameRowsBase

LEMMA RequestCommitsInv ==
  ASSUME IInv, NEW p \in Procs, RequestCommits(p)
  PROVE  ClaimInv' /\ BaseInv'
<1> USE DEF IInv, IndType, TypeOK
<1>1. rjob[p] \in Jobs /\ rpc[p] \in Taken /\ status[rjob[p]] = "queued"
  BY DEF RequestCommits, PlacesOK, ClaimInv, Taken
<1>2. DiscardRows(rjob[p]) /\ RequestEnds(p) /\ UNCHANGED <<pc, cur>>
  BY DEF RequestCommits, procvars
<1>3. status' = [status EXCEPT ![rjob[p]] = "cancelled"]
  BY <1>2 DEF DiscardRows
<1>4. ClaimInv'
  BY <1>1, <1>2, <1>3 DEF ClaimInv, PlacesOK, RequestEnds, Working, Taken
<1> QED
  BY <1>1, <1>2, <1>4, DiscardRowsBase

LEMMA NextInv == IInv /\ [Next]_vars => IInv'
<1> SUFFICES ASSUME IInv, [Next]_vars PROVE IInv'
  OBVIOUS
<1>1. IndType'
  BY NextType DEF IInv
<1>2. ClaimInv' /\ BaseInv'
  <2>1. CASE UNCHANGED vars
    BY <2>1 DEF vars, IInv, ClaimInv, BaseInv
  <2>2. CASE User
    BY <2>2, UploadInv, PurgeInv, QuietInv DEF User
  <2>3. CASE Fault
    BY <2>3, QuietInv, RunStepInv DEF Fault, RunStep
  <2>4. CASE \E p \in Procs : Worker(p) \/ Request(p) \/ Restart(p)
    BY <2>4, QuietInv, RunStepInv, ClaimStepInv, FinishInv, CommitDiscardInv, ReclaimInv,
       ClaimForCancelInv, RequestCommitsInv DEF Worker, Request, RunStep
  <2> QED
    BY <2>1, <2>2, <2>3, <2>4 DEF Next
<1> QED
  BY <1>1, <1>2 DEF IInv

LEMMA AlwaysIInv == Spec => []IInv
  BY InitInv, NextInv, PTL DEF Spec

\* However many pollers, cancel requests and restarts race for it, a job is
\* never worked on twice at once.
THEOREM ClaimIsExclusive == Spec => []OneHolderPerJob
<1>1. IInv => OneHolderPerJob
  BY DEF IInv, ClaimInv, OneHolderPerJob, Holders, Taken
<1> QED
  BY AlwaysIInv, <1>1, PTL

\* A cancelled upload is as if it never ran: no row of its base, no unfinished
\* item, and no process left that could still write one.
THEOREM CancelDiscards == Spec => []CancelledLeavesNothing
<1>1. IInv => CancelledLeavesNothing
  BY DEF IInv, ClaimInv, BaseInv, CancelledLeavesNothing, Holders, Taken
<1> QED
  BY AlwaysIInv, <1>1, PTL

\* Nobody deletes a base under the worker that fills it.
THEOREM BaseOutlives == Spec => []BaseOutlivesItsWorker
<1>1. IInv => BaseOutlivesItsWorker
  BY DEF IInv, IndType, PlacesOK, ClaimInv, BaseInv, BaseOutlivesItsWorker
<1> QED
  BY AlwaysIInv, <1>1, PTL

-----------------------------------------------------------------------------
(* One process implements the lifecycle                                     *)

\* A base is published by the step before _finish, and by nothing else.
PublishInv ==
  /\ \A p \in Procs : pc[p] \in Working \ {"finishing"} => base[cur[p]] = "staged"
  /\ \A p \in Procs : pc[p] = "finishing" /\ outcome[p] = "succeeded" => base[cur[p]] = "answerable"
  /\ \A j \in Jobs : status[j] = "queued" => base[j] = "staged"

\* A single process cannot restart beside its own worker, so a job it works on
\* is running.
LoneInv ==
  \A p \in Procs : pc[p] \in Working => status[cur[p]] = "running"

LInv == IInv /\ PublishInv /\ LoneInv

\* A step of run_job publishes on its way to _finish or leaves the base alone.
PublishesLast(p) ==
  /\ pc[p] # "finishing"
  /\ \A q \in Procs : q # p => outcome'[q] = outcome[q]
  /\ \/ base' = base /\ (pc'[p] # "finishing" \/ outcome'[p] = "failed")
     \/ base' = [base EXCEPT ![cur[p]] = "answerable"] /\ pc'[p] = "finishing"

LEMMA FailItemPublishes ==
  ASSUME IndType, NEW p \in Procs, pc[p] # "finishing", FailItem(p)
  PROVE  PublishesLast(p)
  BY DEF FailItem, NextDocument, IndType, TypeOK, PublishesLast, basevars

LEMMA RunStepPublishes ==
  ASSUME IndType, NEW p \in Procs, RunStep(p)
  PROVE  PublishesLast(p)
<1> USE DEF IndType, TypeOK
<1>1. CASE LoadJob(p)
  BY <1>1 DEF LoadJob, PublishesLast, dbvars
<1>2. CASE BeginDocument(p)
  <2>1. CASE FailItem(p)
    BY <1>2, <2>1, FailItemPublishes DEF BeginDocument
  <2>2. CASE ~FailItem(p)
    BY <1>2, <2>2 DEF BeginDocument, PublishesLast, basevars
  <2> QED
    BY <2>1, <2>2
<1>3. CASE OpenDocument(p)
  <2>1. CASE FailItem(p)
    BY <1>3, <2>1, FailItemPublishes DEF OpenDocument
  <2>2. CASE ~FailItem(p)
    BY <1>3, <2>2 DEF OpenDocument, PublishesLast, dbvars
  <2> QED
    BY <2>1, <2>2
<1>4. CASE ChunkGroup(p)
  BY <1>4 DEF ChunkGroup, PublishesLast, dbvars
<1>5. CASE EndChunking(p)
  BY <1>5 DEF EndChunking, PublishesLast, dbvars
<1>6. CASE Embed(p)
  BY <1>6 DEF Embed, PublishesLast, dbvars
<1>7. CASE DocumentRaises(p)
  BY <1>7, FailItemPublishes DEF DocumentRaises
<1>8. CASE AbortDocument(p)
  BY <1>8 DEF AbortDocument, AtPoll, PublishesLast, dbvars
<1>9. CASE CommitDocument(p)
  BY <1>9 DEF CommitDocument, NextDocument, PublishesLast
<1>10. CASE BeginLinking(p)
  BY <1>10 DEF BeginLinking, PublishesLast, dbvars
<1>11. CASE Link(p)
  BY <1>11 DEF Link, PublishesLast
<1>12. CASE CancelAtCheckpoint(p)
  BY <1>12 DEF CancelAtCheckpoint, PublishesLast, dbvars
<1>13. CASE DiscardFiles(p)
  BY <1>13 DEF DiscardFiles, PublishesLast, dbvars
<1>14. CASE JobRaises(p)
  BY <1>14 DEF JobRaises, PublishesLast, dbvars
<1> QED
  BY <1>1, <1>2, <1>3, <1>4, <1>5, <1>6, <1>7, <1>8, <1>9, <1>10, <1>11, <1>12, <1>13, <1>14 DEF RunStep

\* The promised step: what the lifecycle allows, or nothing it can see.
Promised == Lifecycle!Next \/ UNCHANGED <<status, base>>

LEMMA RunStepLife ==
  ASSUME LInv, NEW p \in Procs, RunStep(p)
  PROVE  PublishInv' /\ LoneInv' /\ Promised
<1> USE DEF LInv, IInv, IndType, TypeOK
<1>1. StaysAtWork(p) /\ PublishesLast(p)
  BY RunStepStays, RunStepPublishes
<1>2. cur[p] \in Jobs /\ status[cur[p]] = "running" /\ base[cur[p]] = "staged"
  BY <1>1 DEF StaysAtWork, PublishesLast, PlacesOK, LoneInv, PublishInv
<1>3. LoneInv'
  BY <1>1 DEF StaysAtWork, LoneInv
<1>4. CASE base' = base /\ (pc'[p] # "finishing" \/ outcome'[p] = "failed")
  <2>1. ASSUME NEW q \in Procs, pc'[q] \in Working \ {"finishing"} PROVE base'[cur'[q]] = "staged"
    BY <1>1, <1>2, <1>4, <2>1 DEF StaysAtWork, PublishInv
  <2>2. ASSUME NEW q \in Procs, pc'[q] = "finishing", outcome'[q] = "succeeded" PROVE base'[cur'[q]] = "answerable"
    BY <1>1, <1>4, <2>2 DEF StaysAtWork, PublishesLast, PublishInv
  <2>3. PublishInv'
    BY <1>1, <1>4, <2>1, <2>2 DEF StaysAtWork, PublishInv
  <2> QED
    BY <1>1, <1>3, <1>4, <2>3 DEF StaysAtWork, Promised
<1>5. CASE base' = [base EXCEPT ![cur[p]] = "answerable"] /\ pc'[p] = "finishing"
  <2>1. \A q \in Procs : q # p /\ pc[q] \in Working => cur[q] # cur[p] /\ cur[q] \in Jobs
    BY <1>1 DEF StaysAtWork, ClaimInv, PlacesOK
  <2>2. PublishInv'
    BY <1>1, <1>2, <1>5, <2>1 DEF StaysAtWork, PublishesLast, PublishInv, Working
  <2>3. Lifecycle!Publish(cur[p])
    BY <1>1, <1>2, <1>5 DEF StaysAtWork, Lifecycle!Publish
  <2> QED
    BY <1>2, <1>3, <2>2, <2>3 DEF Promised, Lifecycle!Next
<1> QED
  BY <1>1, <1>4, <1>5 DEF PublishesLast

\* The steps that neither take a job nor write what the lifecycle can see.
LetsGo ==
  /\ UNCHANGED <<status, base>>
  /\ \A q \in Procs : pc'[q] \in Working => pc'[q] = pc[q] /\ cur'[q] = cur[q] /\ outcome'[q] = outcome[q]

LEMMA LetsGoLife ==
  ASSUME LInv, LetsGo
  PROVE  PublishInv' /\ LoneInv' /\ Promised
<1>1. LoneInv'
  BY DEF LInv, LoneInv, LetsGo
<1>2. PublishInv'
  BY DEF LInv, PublishInv, LetsGo, Working
<1> QED
  BY <1>1, <1>2 DEF LetsGo, Promised

LEMMA QuietLetsGo ==
  ASSUME LInv, NEW p \in Procs,
         \/ PollQueue(p) \/ \E j \in Jobs : ReadForCancel(p, j) \/ PurgeBase(p, j)
         \/ FlagForWorker(p) \/ ClaimForCancel(p) \/ RequestRemovesFiles(p)
         \/ Crash(p) \/ IterationRaises(p) \/ RequestRaises(p) \/ Restart(p)
  PROVE  LetsGo
<1> USE DEF LInv, IInv, IndType, TypeOK, Working
<1>1. CASE PollQueue(p)
  BY <1>1 DEF PollQueue, LetsGo, dbvars
<1>2. CASE \E j \in Jobs : ReadForCancel(p, j)
  BY <1>2 DEF ReadForCancel, LetsGo, dbvars, procvars
<1>3. CASE \E j \in Jobs : PurgeBase(p, j)
  <2>1. PICK j \in Jobs : PurgeBase(p, j)
    BY <1>3
  <2>2. refers[j]
    BY <2>1 DEF PurgeBase, BaseInv
  <2> QED
    BY <2>1, <2>2 DEF PurgeBase, LetsGo, basevars, jobvars, procvars
<1>4. CASE FlagForWorker(p) \/ ClaimForCancel(p) \/ RequestRemovesFiles(p)
  BY <1>4 DEF FlagForWorker, ClaimForCancel, RequestRemovesFiles, LetsGo, dbvars, basevars, procvars
<1>5. CASE Crash(p) \/ IterationRaises(p)
  BY <1>5 DEF Crash, IterationRaises, LoseWorker, LetsGo, dbvars
<1>6. CASE RequestRaises(p) \/ Restart(p)
  BY <1>6 DEF RequestRaises, Restart, LetsGo, dbvars, procvars
<1> QED
  BY <1>1, <1>2, <1>3, <1>4, <1>5, <1>6

LEMMA UploadLife ==
  ASSUME LInv, NEW j \in Jobs, Upload(j)
  PROVE  PublishInv' /\ LoneInv' /\ Promised
<1> USE DEF LInv, IInv, IndType, TypeOK
<1>1. /\ status[j] = "absent"
      /\ status' = [status EXCEPT ![j] = "queued"]
      /\ base'   = [base EXCEPT ![j] = "staged"]
      /\ UNCHANGED <<pc, cur, outcome>>
  BY DEF Upload, procvars
<1>2. \A q \in Procs : pc[q] \in Working => cur[q] \in Jobs /\ cur[q] # j
  BY <1>1 DEF LoneInv, PlacesOK
<1>3. LoneInv'
  BY <1>1, <1>2 DEF LoneInv
<1>4. PublishInv'
  BY <1>1, <1>2 DEF PublishInv, Working
<1>5. Lifecycle!Submit(j)
  BY <1>1 DEF Lifecycle!Submit
<1> QED
  BY <1>3, <1>4, <1>5 DEF Promised, Lifecycle!Next

LEMMA ClaimLife ==
  ASSUME LInv, NEW p \in Procs, Claim(p)
  PROVE  PublishInv' /\ LoneInv' /\ Promised
<1> DEFINE j == cur[p]
<1> USE DEF LInv, IInv, IndType, TypeOK
<1>1. j \in Jobs /\ UNCHANGED base
  BY DEF Claim, PlacesOK, basevars
<1>2. CASE status[j] = "queued"
  <2>1. /\ status' = [status EXCEPT ![j] = "running"]
        /\ pc' = [pc EXCEPT ![p] = "claimed"]
        /\ UNCHANGED <<cur, outcome>>
    BY <1>2 DEF Claim
  <2>2. base[j] = "staged"
    BY <1>1, <1>2 DEF PublishInv
  <2>3. LoneInv'
    BY <1>1, <2>1 DEF LoneInv, PlacesOK
  <2>4. PublishInv'
    BY <1>1, <2>1, <2>2 DEF PublishInv
  <2>5. Lifecycle!Start(j)
    BY <1>1, <1>2, <2>1 DEF Lifecycle!Start
  <2> QED
    BY <1>1, <2>3, <2>4, <2>5 DEF Promised, Lifecycle!Next
<1>3. CASE status[j] # "queued"
  BY <1>1, <1>3, LetsGoLife DEF Claim, LoseWorker, LetsGo, Working
<1> QED
  BY <1>2, <1>3

LEMMA FinishLife ==
  ASSUME LInv, NEW p \in Procs, Finish(p)
  PROVE  PublishInv' /\ LoneInv' /\ Promised
<1> DEFINE j == cur[p]
<1> USE DEF LInv, IInv, IndType, TypeOK
<1>1. j \in Jobs /\ pc[p] = "finishing" /\ pc[p] \in Working /\ status[j] = "running"
  BY DEF Finish, PlacesOK, LoneInv, Working
<1>2. /\ status' = [status EXCEPT ![j] = outcome[p]] /\ outcome[p] \in {"succeeded", "failed"}
      /\ LoseWorker(p, "idle") /\ UNCHANGED base
  BY DEF Finish, basevars
<1>3. \A q \in Procs : pc'[q] \in Working =>
        q # p /\ pc'[q] = pc[q] /\ cur'[q] = cur[q] /\ outcome'[q] = outcome[q] /\ cur[q] # j /\ cur[q] \in Jobs
  BY <1>1, <1>2 DEF LoseWorker, ClaimInv, PlacesOK, Working
<1>4. LoneInv'
  BY <1>1, <1>2, <1>3 DEF LoneInv
<1>5. PublishInv'
  BY <1>1, <1>2, <1>3 DEF PublishInv, Working
<1>6. Lifecycle!Succeed(j) \/ Lifecycle!Fail(j)
  BY <1>1, <1>2 DEF PublishInv, Lifecycle!Succeed, Lifecycle!Fail
<1> QED
  BY <1>1, <1>4, <1>5, <1>6 DEF Promised, Lifecycle!Next

\* Discarding a staged base that nobody works on afterwards.
LEMMA DiscardLife ==
  ASSUME LInv, NEW j \in Jobs, DiscardRows(j),
         status[j] \in {"queued", "running"}, base[j] = "staged",
         \A q \in Procs : pc'[q] \in Working =>
           pc'[q] = pc[q] /\ cur'[q] = cur[q] /\ outcome'[q] = outcome[q] /\ cur[q] # j
  PROVE  PublishInv' /\ LoneInv' /\ Promised
<1> USE DEF LInv, IInv, IndType, TypeOK
<1>1. status' = [status EXCEPT ![j] = "cancelled"] /\ base' = [base EXCEPT ![j] = "none"]
  BY DEF DiscardRows
<1>2. \A q \in Procs : pc'[q] \in Working => cur[q] \in Jobs
  BY DEF PlacesOK
<1>3. LoneInv'
  BY <1>1, <1>2 DEF LoneInv
<1>4. PublishInv'
  BY <1>1, <1>2 DEF PublishInv, Working
<1>5. Lifecycle!Discard(j)
  BY <1>1 DEF Lifecycle!Discard
<1> QED
  BY <1>3, <1>4, <1>5 DEF Promised, Lifecycle!Next

LEMMA CommitDiscardLife ==
  ASSUME LInv, NEW p \in Procs, CommitDiscard(p)
  PROVE  PublishInv' /\ LoneInv' /\ Promised
<1> USE DEF LInv, IInv, IndType, TypeOK
<1>1. /\ cur[p] \in Jobs /\ pc[p] \in Working \ {"finishing"}
      /\ status[cur[p]] = "running" /\ base[cur[p]] = "staged"
  BY DEF CommitDiscard, PlacesOK, LoneInv, PublishInv, Working
<1>2. DiscardRows(cur[p]) /\ LoseWorker(p, "idle")
  BY DEF CommitDiscard
<1>3. \A q \in Procs : pc'[q] \in Working =>
        pc'[q] = pc[q] /\ cur'[q] = cur[q] /\ outcome'[q] = outcome[q] /\ cur[q] # cur[p]
  BY <1>1, <1>2 DEF LoseWorker, ClaimInv, Working
<1> QED
  BY <1>1, <1>2, <1>3, DiscardLife

LEMMA RequestCommitsLife ==
  ASSUME LInv, NEW p \in Procs, RequestCommits(p)
  PROVE  PublishInv' /\ LoneInv' /\ Promised
<1> USE DEF LInv, IInv, IndType, TypeOK
<1>1. rjob[p] \in Jobs /\ status[rjob[p]] = "queued" /\ base[rjob[p]] = "staged"
  BY DEF RequestCommits, PlacesOK, ClaimInv, PublishInv, Taken
<1>2. DiscardRows(rjob[p]) /\ UNCHANGED <<pc, cur, outcome>>
  BY DEF RequestCommits, procvars
<1>3. \A q \in Procs : pc[q] \in Working => cur[q] # rjob[p]
  BY <1>1 DEF LoneInv
<1> QED
  BY <1>1, <1>2, <1>3, DiscardLife

LEMMA ReclaimLife ==
  ASSUME \A p, q \in Procs : p = q, LInv, NEW p \in Procs, Reclaim(p)
  PROVE  PublishInv' /\ LoneInv' /\ Promised
<1> USE DEF LInv, IInv, IndType, TypeOK
<1>1. /\ status' = [j \in Jobs |-> IF status[j] = "running" THEN "failed" ELSE status[j]]
      /\ pc' = [pc EXCEPT ![p] = "idle"] /\ UNCHANGED base
  BY DEF Reclaim, basevars
<1>2. \A q \in Procs : pc'[q] = "idle"
  BY <1>1
<1>3. LoneInv'
  BY <1>2 DEF LoneInv, Working
<1>4. PublishInv'
  BY <1>1, <1>2 DEF PublishInv, Working
<1>5. Lifecycle!FailAllRunning
  BY <1>1 DEF Lifecycle!FailAllRunning
<1> QED
  BY <1>3, <1>4, <1>5 DEF Promised, Lifecycle!Next

LEMMA InitLife == Init => LInv /\ Lifecycle!Init
<1> SUFFICES ASSUME Init PROVE LInv /\ Lifecycle!Init
  OBVIOUS
<1>1. PublishInv /\ LoneInv
  BY DEF Init, PublishInv, LoneInv, Working
<1>2. Lifecycle!Init
  BY DEF Init, Lifecycle!Init
<1> QED
  BY <1>1, <1>2, InitInv DEF LInv

LEMMA NextLife ==
  ASSUME \A p, q \in Procs : p = q
  PROVE  LInv /\ [Next]_vars => LInv' /\ [Lifecycle!Next]_(Lifecycle!lvars)
<1> SUFFICES ASSUME LInv, [Next]_vars PROVE LInv' /\ [Lifecycle!Next]_(Lifecycle!lvars)
  OBVIOUS
<1>1. IInv'
  BY NextInv DEF LInv
<1>2. PublishInv' /\ LoneInv' /\ Promised
  <2>1. CASE UNCHANGED vars
    BY <2>1, LetsGoLife DEF vars, LetsGo
  <2>2. CASE User
    BY <2>2, UploadLife, QuietLetsGo, LetsGoLife DEF User
  <2>3. CASE Fault
    BY <2>3, QuietLetsGo, LetsGoLife, RunStepLife DEF Fault, RunStep
  <2>4. CASE \E p \in Procs : Worker(p) \/ Request(p) \/ Restart(p)
    <3>1. PICK p \in Procs : Worker(p) \/ Request(p) \/ Restart(p)
      BY <2>4
    <3>2. CASE RunStep(p)
      BY <3>2, RunStepLife
    <3>3. CASE PollQueue(p) \/ (Request(p) /\ ~RequestCommits(p)) \/ Restart(p)
      BY <3>3, QuietLetsGo, LetsGoLife DEF Request
    <3>4. CASE Claim(p) \/ Finish(p) \/ CommitDiscard(p) \/ RequestCommits(p) \/ Reclaim(p)
      BY <3>4, ClaimLife, FinishLife, CommitDiscardLife, RequestCommitsLife, ReclaimLife
    <3> QED
      BY <3>1, <3>2, <3>3, <3>4 DEF Worker, Request, RunStep
  <2> QED
    BY <2>1, <2>2, <2>3, <2>4 DEF Next
<1> QED
  BY <1>1, <1>2 DEF LInv, Promised, Lifecycle!lvars

\* With one API process -- what docker-compose.yml deploys -- the worker, its
\* cancel requests, crashes, restarts and database errors together implement
\* the promised lifecycle.  (Two processes do not: RestartBeside.cfg.)
THEOREM OneProcessImplements ==
  ASSUME \A p, q \in Procs : p = q
  PROVE  Spec => ImplementsLifecycle
<1>1. Init => LInv /\ Lifecycle!Init
  BY InitLife
<1>2. LInv /\ [Next]_vars => LInv' /\ [Lifecycle!Next]_(Lifecycle!lvars)
  BY NextLife
<1> QED
  BY <1>1, <1>2, PTL DEF Spec, ImplementsLifecycle, Lifecycle!Spec

LEMMA LifecycleIsFinal ==
  ASSUME status \in [Jobs -> JobStatus], [Lifecycle!Next]_(Lifecycle!lvars)
  PROVE  \A j \in Jobs : status[j] \in Terminal => status'[j] = status[j]
  BY DEF Lifecycle!Next, Lifecycle!lvars, Lifecycle!Submit, Lifecycle!Start, Lifecycle!Publish,
         Lifecycle!Succeed, Lifecycle!Fail, Lifecycle!Discard, Lifecycle!FailAllRunning, Terminal

\* With one API process an outcome is never revised, whatever crashes.
THEOREM OneProcessSettlesOnce ==
  ASSUME \A p, q \in Procs : p = q
  PROVE  Spec => TerminalIsFinal
<1>1. Init => LInv
  BY InitLife
<1>2. LInv /\ [Next]_vars => LInv' /\ [\A j \in Jobs : status[j] \in Terminal => status'[j] = status[j]]_vars
  BY NextLife, LifecycleIsFinal DEF LInv, IInv, IndType, TypeOK
<1> QED
  BY <1>1, <1>2, PTL DEF Spec, TerminalIsFinal

-----------------------------------------------------------------------------
(***************************************************************************)
(* What Ingestion guarantees of the rows it leaves: a base that answers is *)
(* complete, the progress shown is honest, a passage is filed under its own*)
(* document, and an item that shows as running is being worked on.         *)
(*                                                                         *)
(* None of the four is inductive.  On top of IInv, each part says what the *)
(* rows of a job say of each other (RowsOK) and what the place of a worker *)
(* says of the rows of its job (WorkerOK): the documents before pos have   *)
(* their outcome, those after it are untouched, and the passages committed *)
(* so far are those of the documents that were read, numbered from 0 up to *)
(* the worker's own start_index.                                           *)
(***************************************************************************)

Read   == {"succeeded", "partial"}
InLoop == {"checkpoint", "linking"} \cup InDocument

\* n passages of one base, numbered from a without gap or repetition.
Numbered(passages, a, n) ==
  /\ IsFiniteSet(passages) /\ Cardinality(passages) = n
  /\ {c.index : c \in passages} = a..(a + n - 1)

Of(passages, i) == {c \in passages : c.doc = i}
ChunksOf(j, i) == Of(chunks[j], i)
SettledOf(j)   == {i \in Docs : item[j][i] \in Settled}

\* Nothing of the upload has been looked at.
Untouched(j) ==
  /\ base[j] = "staged"
  /\ chunks[j] = {} /\ indexed[j] = 0 /\ processed[j] = 0
  /\ \A i \in Docs : item[j][i] = "pending"

\* What the rows of a job say of each other.
RowsOK(j) ==
  /\ status[j] = "absent" => indexed[j] = 0 /\ processed[j] = 0
  /\ status[j] = "queued" => Untouched(j)
  /\ status[j] = "running" => processed[j] = Cardinality(SettledOf(j))
  /\ IsFiniteSet(chunks[j])
  /\ base[j] # "none" =>
       /\ Numbered(chunks[j], 0, indexed[j])
       /\ \A i \in Docs : Cardinality(ChunksOf(j, i)) = IF item[j][i] \in Read THEN Size[i] ELSE 0
  /\ base[j] = "answerable" => SettledOf(j) = Docs /\ graph[j]

\* What a worker's place says of the rows of its job.
WorkerOK(p) ==
  LET j == cur[p] IN
  /\ pc[p] = "claimed" => Untouched(j)
  /\ pc[p] \in InLoop =>
       /\ base[j] = "staged" /\ start[p] = indexed[j]
       /\ \A i \in Docs : i < pos[p] => item[j][i] \in Settled
       /\ \A i \in Docs : i > pos[p] => item[j][i] = "pending"
  /\ pc[p] = "checkpoint" /\ pos[p] \in Docs => item[j][pos[p]] = "pending"
  /\ pc[p] \in InDocument =>
       /\ item[j][pos[p]] \in {"running", "failed"}
       /\ status[j] = "running" => item[j][pos[p]] = "running"
  /\ pc[p] = "linking" => pos[p] = NumDocs + 1
  /\ pc[p] \in {"embedding", "ingested"} => done[p] = Size[pos[p]]
  /\ pc[p] = "chunking" => done[p] <= Size[pos[p]]
  /\ pc[p] \notin {"chunking", "embedding", "ingested"} => done[p] = 0

CompInv == (\A j \in Jobs : RowsOK(j)) /\ (\A p \in Procs : WorkerOK(p))

-----------------------------------------------------------------------------
(* Sets of passages                                                         *)

\* The passages one document adds: as many as their indices, an interval.
Passages(d, src, a, n) == [doc : {d}, src : {src}, index : a..(a + n - 1)]

LEMMA PassageCount ==
  ASSUME NEW d, NEW src, NEW a \in Nat, NEW n \in Nat
  PROVE  /\ Numbered(Passages(d, src, a, n), a, n)
         /\ Of(Passages(d, src, a, n), d) = Passages(d, src, a, n)
<1> DEFINE new == [doc : {d}, src : {src}, index : a..(a + n - 1)]
           f == [x \in a..(a + n - 1) |-> [doc |-> d, src |-> src, index |-> x]]
<1>1. f \in [a..(a + n - 1) -> new]
  OBVIOUS
<1>2. f \in Bijection(a..(a + n - 1), new)
  <2>1. \A x, y \in a..(a + n - 1) : f[x] = f[y] => x = y
    OBVIOUS
  <2>2. \A c \in new : \E x \in a..(a + n - 1) : f[x] = c
    <3>1. ASSUME NEW c \in new PROVE c.index \in a..(a + n - 1) /\ f[c.index] = c
      OBVIOUS
    <3> QED
      BY <3>1
  <2> QED
    BY <1>1, <2>1, <2>2 DEF Bijection, Injection, Surjection, IsInjective
<1>3. IsFiniteSet(a..(a + n - 1)) /\ Cardinality(a..(a + n - 1)) = n
  BY FS_Interval
<1>4. IsFiniteSet(new) /\ Cardinality(new) = n
  BY <1>2, <1>3, FS_Bijection DEF ExistsBijection
<1>5. {c.index : c \in new} = a..(a + n - 1)
  <2>1. \A x \in a..(a + n - 1) : f[x] \in new /\ f[x].index = x
    BY <1>1
  <2> QED
    BY <2>1
<1>6. \A c \in new : c.doc = d
  OBVIOUS
<1> QED
  BY <1>4, <1>5, <1>6 DEF Passages, Numbered, Of

\* Passages of a document that had none, numbered from where the base's end.
LEMMA PassagesAdded ==
  ASSUME NEW old, NEW new, NEW d, NEW a \in Nat, NEW n \in Nat,
         Numbered(old, 0, a), Numbered(new, a, n),
         Of(old, d) = {}, Of(new, d) = new
  PROVE  Numbered(old \cup new, 0, a + n)
<1>1. /\ IsFiniteSet(old) /\ Cardinality(old) = a /\ {c.index : c \in old} = 0..(0 + a - 1)
      /\ IsFiniteSet(new) /\ Cardinality(new) = n /\ {c.index : c \in new} = a..(a + n - 1)
  BY DEF Numbered
<1>2. Cardinality(old \cap new) = 0
  <2>1. old \cap new = {}
    BY DEF Of
  <2> QED
    BY <2>1, FS_EmptySet
<1>3. IsFiniteSet(old \cup new) /\ Cardinality(old \cup new) = a + n
  <2>1. /\ IsFiniteSet(old \cup new)
        /\ Cardinality(old \cup new) = Cardinality(old) + Cardinality(new) - Cardinality(old \cap new)
    BY <1>1, FS_Union, Zenon
  <2> QED
    BY <1>1, <1>2, <2>1
<1>4. {c.index : c \in old \cup new} = 0..(a + n - 1)
  <2>1. {c.index : c \in old \cup new} = {c.index : c \in old} \cup {c.index : c \in new}
    OBVIOUS
  <2>2. 0..(a - 1) \cup a..(a + n - 1) = 0..(a + n - 1)
    OBVIOUS
  <2> QED
    BY <1>1, <2>1, <2>2
<1> QED
  BY <1>3, <1>4 DEF Numbered

\* One more document has its outcome.
LEMMA OneMoreSettled ==
  ASSUME NEW S \in SUBSET Docs, NEW i \in Docs \ S
  PROVE  IsFiniteSet(S) /\ Cardinality(S) \in Nat /\ Cardinality(S \cup {i}) = Cardinality(S) + 1
<1>1. IsFiniteSet(Docs)
  BY FS_Interval DEF Docs
<1>2. IsFiniteSet(S)
  BY <1>1, FS_Subset
<1> QED
  BY <1>2, FS_AddElement, FS_CardinalityType

-----------------------------------------------------------------------------
(* Steps that touch one job and one worker                                  *)

RowOf(j)  == <<status[j], processed[j], indexed[j], item[j], base[j], chunks[j], graph[j]>>
PlaceOf(p) == <<pc[p], cur[p], pos[p], start[p], done[p]>>
SameOtherRows(j)   == \A k \in Jobs \ {j} : RowOf(k)' = RowOf(k)
SameOtherPlaces(p) == \A r \in Procs \ {p} : PlaceOf(r)' = PlaceOf(r)

LEMMA SameRowOK ==
  ASSUME NEW j \in Jobs, RowOf(j)' = RowOf(j), RowsOK(j)
  PROVE  RowsOK(j)'
<1>1. /\ status'[j] = status[j] /\ processed'[j] = processed[j] /\ indexed'[j] = indexed[j]
      /\ item'[j] = item[j] /\ base'[j] = base[j] /\ chunks'[j] = chunks[j] /\ graph'[j] = graph[j]
  BY DEF RowOf
<1>2. SettledOf(j)' = SettledOf(j) /\ \A i \in Docs : ChunksOf(j, i)' = ChunksOf(j, i)
  BY <1>1 DEF SettledOf, ChunksOf
<1> QED
  BY <1>1, <1>2 DEF RowsOK, Untouched

LEMMA SamePlaceOK ==
  ASSUME IInv, NEW p \in Procs, PlaceOf(p)' = PlaceOf(p), WorkerOK(p),
         pc[p] \in Working => \A k \in Jobs : k = cur[p] => RowOf(k)' = RowOf(k)
  PROVE  WorkerOK(p)'
<1>1. pc'[p] = pc[p] /\ cur'[p] = cur[p] /\ pos'[p] = pos[p] /\ start'[p] = start[p] /\ done'[p] = done[p]
  BY DEF PlaceOf
<1>2. CASE pc[p] \in Working
  <2>1. cur[p] \in Jobs
    BY <1>2 DEF IInv, IndType, PlacesOK
  <2> QED
    BY <1>1, <1>2, <2>1 DEF WorkerOK, RowOf, Untouched
<1>3. CASE pc[p] \notin Working
  BY <1>1, <1>3 DEF WorkerOK, Working, InLoop, InDocument
<1> QED
  BY <1>2, <1>3

LEMMA OneJobComp ==
  ASSUME IInv, CompInv, NEW p \in Procs, NEW j \in Jobs,
         SameOtherPlaces(p), SameOtherRows(j),
         \A r \in Procs \ {p} : pc[r] \in Working => cur[r] # j,
         RowsOK(j)', WorkerOK(p)'
  PROVE  CompInv'
<1>1. ASSUME NEW k \in Jobs PROVE RowsOK(k)'
  BY SameRowOK DEF CompInv, SameOtherRows
<1>2. ASSUME NEW r \in Procs PROVE WorkerOK(r)'
  <2>1. CASE r = p
    BY <2>1
  <2>2. CASE r # p
    <3>1. pc[r] \in Working => cur[r] \in Jobs \ {j}
      BY <2>2 DEF IInv, IndType, PlacesOK
    <3>2. PlaceOf(r)' = PlaceOf(r) /\ WorkerOK(r)
      BY <2>2 DEF CompInv, SameOtherPlaces
    <3>3. pc[r] \in Working => \A k \in Jobs : k = cur[r] => RowOf(k)' = RowOf(k)
      BY <3>1 DEF SameOtherRows
    <3> QED
      BY <3>2, <3>3, SamePlaceOK
  <2> QED
    BY <2>1, <2>2
<1> QED
  BY <1>1, <1>2 DEF CompInv

\* No row changes, and at most one worker moves.
LEMMA SameRowsComp ==
  ASSUME IInv, CompInv, NEW p \in Procs, SameOtherPlaces(p),
         \A k \in Jobs : RowOf(k)' = RowOf(k), WorkerOK(p)'
  PROVE  CompInv'
<1>1. \A k \in Jobs : RowsOK(k)'
  BY SameRowOK DEF CompInv
<1>2. ASSUME NEW r \in Procs \ {p} PROVE WorkerOK(r)'
  <2>1. PlaceOf(r)' = PlaceOf(r) /\ WorkerOK(r)
    BY DEF CompInv, SameOtherPlaces
  <2> QED
    BY <2>1, SamePlaceOK
<1> QED
  BY <1>1, <1>2 DEF CompInv

\* No row and no worker changes.
LEMMA StutterComp ==
  ASSUME IInv, CompInv, UNCHANGED <<status, processed, indexed, item, base, chunks, graph>>,
         UNCHANGED <<pc, cur, pos, start, done>>
  PROVE  CompInv'
<1>1. \A k \in Jobs : RowOf(k)' = RowOf(k)
  BY DEF RowOf
<1>2. \A r \in Procs : PlaceOf(r)' = PlaceOf(r)
  BY DEF PlaceOf
<1>3. \A k \in Jobs : RowsOK(k)'
  BY <1>1, SameRowOK DEF CompInv
<1>4. \A r \in Procs : WorkerOK(r)'
  BY <1>1, <1>2, SamePlaceOK DEF CompInv
<1> QED
  BY <1>3, <1>4 DEF CompInv

LEMMA InitComp == Init => CompInv
<1> SUFFICES ASSUME Init PROVE CompInv
  OBVIOUS
<1>1. ASSUME NEW j \in Jobs PROVE RowsOK(j)
  BY FS_EmptySet DEF Init, RowsOK
<1>2. ASSUME NEW p \in Procs PROVE WorkerOK(p)
  BY DEF Init, WorkerOK, InLoop, InDocument
<1> QED
  BY <1>1, <1>2 DEF CompInv

-----------------------------------------------------------------------------
(* Each action preserves CompInv                                            *)

\* Steps that change no row of a base or its job.
SameBaseRows == UNCHANGED <<status, processed, indexed, item, base, chunks, graph>>

LEMMA AsideComp ==
  ASSUME IInv, CompInv, NEW p \in Procs,
         \/ \E j \in Jobs : ReadForCancel(p, j)
         \/ FlagForWorker(p) \/ ClaimForCancel(p) \/ RequestRemovesFiles(p) \/ RequestRaises(p)
  PROVE  CompInv'
<1>1. SameBaseRows /\ UNCHANGED <<pc, cur, pos, start, done>>
  BY DEF ReadForCancel, FlagForWorker, ClaimForCancel, RequestRemovesFiles, RequestRaises,
         SameBaseRows, dbvars, basevars, procvars
<1> QED
  BY <1>1, StutterComp DEF SameBaseRows

\* A worker without a job, before and after.
LEMMA OutsideComp ==
  ASSUME IInv, CompInv, NEW p \in Procs,
         PollQueue(p) \/ Crash(p) \/ IterationRaises(p) \/ Restart(p)
  PROVE  CompInv'
<1> USE DEF IInv, IndType, TypeOK
<1>1. SameBaseRows
  BY DEF PollQueue, Crash, IterationRaises, Restart, SameBaseRows, dbvars
<1>2. \A k \in Jobs : RowOf(k)' = RowOf(k)
  BY <1>1 DEF SameBaseRows, RowOf
<1>3. SameOtherPlaces(p)
  BY DEF PollQueue, Crash, IterationRaises, Restart, LoseWorker, SameOtherPlaces, PlaceOf
<1>4. pc'[p] \in {"picked", "down", "idle", "boot"} /\ done'[p] = 0
  <2>1. pc[p] \in {"idle", "down"} => done[p] = 0
    BY DEF CompInv, WorkerOK
  <2>2. PollQueue(p) \/ Restart(p) => pc[p] \in {"idle", "down"} /\ done'[p] = done[p]
    BY DEF PollQueue, Restart
  <2>3. Crash(p) \/ IterationRaises(p) => done'[p] = 0
    BY DEF Crash, IterationRaises, LoseWorker
  <2>4. pc'[p] \in {"picked", "down", "idle", "boot"}
    BY DEF PollQueue, Crash, IterationRaises, Restart, LoseWorker
  <2> QED
    BY <2>1, <2>2, <2>3, <2>4
<1>5. WorkerOK(p)'
  BY <1>4 DEF WorkerOK, InLoop, InDocument
<1> QED
  BY <1>2, <1>3, <1>5, SameRowsComp

\* What a worker at its job knows from the other invariants.
LEMMA AtJob ==
  ASSUME IInv, CompInv, NEW p \in Procs, pc[p] \in Working
  PROVE  /\ cur[p] \in Jobs /\ base[cur[p]] # "none"
         /\ status[cur[p]] \in {"running", "failed"}
         /\ \A r \in Procs \ {p} : pc[r] \in Working => cur[r] # cur[p]
         /\ RowsOK(cur[p]) /\ WorkerOK(p)
  BY DEF IInv, IndType, PlacesOK, ClaimInv, BaseInv, CompInv

LEMMA RunQuietComp ==
  ASSUME IInv, CompInv, NEW p \in Procs,
         \/ LoadJob(p) \/ ChunkGroup(p) \/ EndChunking(p) \/ Embed(p) \/ AbortDocument(p)
         \/ BeginLinking(p) \/ CancelAtCheckpoint(p) \/ DiscardFiles(p) \/ JobRaises(p)
  PROVE  CompInv'
<1> DEFINE j == cur[p]
<1> USE DEF IInv, IndType, TypeOK
<1>1. SameBaseRows /\ cur' = cur
  BY DEF LoadJob, ChunkGroup, EndChunking, Embed, AbortDocument, BeginLinking, CancelAtCheckpoint,
         DiscardFiles, JobRaises, SameBaseRows, dbvars
<1>2. \A k \in Jobs : RowOf(k)' = RowOf(k)
  BY <1>1 DEF SameBaseRows, RowOf
<1>3. pc[p] \in Working /\ SameOtherPlaces(p)
  BY DEF LoadJob, ChunkGroup, EndChunking, Embed, AbortDocument, BeginLinking, CancelAtCheckpoint,
         DiscardFiles, JobRaises, AtPoll, Working, SameOtherPlaces, PlaceOf
<1>4. j \in Jobs /\ base[j] # "none" /\ RowsOK(j) /\ WorkerOK(p)
  BY <1>3, AtJob
<1> USE <1>1, <1>4 DEF SameBaseRows, WorkerOK, InLoop, InDocument
<1>5. CASE LoadJob(p)
  <2>1. /\ pc[p] = "claimed" /\ pc'[p] = "checkpoint" /\ pos'[p] = 1 /\ start'[p] = 0 /\ done'[p] = done[p]
    BY <1>5 DEF LoadJob
  <2>2. WorkerOK(p)'
    BY <2>1 DEF Untouched, Docs
  <2> QED
    BY <1>2, <1>3, <2>2, SameRowsComp
<1>6. CASE ChunkGroup(p)
  <2>1. pc[p] = "chunking" /\ pc' = pc /\ pos' = pos /\ start' = start /\ done'[p] = done[p] + 1 /\ done[p] < Size[pos[p]]
    BY <1>6 DEF ChunkGroup
  <2>2. pos[p] \in Docs
    BY <2>1 DEF PlacesOK
  <2>3. Size[pos[p]] \in Nat /\ done[p] \in Nat
    BY <2>2
  <2>4. WorkerOK(p)'
    BY <2>1, <2>3
  <2> QED
    BY <1>2, <1>3, <2>4, SameRowsComp
<1>7. CASE EndChunking(p)
  <2>1. /\ pc[p] = "chunking" /\ pc'[p] \in {"embedding", "ingested"}
        /\ pos' = pos /\ start' = start /\ done' = done /\ done[p] = Size[pos[p]]
    BY <1>7 DEF EndChunking
  <2>2. WorkerOK(p)'
    BY <2>1
  <2> QED
    BY <1>2, <1>3, <2>2, SameRowsComp
<1>8. CASE Embed(p)
  <2>1. pc[p] = "embedding" /\ pc'[p] = "ingested" /\ pos' = pos /\ start' = start /\ done' = done
    BY <1>8 DEF Embed
  <2>2. WorkerOK(p)'
    BY <2>1
  <2> QED
    BY <1>2, <1>3, <2>2, SameRowsComp
<1>9. CASE BeginLinking(p)
  <2>1. pc[p] = "checkpoint" /\ pc'[p] = "linking" /\ pos' = pos /\ start' = start /\ done' = done /\ pos[p] > NumDocs
    BY <1>9 DEF BeginLinking
  <2>2. pos[p] = NumDocs + 1
    <3>1. pos[p] \in 1..(NumDocs + 1)
      OBVIOUS
    <3> QED
      BY <2>1, <3>1
  <2>3. WorkerOK(p)'
    BY <2>1, <2>2
  <2> QED
    BY <1>2, <1>3, <2>3, SameRowsComp
<1>10. CASE AbortDocument(p) \/ CancelAtCheckpoint(p) \/ DiscardFiles(p) \/ JobRaises(p)
  <2>1. pc'[p] \in {"discarding", "discarded", "finishing"} /\ done'[p] = 0
    BY <1>10 DEF AbortDocument, CancelAtCheckpoint, DiscardFiles, JobRaises
  <2>2. WorkerOK(p)'
    BY <2>1
  <2> QED
    BY <1>2, <1>3, <2>2, SameRowsComp
<1> QED
  BY <1>5, <1>6, <1>7, <1>8, <1>9, <1>10

LEMMA UploadComp ==
  ASSUME IInv, CompInv, NEW j \in Jobs, Upload(j)
  PROVE  CompInv'
<1> USE DEF IInv, IndType, TypeOK
<1>1. /\ status[j] = "absent" /\ status'[j] = "queued" /\ base'[j] = "staged"
      /\ \A i \in Docs : item'[j][i] = "pending"
      /\ UNCHANGED <<processed, indexed, chunks, graph, pc, cur, pos, start, done>>
  BY DEF Upload, procvars
<1>2. SameOtherRows(j)
  BY DEF Upload, SameOtherRows, RowOf
<1>3. chunks[j] = {} /\ indexed[j] = 0 /\ processed[j] = 0
  BY <1>1 DEF BaseInv, CompInv, RowsOK
<1>4. RowsOK(j)'
  <2>1. \A i \in Docs : ChunksOf(j, i)' = {}
    BY <1>1, <1>3 DEF ChunksOf, Of
  <2>2. Numbered(chunks'[j], 0, indexed'[j])
    BY <1>1, <1>3, FS_EmptySet DEF Numbered
  <2> QED
    BY <1>1, <1>3, <2>1, <2>2, FS_EmptySet DEF RowsOK, Untouched, Read
<1>5. ASSUME NEW k \in Jobs PROVE RowsOK(k)'
  BY <1>2, <1>4, SameRowOK DEF CompInv, SameOtherRows
<1>6. ASSUME NEW r \in Procs PROVE WorkerOK(r)'
  <2>1. PlaceOf(r)' = PlaceOf(r)
    BY <1>1 DEF PlaceOf
  <2>2. pc[r] \in Working => cur[r] # j
    BY <1>1 DEF ClaimInv
  <2>3. pc[r] \in Working => \A k \in Jobs : k = cur[r] => RowOf(k)' = RowOf(k)
    BY <1>2, <2>2 DEF SameOtherRows
  <2> QED
    BY <2>1, <2>3, SamePlaceOK DEF CompInv
<1> QED
  BY <1>5, <1>6 DEF CompInv

\* With a row that still refers to the base, purging it changes no row.
LEMMA PurgeComp ==
  ASSUME IInv, CompInv, NEW p \in Procs, NEW j \in Jobs, PurgeBase(p, j)
  PROVE  CompInv'
<1>1. refers[j]
  BY DEF PurgeBase, IInv, BaseInv
<1>2. SameBaseRows /\ UNCHANGED <<pc, cur, pos, start, done>>
  BY <1>1 DEF PurgeBase, SameBaseRows, basevars, jobvars, procvars
<1> QED
  BY <1>2, StutterComp DEF SameBaseRows

LEMMA ClaimComp ==
  ASSUME IInv, CompInv, NEW p \in Procs, Claim(p)
  PROVE  CompInv'
<1> USE DEF IInv, IndType, TypeOK
<1>0. PICK j \in Jobs : j = cur[p]
  BY DEF Claim, PlacesOK
<1> USE <1>0
<1>1. pc[p] = "picked" /\ UNCHANGED <<processed, indexed, item, base, chunks, graph>>
  BY DEF Claim, basevars
<1>2. RowsOK(j) /\ WorkerOK(p)
  BY <1>1 DEF CompInv
<1>3. CASE status[j] = "queued"
  <2>1. /\ status' = [status EXCEPT ![j] = "running"]
        /\ pc' = [pc EXCEPT ![p] = "claimed"]
        /\ UNCHANGED <<cur, pos, start, done>>
    BY <1>3 DEF Claim
  <2>2. Untouched(j)
    BY <1>2, <1>3 DEF RowsOK
  <2>3. SettledOf(j)' = {}
    BY <1>1, <2>2 DEF SettledOf, Untouched, Settled
  <2>4. RowsOK(j)'
    <3>1. \A i \in Docs : ChunksOf(j, i)' = ChunksOf(j, i)
      BY <1>1 DEF ChunksOf
    <3> QED
      BY <1>1, <1>2, <2>1, <2>2, <2>3, <3>1, FS_EmptySet DEF RowsOK, Untouched
  <2>5. WorkerOK(p)'
    BY <1>1, <1>2, <2>1, <2>2 DEF WorkerOK, Untouched, InLoop, InDocument
  <2>6. SameOtherRows(j) /\ SameOtherPlaces(p)
    BY <1>1, <2>1 DEF SameOtherRows, RowOf, SameOtherPlaces, PlaceOf
  <2>7. \A r \in Procs \ {p} : pc[r] \in Working => cur[r] # j
    BY <1>3 DEF ClaimInv
  <2> QED
    BY <1>1, <2>4, <2>5, <2>6, <2>7, OneJobComp
<1>4. CASE status[j] # "queued"
  <2>1. LoseWorker(p, "idle") /\ UNCHANGED status
    BY <1>4 DEF Claim
  <2>2. \A k \in Jobs : RowOf(k)' = RowOf(k)
    BY <1>1, <2>1 DEF RowOf
  <2>3. WorkerOK(p)' /\ SameOtherPlaces(p)
    BY <2>1 DEF LoseWorker, WorkerOK, InLoop, InDocument, SameOtherPlaces, PlaceOf
  <2> QED
    BY <2>2, <2>3, SameRowsComp
<1> QED
  BY <1>3, <1>4

\* A document that had no outcome fails.
LEMMA FailItemComp ==
  ASSUME IInv, CompInv, NEW p \in Procs, FailItem(p),
         pc[p] \in {"checkpoint"} \cup InDocument, pos[p] \in Docs
  PROVE  CompInv'
<1> USE DEF IInv, IndType, TypeOK
<1>0. PICK j \in Jobs, d \in Docs : j = cur[p] /\ d = pos[p]
  BY AtJob DEF Working, InDocument
<1> USE <1>0
<1>1. /\ base[j] # "none" /\ RowsOK(j) /\ WorkerOK(p)
      /\ \A r \in Procs \ {p} : pc[r] \in Working => cur[r] # j
  BY AtJob DEF Working, InDocument
<1>2. /\ item' = [item EXCEPT ![j] = [item[j] EXCEPT ![d] = "failed"]]
      /\ processed' = [processed EXCEPT ![j] = processed[j] + 1]
      /\ UNCHANGED <<status, indexed, base, chunks, graph, cur, start>>
  BY DEF FailItem, basevars
<1>3. item'[j] = [item[j] EXCEPT ![d] = "failed"] /\ item[j] \in [Docs -> ItemStatus]
  BY <1>1, <1>2
<1>4. /\ pc'[p] = "checkpoint" /\ pos'[p] = d + 1 /\ done'[p] = 0
      /\ \A r \in Procs \ {p} : pc'[r] = pc[r] /\ pos'[r] = pos[r] /\ done'[r] = done[r]
  BY DEF FailItem, NextDocument
<1>5. item[j][d] \in {"pending", "running", "failed"} /\ base[j] = "staged"
  BY <1>1 DEF WorkerOK, InLoop
<1>6. SettledOf(j)' = SettledOf(j) \cup {d}
  BY <1>3 DEF SettledOf, Settled
<1>7. status[j] = "running" => d \notin SettledOf(j)
  BY <1>1 DEF WorkerOK, SettledOf, Settled
<1>8. status[j] = "running" => processed'[j] = Cardinality(SettledOf(j)')
  <2>1. SettledOf(j) \in SUBSET Docs
    BY DEF SettledOf
  <2>2. status[j] = "running" => processed[j] = Cardinality(SettledOf(j))
    BY <1>1 DEF RowsOK
  <2>3. processed'[j] = processed[j] + 1
    BY <1>1, <1>2
  <2>4. d \notin SettledOf(j) => Cardinality(SettledOf(j) \cup {d}) = Cardinality(SettledOf(j)) + 1
    BY <2>1, OneMoreSettled
  <2> QED
    BY <1>6, <1>7, <2>2, <2>3, <2>4
<1>9. RowsOK(j)'
  <2>1. \A i \in Docs : ChunksOf(j, i)' = ChunksOf(j, i)
    BY <1>2 DEF ChunksOf
  <2>2. \A i \in Docs : item'[j][i] \in Read <=> item[j][i] \in Read
    BY <1>3, <1>5 DEF Read
  <2>3. status'[j] \notin {"absent", "queued"}
    BY <1>1, <1>2, AtJob DEF Working, InDocument
  <2> QED
    BY <1>1, <1>2, <1>5, <1>8, <2>1, <2>2, <2>3 DEF RowsOK
<1>10. WorkerOK(p)'
  <2>1. \A i \in Docs : i < d + 1 => item'[j][i] \in Settled
    BY <1>1, <1>3 DEF WorkerOK, InLoop, Settled, Docs
  <2>2. \A i \in Docs : i > d => item'[j][i] = "pending"
    BY <1>1, <1>3 DEF WorkerOK, InLoop
  <2>3. base'[j] = "staged" /\ start'[p] = indexed'[j] /\ cur'[p] = j
    BY <1>1, <1>2, <1>5 DEF WorkerOK, InLoop
  <2>4. \A i \in Docs : i > d + 1 => i > d
    BY DEF Docs
  <2>5. d + 1 > d
    BY DEF Docs
  <2> QED
    BY <1>4, <2>1, <2>2, <2>3, <2>4, <2>5 DEF WorkerOK, InLoop, InDocument
<1>11. SameOtherRows(j) /\ SameOtherPlaces(p)
  BY <1>2, <1>4 DEF SameOtherRows, RowOf, SameOtherPlaces, PlaceOf
<1> QED
  BY <1>1, <1>9, <1>10, <1>11, OneJobComp

LEMMA BeginDocumentComp ==
  ASSUME IInv, CompInv, NEW p \in Procs, BeginDocument(p)
  PROVE  CompInv'
<1> USE DEF IInv, IndType, TypeOK
<1>0. PICK j \in Jobs, d \in Docs : j = cur[p] /\ d = pos[p]
  BY AtJob DEF BeginDocument, Working, Docs
<1> USE <1>0
<1>1. pc[p] = "checkpoint"
  BY DEF BeginDocument
<1>2. /\ base[j] # "none" /\ RowsOK(j) /\ WorkerOK(p)
      /\ status[j] \in {"running", "failed"}
      /\ \A r \in Procs \ {p} : pc[r] \in Working => cur[r] # j
  BY <1>1, AtJob DEF Working
<1>3. /\ item' = [item EXCEPT ![j] = [item[j] EXCEPT ![d] = "running"]]
      /\ pc' = [pc EXCEPT ![p] = "open"]
      /\ UNCHANGED <<status, processed, indexed, base, chunks, graph, cur, pos, start, done>>
  BY <1>2 DEF BeginDocument, basevars
<1>4. item'[j] = [item[j] EXCEPT ![d] = "running"] /\ item[j] \in [Docs -> ItemStatus]
  BY <1>2, <1>3
<1>5. item[j][d] = "pending" /\ base[j] = "staged"
  BY <1>1, <1>2 DEF WorkerOK, InLoop
<1>6. SettledOf(j)' = SettledOf(j)
  BY <1>4, <1>5 DEF SettledOf, Settled
<1>7. RowsOK(j)'
  <2>1. \A i \in Docs : ChunksOf(j, i)' = ChunksOf(j, i)
    BY <1>3 DEF ChunksOf
  <2>2. \A i \in Docs : item'[j][i] \in Read <=> item[j][i] \in Read
    BY <1>4, <1>5 DEF Read
  <2> QED
    BY <1>2, <1>3, <1>5, <1>6, <2>1, <2>2 DEF RowsOK
<1>8. WorkerOK(p)'
  <2>1. \A i \in Docs : i # d => item'[j][i] = item[j][i]
    BY <1>4
  <2>2. item'[j][d] = "running"
    BY <1>1, <1>4
  <2>3. \A i \in Docs : i < d \/ i > d => i # d
    BY <1>1 DEF Docs
  <2> QED
    BY <1>1, <1>2, <1>3, <2>1, <2>2, <2>3 DEF WorkerOK, InLoop, InDocument
<1>9. SameOtherRows(j) /\ SameOtherPlaces(p)
  BY <1>3 DEF SameOtherRows, RowOf, SameOtherPlaces, PlaceOf
<1> QED
  BY <1>2, <1>7, <1>8, <1>9, OneJobComp

LEMMA OpenDocumentComp ==
  ASSUME IInv, CompInv, NEW p \in Procs, OpenDocument(p)
  PROVE  CompInv'
<1> USE DEF IInv, IndType, TypeOK
<1>1. pc[p] = "open" /\ pos[p] \in Docs
  BY DEF OpenDocument, PlacesOK, InDocument
<1>2. CASE FailItem(p)
  BY <1>1, <1>2, FailItemComp DEF InDocument
<1>3. CASE ~FailItem(p)
  <2>1. SameBaseRows /\ pc' = [pc EXCEPT ![p] = "chunking"] /\ UNCHANGED <<cur, pos, start, done>>
    BY <1>3 DEF OpenDocument, SameBaseRows, dbvars
  <2>2. \A k \in Jobs : RowOf(k)' = RowOf(k)
    BY <2>1 DEF SameBaseRows, RowOf
  <2>3. WorkerOK(p)
    BY DEF CompInv
  <2>4. Size[pos[p]] \in Nat
    BY <1>1
  <2>5. WorkerOK(p)'
    BY <1>1, <2>1, <2>3, <2>4 DEF SameBaseRows, WorkerOK, InLoop, InDocument
  <2>6. SameOtherPlaces(p)
    BY <2>1 DEF SameOtherPlaces, PlaceOf
  <2> QED
    BY <2>2, <2>5, <2>6, SameRowsComp
<1> QED
  BY <1>2, <1>3

\* A document that was read: its passages, its outcome and the progress.
LEMMA CommitDocumentComp ==
  ASSUME IInv, CompInv, NEW p \in Procs, CommitDocument(p)
  PROVE  CompInv'
<1> USE DEF IInv, IndType, TypeOK
<1>0. PICK j \in Jobs, d \in Docs : j = cur[p] /\ d = pos[p]
  BY DEF CommitDocument, PlacesOK, Working, InDocument
<1> USE <1>0
<1>1. pc[p] = "ingested"
  BY DEF CommitDocument
<1>2. /\ base[j] # "none" /\ RowsOK(j) /\ WorkerOK(p)
      /\ status[j] \in {"running", "failed"}
      /\ \A r \in Procs \ {p} : pc[r] \in Working => cur[r] # j
  BY <1>1, AtJob DEF Working
<1>3. /\ base[j] = "staged" /\ start[p] = indexed[j] /\ done[p] = Size[d]
      /\ item[j][d] \in {"running", "failed"}
      /\ status[j] = "running" => item[j][d] = "running"
      /\ \A i \in Docs : i < d => item[j][i] \in Settled
      /\ \A i \in Docs : i > d => item[j][i] = "pending"
  BY <1>1, <1>2 DEF WorkerOK, InLoop, InDocument
<1>4. PICK result \in Read : item' = [item EXCEPT ![j] = [item[j] EXCEPT ![d] = result]]
  BY DEF CommitDocument, Read
<1>5. /\ chunks' = [chunks EXCEPT ![j] = chunks[j] \cup NewChunks(p)]
      /\ start'[p] = start[p] + done[p]
      /\ \A r \in Procs \ {p} : start'[r] = start[r]
      /\ processed' = [processed EXCEPT ![j] = processed[j] + 1]
      /\ indexed' = [indexed EXCEPT ![j] = start[p] + done[p]]
      /\ UNCHANGED <<status, base, graph, cur>>
  BY DEF CommitDocument
<1>6. /\ pc'[p] = "checkpoint" /\ pos'[p] = d + 1 /\ done'[p] = 0
      /\ \A r \in Procs \ {p} : pc'[r] = pc[r] /\ pos'[r] = pos[r] /\ done'[r] = done[r]
  BY DEF CommitDocument, NextDocument
<1>7. item'[j] = [item[j] EXCEPT ![d] = result] /\ item[j] \in [Docs -> ItemStatus]
  BY <1>4
<1>8. SettledOf(j)' = SettledOf(j) \cup {d}
  BY <1>7 DEF SettledOf, Settled, Read
<1>9. status[j] = "running" => processed'[j] = Cardinality(SettledOf(j)')
  <2>1. SettledOf(j) \in SUBSET Docs
    BY DEF SettledOf
  <2>2. status[j] = "running" => processed[j] = Cardinality(SettledOf(j)) /\ d \notin SettledOf(j)
    BY <1>2, <1>3 DEF RowsOK, SettledOf, Settled
  <2>3. processed'[j] = processed[j] + 1
    BY <1>5
  <2>4. d \notin SettledOf(j) => Cardinality(SettledOf(j) \cup {d}) = Cardinality(SettledOf(j)) + 1
    BY <2>1, OneMoreSettled
  <2> QED
    BY <1>8, <2>2, <2>3, <2>4
<1>10. PICK a \in Nat, n \in Nat : a = indexed[j] /\ a = start[p] /\ n = done[p] /\ n = Size[d]
  BY <1>3
<1>11. PICK new : new = NewChunks(p)
  OBVIOUS
<1>12. Numbered(new, a, n) /\ Of(new, d) = new
  <2>1. new = Passages(d, bytes[p], a, n)
    BY <1>10, <1>11 DEF NewChunks, Passages
  <2> QED
    BY <2>1, PassageCount, Zenon
<1>13. Of(chunks[j], d) = {}
  <2>1. Cardinality(Of(chunks[j], d)) = 0
    BY <1>2, <1>3 DEF RowsOK, Read, ChunksOf
  <2>2. IsFiniteSet(Of(chunks[j], d))
    BY <1>2, FS_Subset DEF RowsOK, Of
  <2> QED
    BY <2>1, <2>2, FS_EmptySet
<1>14. /\ Numbered(chunks[j] \cup new, 0, a + n)
       /\ Of(chunks[j] \cup new, d) = new
       /\ \A i : i # d => Of(chunks[j] \cup new, i) = Of(chunks[j], i)
  <2>1. Numbered(chunks[j], 0, a)
    BY <1>2, <1>10 DEF RowsOK
  <2>2. Numbered(chunks[j] \cup new, 0, a + n)
    BY <1>12, <1>13, <2>1, PassagesAdded, Zenon
  <2> QED
    BY <1>12, <1>13, <2>2 DEF Of
<1>15. chunks'[j] = chunks[j] \cup new /\ indexed'[j] = a + n /\ base'[j] = "staged"
  BY <1>3, <1>5, <1>10, <1>11
<1>16. RowsOK(j)'
  <2>1. ChunksOf(j, d)' = new /\ \A i \in Docs \ {d} : ChunksOf(j, i)' = ChunksOf(j, i)
    BY <1>14, <1>15 DEF ChunksOf
  <2>2. \A i \in Docs : Cardinality(ChunksOf(j, i)') = IF item'[j][i] \in Read THEN Size[i] ELSE 0
    <3>1. item'[j][d] \in Read /\ \A i \in Docs \ {d} : item'[j][i] = item[j][i]
      BY <1>4, <1>7
    <3>2. Cardinality(ChunksOf(j, d)') = Size[d]
      BY <1>10, <1>12, <2>1 DEF Numbered
    <3>3. \A i \in Docs : Cardinality(ChunksOf(j, i)) = IF item[j][i] \in Read THEN Size[i] ELSE 0
      BY <1>2 DEF RowsOK
    <3> HIDE DEF IInv, IndType, TypeOK
    <3> QED
      BY <2>1, <3>1, <3>2, <3>3
  <2>3. status'[j] \in {"running", "failed"}
    BY <1>2, <1>5
  <2>4. status'[j] = "running" => processed'[j] = Cardinality(SettledOf(j)')
    BY <1>5, <1>9
  <2>5. IsFiniteSet(chunks'[j]) /\ Numbered(chunks'[j], 0, indexed'[j])
    BY <1>14, <1>15 DEF Numbered
  <2> QED
    BY <1>15, <2>2, <2>3, <2>4, <2>5 DEF RowsOK
<1>17. WorkerOK(p)'
  <2>1. \A i \in Docs : i < d + 1 => item'[j][i] \in Settled
    BY <1>3, <1>4, <1>7 DEF Settled, Read, Docs
  <2>2. \A i \in Docs : i > d => item'[j][i] = "pending"
    BY <1>3, <1>7 DEF Docs
  <2>3. base'[j] = "staged" /\ start'[p] = indexed'[j] /\ cur'[p] = j
    BY <1>5, <1>10, <1>15
  <2>4. d + 1 > d /\ \A i \in Docs : i > d + 1 => i > d
    BY DEF Docs
  <2> QED
    BY <1>6, <2>1, <2>2, <2>3, <2>4 DEF WorkerOK, InLoop, InDocument
<1>18. SameOtherRows(j) /\ SameOtherPlaces(p)
  BY <1>4, <1>5, <1>6 DEF SameOtherRows, RowOf, SameOtherPlaces, PlaceOf
<1> QED
  BY <1>2, <1>16, <1>17, <1>18, OneJobComp

\* The base becomes answerable: every document has its outcome by then.
LEMMA LinkComp ==
  ASSUME IInv, CompInv, NEW p \in Procs, Link(p)
  PROVE  CompInv'
<1> USE DEF IInv, IndType, TypeOK
<1>0. PICK j \in Jobs : j = cur[p]
  BY AtJob DEF Link, Working
<1> USE <1>0
<1>1. pc[p] = "linking"
  BY DEF Link
<1>2. /\ base[j] # "none" /\ RowsOK(j) /\ WorkerOK(p)
      /\ status[j] \in {"running", "failed"}
      /\ \A r \in Procs \ {p} : pc[r] \in Working => cur[r] # j
  BY <1>1, AtJob DEF Working
<1>3. /\ pc' = [pc EXCEPT ![p] = "finishing"]
      /\ graph' = [graph EXCEPT ![j] = TRUE]
      /\ base' = [base EXCEPT ![j] = "answerable"]
      /\ UNCHANGED <<status, processed, indexed, item, chunks, cur, pos, start, done>>
  BY <1>2 DEF Link, jobvars
<1>4. SettledOf(j) = Docs
  BY <1>1, <1>2 DEF WorkerOK, InLoop, SettledOf, Docs
<1>5. RowsOK(j)'
  <2>1. SettledOf(j)' = SettledOf(j) /\ \A i \in Docs : ChunksOf(j, i)' = ChunksOf(j, i)
    BY <1>3 DEF SettledOf, ChunksOf
  <2> QED
    BY <1>2, <1>3, <1>4, <2>1 DEF RowsOK
<1>6. WorkerOK(p)'
  BY <1>1, <1>2, <1>3 DEF WorkerOK, InLoop, InDocument
<1>7. SameOtherRows(j) /\ SameOtherPlaces(p)
  BY <1>3 DEF SameOtherRows, RowOf, SameOtherPlaces, PlaceOf
<1> QED
  BY <1>2, <1>5, <1>6, <1>7, OneJobComp

LEMMA FinishComp ==
  ASSUME IInv, CompInv, NEW p \in Procs, Finish(p)
  PROVE  CompInv'
<1> USE DEF IInv, IndType, TypeOK
<1>0. PICK j \in Jobs : j = cur[p]
  BY AtJob DEF Finish, Working
<1> USE <1>0
<1>1. /\ base[j] # "none" /\ RowsOK(j)
      /\ \A r \in Procs \ {p} : pc[r] \in Working => cur[r] # j
  BY AtJob DEF Finish, Working
<1>2. /\ status' = [status EXCEPT ![j] = outcome[p]] /\ outcome[p] \in {"succeeded", "failed"}
      /\ LoseWorker(p, "idle") /\ UNCHANGED <<processed, indexed, item, base, chunks, graph>>
  BY DEF Finish, basevars
<1>3. RowsOK(j)'
  <2>1. SettledOf(j)' = SettledOf(j) /\ \A i \in Docs : ChunksOf(j, i)' = ChunksOf(j, i)
    BY <1>2 DEF SettledOf, ChunksOf
  <2> QED
    BY <1>1, <1>2, <2>1 DEF RowsOK
<1>4. WorkerOK(p)' /\ SameOtherPlaces(p) /\ SameOtherRows(j)
  BY <1>2 DEF LoseWorker, WorkerOK, InLoop, InDocument, SameOtherPlaces, PlaceOf, SameOtherRows, RowOf
<1> QED
  BY <1>1, <1>3, <1>4, OneJobComp

\* Of a discarded job nothing is left that could disagree.
LEMMA DiscardRowsComp ==
  ASSUME IInv, NEW j \in Jobs, DiscardRows(j)
  PROVE  RowsOK(j)' /\ \A k \in Jobs \ {j} : /\ status'[k] = status[k] /\ base'[k] = base[k]
                                             /\ chunks'[k] = chunks[k] /\ graph'[k] = graph[k]
                                             /\ item'[k] = item[k]
<1> USE DEF IInv, IndType, TypeOK
<1>1. status'[j] = "cancelled" /\ base'[j] = "none" /\ chunks'[j] = {}
  BY DEF DiscardRows
<1>2. RowsOK(j)'
  BY <1>1, FS_EmptySet DEF RowsOK
<1> QED
  BY <1>2 DEF DiscardRows, CancelItems

LEMMA CommitDiscardComp ==
  ASSUME IInv, CompInv, NEW p \in Procs, CommitDiscard(p)
  PROVE  CompInv'
<1> USE DEF IInv, IndType, TypeOK
<1>0. PICK j \in Jobs : j = cur[p]
  BY AtJob DEF CommitDiscard, Working
<1> USE <1>0
<1>1. \A r \in Procs \ {p} : pc[r] \in Working => cur[r] # j
  BY AtJob DEF CommitDiscard, Working
<1>2. DiscardRows(j) /\ LoseWorker(p, "idle") /\ UNCHANGED <<processed, indexed>>
  BY DEF CommitDiscard
<1>3. RowsOK(j)' /\ SameOtherRows(j)
  BY <1>2, DiscardRowsComp DEF SameOtherRows, RowOf
<1>4. WorkerOK(p)' /\ SameOtherPlaces(p)
  BY <1>2 DEF LoseWorker, WorkerOK, InLoop, InDocument, SameOtherPlaces, PlaceOf
<1> QED
  BY <1>1, <1>3, <1>4, OneJobComp

LEMMA RequestCommitsComp ==
  ASSUME IInv, CompInv, NEW p \in Procs, RequestCommits(p)
  PROVE  CompInv'
<1> USE DEF IInv, IndType, TypeOK
<1>0. PICK j \in Jobs : j = rjob[p]
  BY DEF RequestCommits, PlacesOK
<1> USE <1>0
<1>1. DiscardRows(j) /\ status[j] = "queued" /\ UNCHANGED <<processed, indexed, pc, cur, pos, start, done>>
  BY DEF RequestCommits, procvars, ClaimInv, Taken
<1>2. RowsOK(j)' /\ SameOtherRows(j)
  BY <1>1, DiscardRowsComp DEF SameOtherRows, RowOf
<1>3. PlaceOf(p)' = PlaceOf(p) /\ SameOtherPlaces(p)
  BY <1>1 DEF SameOtherPlaces, PlaceOf
<1>4. \A r \in Procs : pc[r] \in Working => cur[r] # j
  BY <1>1 DEF ClaimInv
<1>5. WorkerOK(p)'
  <2>1. pc[p] \in Working => \A k \in Jobs : k = cur[p] => RowOf(k)' = RowOf(k)
    BY <1>2, <1>4 DEF SameOtherRows
  <2> QED
    BY <1>3, <2>1, SamePlaceOK DEF CompInv
<1> QED
  BY <1>2, <1>3, <1>4, <1>5, OneJobComp

\* A restart marks every running job and item failed, those another process is
\* still working on included: no passage count depends on it.
LEMMA ReclaimComp ==
  ASSUME IInv, CompInv, NEW p \in Procs, Reclaim(p)
  PROVE  CompInv'
<1> USE DEF IInv, IndType, TypeOK
<1>1. \A k \in Jobs : status'[k] = IF status[k] = "running" THEN "failed" ELSE status[k]
  BY DEF Reclaim
<1>2. \A k \in Jobs, i \in Docs : item'[k][i] = item[k][i] \/ (item[k][i] = "running" /\ item'[k][i] = "failed")
  BY DEF Reclaim
<1>3. pc[p] = "boot" /\ pc' = [pc EXCEPT ![p] = "idle"]
      /\ UNCHANGED <<processed, indexed, base, chunks, graph, cur, pos, start, done>>
  BY DEF Reclaim, basevars
<1>4. ASSUME NEW k \in Jobs PROVE RowsOK(k)'
  <2>1. RowsOK(k)
    BY DEF CompInv
  <2>2. \A i \in Docs : ChunksOf(k, i)' = ChunksOf(k, i) /\ (item'[k][i] \in Read <=> item[k][i] \in Read)
    BY <1>2, <1>3 DEF ChunksOf, Read
  <2>3. SettledOf(k) = Docs => SettledOf(k)' = Docs
    <3>1. \A i \in Docs : item[k][i] \in Settled => item'[k][i] \in Settled
      BY <1>2 DEF Settled
    <3> QED
      BY <3>1 DEF SettledOf
  <2>4. status[k] = "queued" => Untouched(k)'
    <3>1. status[k] = "queued" => Untouched(k)
      BY <2>1 DEF RowsOK
    <3>2. \A i \in Docs : item[k][i] = "pending" => item'[k][i] = "pending"
      BY <1>2
    <3> QED
      BY <1>3, <3>1, <3>2 DEF Untouched
  <2>5. status'[k] # "running" /\ (status'[k] = "queued" => status[k] = "queued") /\ (status'[k] = "absent" => status[k] = "absent")
    BY <1>1
  <2> QED
    BY <1>3, <2>1, <2>2, <2>3, <2>4, <2>5 DEF RowsOK
<1>5. ASSUME NEW r \in Procs PROVE WorkerOK(r)'
  <2>1. CASE r = p
    BY <1>3, <2>1 DEF CompInv, WorkerOK, InLoop, InDocument
  <2>2. CASE r # p /\ pc[r] \notin Working
    BY <1>3, <2>2 DEF CompInv, WorkerOK, InLoop, InDocument, Working
  <2>3. CASE r # p /\ pc[r] \in Working
    <3> DEFINE j == cur[r]
    <3>0. j \in Jobs
      BY <2>3 DEF PlacesOK
    <3>1. WorkerOK(r) /\ pc'[r] = pc[r]
      BY <1>3, <2>3 DEF CompInv
    <3>2. \A i \in Docs :
            /\ item[j][i] \in Settled => item'[j][i] \in Settled
            /\ item[j][i] = "pending" => item'[j][i] = "pending"
            /\ item[j][i] \in {"running", "failed"} => item'[j][i] \in {"running", "failed"}
      BY <3>0, <1>2 DEF Settled
    <3>3. status'[j] # "running"
      BY <3>0, <1>1
    <3>4. pc[r] \in InDocument => pos[r] \in Docs
      BY DEF PlacesOK
    <3>5. /\ cur' = cur /\ pos'[r] = pos[r] /\ start'[r] = start[r] /\ done'[r] = done[r]
          /\ base' = base /\ indexed' = indexed /\ chunks' = chunks /\ processed' = processed
      BY <1>3
    <3> HIDE DEF IInv, IndType, TypeOK
    <3>6. pc[r] = "claimed" => Untouched(j)'
      BY <3>1, <3>2, <3>5 DEF WorkerOK, Untouched
    <3>7. pc[r] = "checkpoint" /\ pos[r] \in Docs => item'[j][pos[r]] = "pending"
      BY <3>1, <3>2 DEF WorkerOK
    <3>8. pc[r] \in InDocument => item'[j][pos[r]] \in {"running", "failed"}
      BY <3>1, <3>2, <3>4 DEF WorkerOK
    <3>9. pc[r] \in InLoop =>
            /\ base'[j] = "staged" /\ start'[r] = indexed'[j]
            /\ \A i \in Docs : i < pos[r] => item'[j][i] \in Settled
            /\ \A i \in Docs : i > pos[r] => item'[j][i] = "pending"
      BY <3>1, <3>2, <3>5 DEF WorkerOK
    <3>10. /\ pc[r] = "linking" => pos[r] = NumDocs + 1
           /\ pc[r] \in {"embedding", "ingested"} => done[r] = Size[pos[r]]
           /\ pc[r] = "chunking" => done[r] <= Size[pos[r]]
           /\ pc[r] \notin {"chunking", "embedding", "ingested"} => done[r] = 0
      BY <3>1 DEF WorkerOK
    <3> QED
      BY <3>1, <3>3, <3>5, <3>6, <3>7, <3>8, <3>9, <3>10 DEF WorkerOK
  <2> QED
    BY <2>1, <2>2, <2>3
<1> QED
  BY <1>4, <1>5 DEF CompInv

LEMMA NextComp == IInv /\ CompInv /\ [Next]_vars => CompInv'
<1> SUFFICES ASSUME IInv, CompInv, [Next]_vars PROVE CompInv'
  OBVIOUS
<1>1. CASE UNCHANGED vars
  BY <1>1, StutterComp DEF vars
<1>2. CASE User
  BY <1>2, UploadComp, PurgeComp, AsideComp DEF User
<1>3. CASE Fault
  BY <1>3, OutsideComp, AsideComp, RunQuietComp DEF Fault
<1>4. ASSUME NEW p \in Procs, Worker(p) PROVE CompInv'
  <2>1. DocumentRaises(p) => FailItem(p) /\ pc[p] \in InDocument /\ pos[p] \in Docs
    BY DEF DocumentRaises, InDocument, IInv, IndType, PlacesOK
  <2> QED
    BY <1>4, <2>1, FailItemComp, OutsideComp, RunQuietComp, ClaimComp, BeginDocumentComp, OpenDocumentComp,
       CommitDocumentComp, LinkComp, FinishComp, CommitDiscardComp, ReclaimComp DEF Worker
<1>5. ASSUME NEW p \in Procs, Request(p) \/ Restart(p) PROVE CompInv'
  BY <1>5, AsideComp, OutsideComp, RequestCommitsComp DEF Request
<1> QED
  BY <1>1, <1>2, <1>3, <1>4, <1>5 DEF Next

LEMMA AlwaysComp == Spec => [](IInv /\ CompInv)
<1>1. Init => IInv /\ CompInv
  BY InitInv, InitComp
<1>2. IInv /\ CompInv /\ [Next]_vars => (IInv /\ CompInv)'
  BY NextInv, NextComp
<1> QED
  BY <1>1, <1>2, PTL DEF Spec

\* Whatever the faults, the races and the restarts, a base that answers has
\* exactly the passages of the documents that were read, numbered without gap,
\* an outcome for every document, and its graph (run_job, ingest_file, Link).
THEOREM CompleteBeforeAnswering == Spec => []AnswerableIsComplete
<1>1. IInv /\ CompInv => AnswerableIsComplete
  <2> SUFFICES ASSUME IInv, CompInv, NEW j \in Jobs, base[j] = "answerable"
               PROVE  /\ \A i \in Docs : item[j][i] \in Settled
                      /\ \A i \in Docs : Cardinality({c \in chunks[j] : c.doc = i}) =
                                          IF item[j][i] = "failed" THEN 0 ELSE Size[i]
                      /\ {c.index : c \in chunks[j]} = 0..(indexed[j] - 1)
                      /\ Cardinality(chunks[j]) = indexed[j]
                      /\ graph[j]
    BY DEF AnswerableIsComplete
  <2>1. RowsOK(j)
    BY DEF CompInv
  <2>2. \A i \in Docs : item[j][i] \in Settled
    BY <2>1 DEF RowsOK, SettledOf
  <2>3. \A i \in Docs : item[j][i] \in Read <=> item[j][i] # "failed"
    BY <2>2 DEF Read, Settled
  <2>4. Numbered(chunks[j], 0, indexed[j]) /\ graph[j]
        /\ \A i \in Docs : Cardinality(ChunksOf(j, i)) = IF item[j][i] \in Read THEN Size[i] ELSE 0
    BY <2>1 DEF RowsOK
  <2>5. \A i \in Docs : Cardinality({c \in chunks[j] : c.doc = i}) = IF item[j][i] = "failed" THEN 0 ELSE Size[i]
    <3>1. \A i \in Docs : Cardinality({c \in chunks[j] : c.doc = i}) = IF item[j][i] \in Read THEN Size[i] ELSE 0
      BY <2>4 DEF ChunksOf, Of
    <3> QED
      BY <2>3, <3>1
  <2>6. {c.index : c \in chunks[j]} = 0..(indexed[j] - 1) /\ Cardinality(chunks[j]) = indexed[j]
    <3>1. indexed[j] \in Nat
      BY DEF IInv, IndType, TypeOK
    <3> QED
      BY <2>4, <3>1 DEF Numbered
  <2> QED
    BY <2>2, <2>4, <2>5, <2>6
<1> QED
  BY AlwaysComp, <1>1, PTL

\* The progress of a running job is the number of documents with an outcome,
\* however they got it (run_job bumps processed_documents in three places).
THEOREM ProgressCounts == Spec => []ProgressIsHonest
<1>1. CompInv => ProgressIsHonest
  BY DEF CompInv, RowsOK, SettledOf, ProgressIsHonest
<1> QED
  BY AlwaysComp, <1>1, PTL

-----------------------------------------------------------------------------
(* Where a passage comes from                                               *)

\* No two documents of an upload have the same name after _safe_filename.
DistinctNames == \A a, b \in Docs : Name[a] = Name[b] => a = b

\* A file holds the document of its name, or is gone.
FilesOK == \A j \in Jobs, i \in Docs : disk[j][Name[i]] \in {0, i}

\* A worker has read the document it is at.
BytesOK == \A p \in Procs : pc[p] \in InDocument \ {"open"} => bytes[p] = pos[p]

SourceInv == FilesOK /\ BytesOK /\ PassagesComeFromTheirDocument

LEMMA RemoveFilesOK ==
  ASSUME IndType, FilesOK, NEW j \in Jobs, RemoveFiles(j)
  PROVE  FilesOK'
<1>1. \A i \in Docs : Name[i] \in Names
  BY DEF Names
<1>2. PICK left \in {NoFiles, disk[j]} : disk' = [disk EXCEPT ![j] = left]
  BY DEF RemoveFiles
<1>3. \A i \in Docs : left[Name[i]] \in {0, i}
  BY <1>1, <1>2 DEF FilesOK, NoFiles
<1> QED
  BY <1>2, <1>3 DEF FilesOK, IndType, TypeOK

LEMMA FilesStep ==
  ASSUME DistinctNames, IndType, FilesOK, [Next]_vars
  PROVE  FilesOK'
<1>1. ASSUME NEW j \in Jobs, Upload(j) PROVE FilesOK'
  <2>1. PICK files \in [Names -> Docs] : Stages(files) /\ disk' = [disk EXCEPT ![j] = files]
    BY <1>1 DEF Upload
  <2>2. \A i \in Docs : files[Name[i]] = i
    <3> TAKE i \in Docs
    <3>1. Name[i] \in Names
      BY DEF Names
    <3>2. Name[files[Name[i]]] = Name[i] /\ files[Name[i]] \in Docs
      BY <2>1, <3>1 DEF Stages
    <3> QED
      BY <3>2 DEF DistinctNames
  <2> QED
    BY <2>1, <2>2 DEF FilesOK, IndType, TypeOK
<1>2. ASSUME NEW p \in Procs, NEW j \in Jobs, PurgeBase(p, j) PROVE FilesOK'
  BY <1>2, RemoveFilesOK DEF PurgeBase
<1>3. ASSUME NEW p \in Procs, DiscardFiles(p) PROVE FilesOK'
  <2>1. cur[p] \in Jobs /\ RemoveFiles(cur[p])
    BY <1>3 DEF DiscardFiles, Working, IndType, PlacesOK
  <2> QED
    BY <2>1, RemoveFilesOK
<1>4. ASSUME NEW p \in Procs, RequestRemovesFiles(p) PROVE FilesOK'
  <2>1. rjob[p] \in Jobs /\ RemoveFiles(rjob[p])
    BY <1>4 DEF RequestRemovesFiles, IndType, PlacesOK
  <2> QED
    BY <2>1, RemoveFilesOK
<1>5. ASSUME disk' = disk PROVE FilesOK'
  BY <1>5 DEF FilesOK
<1>6. ASSUME NEW p \in Procs,
             \/ \E j \in Jobs : ReadForCancel(p, j)
             \/ Crash(p) \/ JobRaises(p) \/ IterationRaises(p) \/ RequestRaises(p) \/ Restart(p)
             \/ FlagForWorker(p) \/ ClaimForCancel(p) \/ RequestCommits(p)
      PROVE  disk' = disk
  BY <1>6 DEF ReadForCancel, Crash, JobRaises, IterationRaises, RequestRaises, Restart,
              FlagForWorker, ClaimForCancel, RequestCommits
<1>7. ASSUME NEW p \in Procs, Worker(p), ~DiscardFiles(p) PROVE disk' = disk
  BY <1>7 DEF Worker, PollQueue, Claim, LoadJob, BeginDocument, OpenDocument, ChunkGroup, EndChunking,
              Embed, DocumentRaises, AbortDocument, CommitDocument, FailItem, BeginLinking, Link, Finish,
              CancelAtCheckpoint, CommitDiscard, Reclaim
<1>8. CASE UNCHANGED vars
  BY <1>5, <1>8 DEF vars
<1> QED
  BY <1>1, <1>2, <1>3, <1>4, <1>5, <1>6, <1>7, <1>8 DEF Next, User, Fault, Request

LEMMA BytesStep ==
  ASSUME IndType, FilesOK, BytesOK, [Next]_vars
  PROVE  BytesOK'
<1> USE DEF IndType, TypeOK
<1>1. ASSUME UNCHANGED <<pc, pos, bytes>> PROVE BytesOK'
  BY <1>1 DEF BytesOK
<1>2. ASSUME NEW p \in Procs, pc'[p] \notin InDocument \ {"open"} \/ bytes'[p] = pos'[p],
             \A r \in Procs \ {p} : pc'[r] = pc[r] /\ pos'[r] = pos[r] /\ bytes'[r] = bytes[r]
      PROVE  BytesOK'
  BY <1>2 DEF BytesOK
<1>3. ASSUME NEW p \in Procs, FailItem(p) PROVE BytesOK'
  <2>1. /\ pc'[p] = "checkpoint"
        /\ \A r \in Procs \ {p} : pc'[r] = pc[r] /\ pos'[r] = pos[r] /\ bytes'[r] = bytes[r]
    BY <1>3 DEF FailItem, NextDocument
  <2> QED
    BY <1>2, <2>1 DEF InDocument
<1>4. ASSUME NEW p \in Procs, OpenDocument(p) PROVE BytesOK'
  <2>1. CASE FailItem(p)
    BY <1>3, <2>1
  <2>2. CASE ~FailItem(p)
    <3>1. cur[p] \in Jobs /\ pos[p] \in Docs
      BY <1>4 DEF OpenDocument, PlacesOK, Working, InDocument
    <3>2. bytes'[p] = disk[cur[p]][Name[pos[p]]] /\ bytes'[p] # 0 /\ pos' = pos
          /\ \A r \in Procs \ {p} : pc'[r] = pc[r] /\ bytes'[r] = bytes[r]
      BY <1>4, <2>2 DEF OpenDocument
    <3>3. bytes'[p] = pos'[p]
      BY <3>1, <3>2 DEF FilesOK
    <3> QED
      BY <1>2, <3>2, <3>3
  <2> QED
    BY <2>1, <2>2
<1>5. ASSUME NEW p \in Procs, BeginDocument(p) PROVE BytesOK'
  <2>1. CASE FailItem(p)
    BY <1>3, <2>1
  <2>2. CASE ~FailItem(p)
    <3>1. pc'[p] = "open" /\ pos' = pos /\ bytes' = bytes /\ \A r \in Procs \ {p} : pc'[r] = pc[r]
      BY <1>5, <2>2 DEF BeginDocument
    <3> QED
      BY <1>2, <3>1
  <2> QED
    BY <2>1, <2>2
<1>6. ASSUME NEW p \in Procs, ChunkGroup(p) \/ EndChunking(p) \/ Embed(p) PROVE BytesOK'
  <2>1. pc[p] \in InDocument \ {"open"} /\ pos' = pos /\ bytes' = bytes /\ \A r \in Procs \ {p} : pc'[r] = pc[r]
    BY <1>6 DEF ChunkGroup, EndChunking, Embed, InDocument
  <2>2. bytes'[p] = pos'[p]
    BY <2>1 DEF BytesOK
  <2> QED
    BY <1>2, <2>1, <2>2
<1>7. ASSUME NEW p \in Procs,
             \/ PollQueue(p) \/ Claim(p) \/ LoadJob(p) \/ AbortDocument(p) \/ CommitDocument(p) \/ BeginLinking(p)
             \/ Link(p) \/ Finish(p) \/ CancelAtCheckpoint(p) \/ DiscardFiles(p) \/ CommitDiscard(p)
             \/ Reclaim(p) \/ Crash(p) \/ JobRaises(p) \/ IterationRaises(p) \/ Restart(p)
      PROVE  BytesOK'
  <2>1. /\ pc'[p] \notin InDocument
        /\ \A r \in Procs \ {p} : pc'[r] = pc[r] /\ pos'[r] = pos[r] /\ bytes'[r] = bytes[r]
    BY <1>7 DEF PollQueue, Claim, LoadJob, AbortDocument, CommitDocument, BeginLinking, Link, Finish,
                CancelAtCheckpoint, DiscardFiles, CommitDiscard, Reclaim, Crash, JobRaises, IterationRaises,
                Restart, LoseWorker, NextDocument, InDocument
  <2> QED
    BY <1>2, <2>1
<1>8. ASSUME \/ \E j \in Jobs : Upload(j)
             \/ \E p \in Procs, j \in Jobs : ReadForCancel(p, j) \/ PurgeBase(p, j)
             \/ \E p \in Procs : Request(p) \/ RequestRaises(p)
             \/ UNCHANGED vars
      PROVE  UNCHANGED <<pc, pos, bytes>>
  BY <1>8 DEF Upload, ReadForCancel, PurgeBase, Request, FlagForWorker, ClaimForCancel, RequestRemovesFiles,
              RequestCommits, RequestRaises, vars, procvars
<1>9. ASSUME NEW p \in Procs, DocumentRaises(p) PROVE BytesOK'
  BY <1>3, <1>9 DEF DocumentRaises
<1> HIDE DEF IndType, TypeOK
<1> QED
  BY <1>1, <1>4, <1>5, <1>6, <1>7, <1>8, <1>9 DEF Next, User, Fault, Worker

LEMMA SourceStep ==
  ASSUME IndType, BytesOK, PassagesComeFromTheirDocument, [Next]_vars
  PROVE  PassagesComeFromTheirDocument'
<1> USE DEF IndType, TypeOK
<1>1. ASSUME \A j \in Jobs : chunks'[j] \subseteq chunks[j] PROVE PassagesComeFromTheirDocument'
  BY <1>1 DEF PassagesComeFromTheirDocument
<1>2. ASSUME NEW p \in Procs, CommitDocument(p) PROVE PassagesComeFromTheirDocument'
  <2>1. cur[p] \in Jobs /\ bytes[p] = pos[p]
    BY <1>2 DEF CommitDocument, PlacesOK, Working, BytesOK, InDocument
  <2>2. \A c \in NewChunks(p) : c.src = c.doc
    BY <2>1 DEF NewChunks
  <2>3. chunks' = [chunks EXCEPT ![cur[p]] = chunks[cur[p]] \cup NewChunks(p)]
    BY <1>2 DEF CommitDocument
  <2>4. \A j \in Jobs : chunks'[j] \subseteq chunks[j] \cup NewChunks(p)
    BY <2>3
  <2> QED
    BY <2>2, <2>4 DEF PassagesComeFromTheirDocument
<1>3. ASSUME NEW p \in Procs, Worker(p), ~CommitDocument(p), ~CommitDiscard(p) PROVE chunks' = chunks
  BY <1>3 DEF Worker, PollQueue, Claim, LoadJob, BeginDocument, OpenDocument, ChunkGroup, EndChunking,
              Embed, DocumentRaises, AbortDocument, FailItem, BeginLinking, Link, Finish,
              CancelAtCheckpoint, DiscardFiles, Reclaim, dbvars, basevars, jobvars
<1>4. ASSUME NEW p \in Procs,
             \/ \E j \in Jobs : ReadForCancel(p, j)
             \/ Crash(p) \/ JobRaises(p) \/ IterationRaises(p) \/ RequestRaises(p) \/ Restart(p)
             \/ FlagForWorker(p) \/ ClaimForCancel(p) \/ RequestRemovesFiles(p)
      PROVE  chunks' = chunks
  BY <1>4 DEF ReadForCancel, Crash, JobRaises, IterationRaises, RequestRaises, Restart,
              FlagForWorker, ClaimForCancel, RequestRemovesFiles, dbvars, basevars
<1>5. ASSUME NEW p \in Procs, CommitDiscard(p) \/ RequestCommits(p) PROVE \A j \in Jobs : chunks'[j] \subseteq chunks[j]
  BY <1>5 DEF CommitDiscard, RequestCommits, DiscardRows
<1>6. ASSUME NEW p \in Procs, NEW k \in Jobs, PurgeBase(p, k) PROVE \A j \in Jobs : chunks'[j] \subseteq chunks[j]
  BY <1>6 DEF PurgeBase, basevars
<1>7. ASSUME (\E j \in Jobs : Upload(j)) \/ UNCHANGED vars PROVE chunks' = chunks
  BY <1>7 DEF Upload, vars
<1>8. ASSUME chunks' = chunks PROVE PassagesComeFromTheirDocument'
  BY <1>1, <1>8
<1> HIDE DEF IndType, TypeOK
<1> QED
  BY <1>1, <1>2, <1>3, <1>4, <1>5, <1>6, <1>7, <1>8 DEF Next, User, Fault, Request

\* Whatever the races and faults, a passage is filed under the document whose
\* bytes it was cut from -- if no two documents of an upload have the same
\* sanitized name, which stage_upload does not see to (SameNames.cfg).
THEOREM DistinctNamesKeepSources ==
  ASSUME DistinctNames
  PROVE  Spec => []PassagesComeFromTheirDocument
<1>1. Init => IInv /\ SourceInv
  <2>1. \A i \in Docs : Name[i] \in Names
    BY DEF Names
  <2>2. Init => SourceInv
    BY <2>1 DEF Init, SourceInv, FilesOK, BytesOK, InDocument, PassagesComeFromTheirDocument, NoFiles
  <2> QED
    BY <2>2, InitInv
<1>2. IInv /\ SourceInv /\ [Next]_vars => (IInv /\ SourceInv)'
  BY NextInv, FilesStep, BytesStep, SourceStep DEF SourceInv, IInv
<1>3. SourceInv => PassagesComeFromTheirDocument
  BY DEF SourceInv
<1> QED
  BY <1>1, <1>2, <1>3, PTL DEF Spec

-----------------------------------------------------------------------------
(* Items that show as running                                               *)

AtItem == InDocument \cup {"discarding", "discarded"}

WorksOnItem(p, j, i) == (pc[p] \in AtItem /\ cur[p] = j /\ pos[p] = i) \/ pc[p] \in {"down", "boot"}

\* ... belong to a running job, too: the next start settles both.
RunningInv ==
  \A j \in Jobs, i \in Docs : item[j][i] = "running" =>
    status[j] = "running" /\ \E p \in Procs : WorksOnItem(p, j, i)

LoneProcess == /\ \A p, q \in Procs : p = q
               /\ MaxDbErrors = 0

\* The only process, when it is up, is at the only running item.
LEMMA LoneItem ==
  ASSUME LoneProcess, RunningInv, NEW p \in Procs, pc[p] \notin {"down", "boot"}
  PROVE  \A j \in Jobs, i \in Docs : item[j][i] = "running" => pc[p] \in AtItem /\ cur[p] = j /\ pos[p] = i
  BY DEF RunningInv, WorksOnItem, LoneProcess

LEMMA RunningFailItem ==
  ASSUME LoneProcess, LInv, RunningInv, NEW p \in Procs, FailItem(p), pc[p] \in {"checkpoint"} \cup InDocument
  PROVE  RunningInv'
<1> USE DEF LInv, IInv, IndType, TypeOK
<1>1. \A j \in Jobs, i \in Docs : item[j][i] = "running" => cur[p] = j /\ pos[p] = i
  BY LoneItem DEF InDocument
<1>2. \A j \in Jobs, i \in Docs : item'[j][i] # "running"
  BY <1>1 DEF FailItem
<1> QED
  BY <1>2 DEF RunningInv

LEMMA RunningStep ==
  ASSUME LoneProcess, LInv, RunningInv, [Next]_vars
  PROVE  RunningInv'
<1> USE DEF LInv, IInv, IndType, TypeOK
<1>1. dberrors = 0 /\ ~(dberrors < MaxDbErrors)
  BY DEF LoneProcess
<1>2. ASSUME NEW j \in Jobs, Upload(j) PROVE RunningInv'
  <2>1. /\ status' = [status EXCEPT ![j] = "queued"] /\ item' = [item EXCEPT ![j] = [i \in Docs |-> "pending"]]
        /\ UNCHANGED <<pc, cur, pos>>
    BY <1>2 DEF Upload, procvars
  <2>2. \A k \in Jobs, i \in Docs : item'[k][i] = "running" => k # j /\ item[k][i] = "running" /\ status'[k] = status[k]
    BY <2>1
  <2> QED
    BY <2>1, <2>2 DEF RunningInv, WorksOnItem
<1>3. ASSUME UNCHANGED <<item, status, pc, cur, pos>> PROVE RunningInv'
  BY <1>3 DEF RunningInv, WorksOnItem
<1>4. ASSUME NEW p \in Procs, RequestCommits(p) PROVE RunningInv'
  <2>1. rjob[p] \in Jobs /\ DiscardRows(rjob[p]) /\ UNCHANGED <<pc, cur, pos>>
    BY <1>4 DEF RequestCommits, PlacesOK, procvars
  <2>2. \A k \in Jobs, i \in Docs : item'[k][i] = "running" => k # rjob[p] /\ item[k][i] = "running" /\ status'[k] = status[k]
    BY <2>1 DEF DiscardRows, CancelItems
  <2> QED
    BY <2>1, <2>2 DEF RunningInv, WorksOnItem
<1>5. ASSUME NEW p \in Procs, pc[p] \notin AtItem \cup {"down", "boot"}
      PROVE  \A j \in Jobs, i \in Docs : item[j][i] # "running"
  BY <1>5, LoneItem
<1>6. ASSUME NEW p \in Procs, PollQueue(p) \/ Claim(p) \/ LoadJob(p) \/ BeginLinking(p) \/ Link(p) \/ Finish(p) \/ CancelAtCheckpoint(p)
      PROVE  RunningInv'
  <2>1. pc[p] \notin AtItem \cup {"down", "boot"} /\ item' = item
    BY <1>6 DEF PollQueue, Claim, LoadJob, BeginLinking, Link, Finish, CancelAtCheckpoint, AtItem, InDocument, dbvars, jobvars
  <2> QED
    BY <1>5, <2>1 DEF RunningInv
<1>7. ASSUME NEW p \in Procs, BeginDocument(p) PROVE RunningInv'
  <2>1. CASE FailItem(p)
    BY <1>7, <2>1, RunningFailItem DEF BeginDocument
  <2>2. CASE ~FailItem(p)
    <3>1. /\ pc[p] = "checkpoint" /\ item' = [item EXCEPT ![cur[p]] = [item[cur[p]] EXCEPT ![pos[p]] = "running"]]
          /\ pc'[p] = "open" /\ UNCHANGED <<status, cur, pos>>
      BY <1>7, <2>2 DEF BeginDocument
    <3>2. cur[p] \in Jobs /\ status[cur[p]] = "running"
      BY <3>1 DEF LoneInv, PlacesOK, Working
    <3>3. \A j \in Jobs, i \in Docs : item[j][i] # "running"
      BY <1>5, <3>1 DEF AtItem, InDocument
    <3>4. \A j \in Jobs, i \in Docs : item'[j][i] = "running" => j = cur[p] /\ i = pos[p]
      BY <3>1, <3>3
    <3>5. \A j \in Jobs, i \in Docs : item'[j][i] = "running" => status'[j] = "running" /\ WorksOnItem(p, j, i)'
      BY <3>1, <3>2, <3>4 DEF WorksOnItem, AtItem, InDocument
    <3> QED
      BY <3>5 DEF RunningInv
  <2> QED
    BY <2>1, <2>2
<1>8. ASSUME NEW p \in Procs, OpenDocument(p) PROVE RunningInv'
  <2>1. CASE FailItem(p)
    BY <1>8, <2>1, RunningFailItem DEF OpenDocument, InDocument
  <2>2. CASE ~FailItem(p)
    <3>1. pc[p] \in AtItem /\ pc'[p] \in AtItem /\ UNCHANGED <<item, status, cur, pos>>
      BY <1>8, <2>2 DEF OpenDocument, AtItem, InDocument, dbvars
    <3> QED
      BY <3>1 DEF RunningInv, WorksOnItem, LoneProcess, AtItem, InDocument
  <2> QED
    BY <2>1, <2>2
<1>9. ASSUME NEW p \in Procs, ChunkGroup(p) \/ EndChunking(p) \/ Embed(p) \/ AbortDocument(p) \/ DiscardFiles(p)
      PROVE  RunningInv'
  <2>1. pc[p] \in AtItem /\ pc'[p] \in AtItem /\ UNCHANGED <<item, status, cur, pos>>
    BY <1>9 DEF ChunkGroup, EndChunking, Embed, AbortDocument, AtPoll, DiscardFiles, AtItem, InDocument, dbvars
  <2> QED
    BY <2>1 DEF RunningInv, WorksOnItem, LoneProcess, AtItem, InDocument
<1>10. ASSUME NEW p \in Procs, DocumentRaises(p) PROVE RunningInv'
  BY <1>10, RunningFailItem DEF DocumentRaises, InDocument
<1>11. ASSUME NEW p \in Procs, CommitDocument(p) PROVE RunningInv'
  <2>1. pc[p] \notin {"down", "boot"}
    BY <1>11 DEF CommitDocument
  <2>2. PICK result \in {"succeeded", "partial"} : item' = [item EXCEPT ![cur[p]] = [item[cur[p]] EXCEPT ![pos[p]] = result]]
    BY <1>11 DEF CommitDocument
  <2>3. \A j \in Jobs, i \in Docs : item[j][i] = "running" => j = cur[p] /\ i = pos[p]
    <3> HIDE DEF LInv, IInv, IndType, TypeOK
    <3> QED
      BY <2>1, LoneItem
  <2>4. \A j \in Jobs, i \in Docs : item'[j][i] # "running"
    BY <2>2, <2>3
  <2> QED
    BY <2>4 DEF RunningInv
<1>12. ASSUME NEW p \in Procs, CommitDiscard(p) PROVE RunningInv'
  <2>1. pc[p] \in AtItem /\ DiscardRows(cur[p]) /\ cur[p] \in Jobs
    BY <1>12 DEF CommitDiscard, AtItem, PlacesOK, Working
  <2>2. \A j \in Jobs, i \in Docs : item[j][i] = "running" => j = cur[p]
    BY <2>1, LoneItem DEF AtItem, InDocument
  <2>3. \A j \in Jobs, i \in Docs : item'[j][i] # "running"
    BY <2>1, <2>2 DEF DiscardRows, CancelItems
  <2> QED
    BY <2>3 DEF RunningInv
<1>13. ASSUME NEW p \in Procs, Reclaim(p) PROVE RunningInv'
  <2>1. \A j \in Jobs, i \in Docs : item'[j][i] # "running"
    BY <1>13 DEF Reclaim, RunningInv
  <2> QED
    BY <2>1 DEF RunningInv
<1>14. ASSUME NEW p \in Procs, Crash(p) \/ Restart(p) PROVE RunningInv'
  <2>1. pc'[p] \in {"down", "boot"} /\ UNCHANGED <<item, status>>
    BY <1>14 DEF Crash, Restart, LoseWorker, dbvars
  <2> QED
    BY <2>1 DEF RunningInv, WorksOnItem
<1>15. ASSUME \/ \E p \in Procs, j \in Jobs : ReadForCancel(p, j) \/ PurgeBase(p, j)
              \/ \E p \in Procs : FlagForWorker(p) \/ ClaimForCancel(p) \/ RequestRemovesFiles(p) \/ RequestRaises(p)
              \/ UNCHANGED vars
       PROVE  UNCHANGED <<item, status, pc, cur, pos>>
  BY <1>15 DEF ReadForCancel, PurgeBase, FlagForWorker, ClaimForCancel, RequestRemovesFiles, RequestRaises,
               vars, dbvars, jobvars, procvars
<1>16. ASSUME NEW p \in Procs PROVE ~JobRaises(p) /\ ~IterationRaises(p)
  BY <1>1 DEF JobRaises, IterationRaises
<1> HIDE DEF LInv, IInv, IndType, TypeOK
<1> QED
  BY <1>2, <1>3, <1>4, <1>6, <1>7, <1>8, <1>9, <1>10, <1>11, <1>12, <1>13, <1>14, <1>15, <1>16
     DEF Next, User, Fault, Worker, Request

\* With one API process and a database that refuses nothing, an item shows as
\* running only while the worker is at that document, or until the process that
\* died on it has started again.  (An error that _finish records leaves the item
\* as it was: run_job's handler does not settle it.)
THEOREM OneProcessItemsAreWorkedOn ==
  ASSUME LoneProcess
  PROVE  Spec => []RunningItemIsWorkedOn
<1>1. Init => LInv /\ RunningInv
  BY InitLife DEF Init, RunningInv
<1>2. LInv /\ RunningInv /\ [Next]_vars => (LInv /\ RunningInv)'
  BY NextLife, RunningStep DEF LoneProcess
<1>3. RunningInv => RunningItemIsWorkedOn
  BY DEF RunningInv, RunningItemIsWorkedOn, WorksOnItem, AtItem, InDocument
<1> QED
  BY <1>1, <1>2, <1>3, PTL DEF Spec

=============================================================================
