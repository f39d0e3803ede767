---------------------------- MODULE JobLifecycle ----------------------------
(***************************************************************************)
(* What the ingestion subsystem promises the person who uploaded a batch,  *)
(* without saying how: every upload has one outcome, an outcome is never   *)
(* revised, a base becomes answerable at most once and only while its job  *)
(* runs, and a cancelled upload takes its base with it.                    *)
(***************************************************************************)
CONSTANT Jobs        \* one job per upload; it owns exactly one knowledge base

VARIABLES
  status,            \* the job's outcome so far
  base               \* the base: none, staged (not answerable), answerable

lvars == <<status, base>>

Terminal == {"succeeded", "failed", "cancelled"}

Init ==
  /\ status = [j \in Jobs |-> "absent"]
  /\ base   = [j \in Jobs |-> "none"]

Submit(j) ==
  /\ status[j] = "absent"
  /\ status' = [status EXCEPT ![j] = "queued"]
  /\ base'   = [base EXCEPT ![j] = "staged"]

Start(j) ==
  /\ status[j] = "queued"
  /\ status' = [status EXCEPT ![j] = "running"]
  /\ UNCHANGED base

Publish(j) ==
  /\ status[j] = "running"
  /\ base[j] = "staged"
  /\ base' = [base EXCEPT ![j] = "answerable"]
  /\ UNCHANGED status

Succeed(j) ==
  /\ status[j] = "running"
  /\ base[j] = "answerable"
  /\ status' = [status EXCEPT ![j] = "succeeded"]
  /\ UNCHANGED base

Fail(j) ==
  /\ status[j] = "running"
  /\ status' = [status EXCEPT ![j] = "failed"]
  /\ UNCHANGED base

\* A cancel is honoured only before the base is published.
Discard(j) ==
  /\ status[j] \in {"queued", "running"}
  /\ base[j] = "staged"
  /\ status' = [status EXCEPT ![j] = "cancelled"]
  /\ base'   = [base EXCEPT ![j] = "none"]

\* A restart gives up on every running job at once.
FailAllRunning ==
  /\ status' = [j \in Jobs |-> IF status[j] = "running" THEN "failed" ELSE status[j]]
  /\ UNCHANGED base

Next ==
  \/ \E j \in Jobs : Submit(j) \/ Start(j) \/ Publish(j) \/ Succeed(j) \/ Fail(j) \/ Discard(j)
  \/ FailAllRunning

Spec == Init /\ [][Next]_lvars
=============================================================================
