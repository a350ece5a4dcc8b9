---------------------------------- MODULE Jobs ----------------------------------
(***************************************************************************)
(* The rows of the intelligence backlog (IntelligenceJobRepository in      *)
(* src/store/graph.js): what each operation of the repository makes of     *)
(* one row.  A row's key is the key of its evidence, so one piece of       *)
(* evidence has one job.  The deadline availableAt is kept as "due or      *)
(* not": a backoff ends some time, and how long it is decides nothing.     *)
(***************************************************************************)
EXTENDS Integers

JobStates == {"ABSENT", "READY", "RUNNING", "DONE", "FAILED"}

NoJob == [state |-> "ABSENT", due |-> FALSE, attempts |-> 0, claims |-> 0,
          prompt |-> 0, emptied |-> FALSE, retired |-> FALSE, owner |-> "nobody"]

\* What every re-opening writes: ready, due, the last failure forgotten.
Reopened(row) == [row EXCEPT !.state = "READY", !.due = TRUE]

\* enqueue: an existing job, whatever its state, is left alone.
Enqueue(row, who) ==
  IF row.state = "ABSENT"
    THEN [NoJob EXCEPT !.state = "READY", !.due = TRUE, !.owner = who] ELSE row

\* ready, one row of it.
Ready(row) == row.state = "READY" /\ row.due

\* start
Start(row) == [row EXCEPT !.state = "RUNNING", !.attempts = @ + 1]

\* finish
Finish(row, claims, prompt) ==
  [row EXCEPT !.state = "DONE", !.claims = claims, !.prompt = prompt]

\* Slip: a failure is final.
GiveUp(row) == [row EXCEPT !.state = "FAILED", !.due = FALSE]

\* fail, for what may work later: ready again, behind a backoff.
FailTransient(row) == [row EXCEPT !.state = "READY", !.due = FALSE]

\* Slip: the attempt is not given back.
ReleaseUnrefunded(row) == Reopened(row)

\* release: the attempt refunded, its old place in the line.
Release(row) == [Reopened(row) EXCEPT !.attempts = IF @ > 0 THEN @ - 1 ELSE 0]

\* reassignOwner: only a finished job, only for somebody else.
ReassignOwner(row, who) ==
  IF row.state = "DONE" /\ row.owner # who
    THEN [Reopened(row) EXCEPT !.owner = who] ELSE row

\* Slip: what ran when the process died is left running.
StrandedStays(row) == row

\* requeueStranded
RequeueStranded(row) == IF row.state = "RUNNING" THEN Reopened(row) ELSE row

\* retireAttachmentJobs: applied to the jobs of documents only.
Retire(row) ==
  IF row.state = "ABSENT" \/ (row.state = "DONE" /\ row.retired) THEN row
  ELSE [row EXCEPT !.state = "DONE", !.retired = TRUE]

\* Slip: every boot tries the empty ones again.
RequeueEmptyAlways(row) ==
  IF row.state = "DONE" /\ ~row.retired /\ row.claims = 0
    THEN [Reopened(row) EXCEPT !.emptied = TRUE] ELSE row

\* requeueEmptyUnderstandings: once per job, ever.
RequeueEmpty(row) ==
  IF row.state = "DONE" /\ ~row.retired /\ row.claims = 0 /\ ~row.emptied
    THEN [Reopened(row) EXCEPT !.emptied = TRUE] ELSE row

\* Slip: only what was found empty is read again under a new prompt.
RequeueForPromptIfEmpty(row, prompt) ==
  IF row.state = "DONE" /\ row.prompt # prompt /\ ~row.retired /\ row.claims = 0
    THEN Reopened(row) ELSE row

\* requeueForPrompt
RequeueForPrompt(row, prompt) ==
  IF row.state = "DONE" /\ row.prompt # prompt /\ ~row.retired
    THEN Reopened(row) ELSE row
================================================================================
