----------------------------- MODULE UploadBatch -----------------------------
(***************************************************************************)
(* Uploads from the page to the album: what a page does with each photo    *)
(* chosen (run of frontend/lib/upload-batch.ts, its HTTP calls in          *)
(* upload-http.ts and upload.ts) against the server of UploadTasks and a   *)
(* storage.  Answers are lost or late, the user stops and goes on, plans   *)
(* grow old, the server restarts, and other programs add and remove files. *)
(*                                                                         *)
(* An answer is taken in the step that gives it: nothing the server does   *)
(* in between is seen by the page.  status and prepare change nothing      *)
(* between their steps that others could see and are one action each.      *)
(***************************************************************************)
EXTENDS UploadTasks

CONSTANTS MaxDisturbances  \* bound: restarts, and files added or removed by others

ASSUME BatchConstants == MaxDisturbances \in Nat

VARIABLES
  rows,    \* the rows of the pages, with the locals of run
  owner,   \* history: the row a task was prepared for
  disturbances

vars == <<serverVars, rows, owner, disturbances>>

Chosen == [phase |-> "pending", saved |-> FALSE, task |-> "none",
           plan |-> FALSE, absent |-> TRUE, blocked |-> FALSE,
           sending |-> FALSE,                               \* transferStarted
           step |-> "idle", recovering |-> FALSE,           \* recoveryAttempted
           failed |-> FALSE]                                \* previousPhase is "error"

Calls == {"verify", "transfer", "complete", "retry"}
RowState == [phase : {"pending", "uploading", "processing", "done", "skipped", "error",
                      "cancelled", "uncertain", "waiting", "expired"},
             saved : BOOLEAN, task : Task \cup {"none"}, plan : BOOLEAN,
             absent : BOOLEAN, blocked : BOOLEAN, sending : BOOLEAN,
             step : {"idle", "status", "poll", "prepare"} \cup Calls,
             recovering : BOOLEAN, failed : BOOLEAN]

RowTypeOK == /\ rows \in [Row -> RowState]
             /\ owner \in [Task -> Row \cup {"none"}]
             /\ disturbances \in 0..MaxDisturbances

Init == /\ ServerInit
        /\ rows = [r \in Row |-> Chosen]
        /\ owner = [t \in Task |-> "none"]
        /\ disturbances = 0
-----------------------------------------------------------------------------
(* What an answer makes of a row. *)

Active(row) == row.step # "idle"
Rest(row) == [row EXCEPT !.step = "idle", !.recovering = FALSE, !.failed = FALSE]

\* setTask: saved is never taken back.
SetTask(row, task) ==
  IF task.saved THEN [row EXCEPT !.saved = TRUE, !.absent = FALSE] ELSE row

\* showTask.
ShowTask(row0, task) ==
  LET row == SetTask(row0, task) IN
  CASE task.phase = "skipped" -> [row EXCEPT !.phase = "skipped", !.blocked = TRUE]
    [] task.saved /\ task.phase = "done" -> [row EXCEPT !.phase = "done", !.blocked = TRUE]
    [] task.saved /\ task.phase = "processing" -> [row EXCEPT !.phase = "processing", !.blocked = FALSE]
    [] task.phase = "error" ->
         IF row.saved THEN [row EXCEPT !.phase = "error", !.blocked = ~task.retryable]
         ELSE [row EXCEPT !.phase = "error", !.blocked = ~task.again, !.absent = TRUE, !.plan = FALSE]
    [] OTHER -> row

\* finish: it asks again as long as the photo is being processed.
Finish(row, task) ==
  LET shown == ShowTask(row, task) IN
  IF task.phase = "processing" THEN [shown EXCEPT !.step = "poll"] ELSE Rest(shown)

Expired(row) == [Rest(row) EXCEPT !.phase = "expired", !.blocked = TRUE]
Unsure(row) == [Rest(row) EXCEPT !.phase = IF row.saved THEN "waiting" ELSE "uncertain",
                                 !.blocked = FALSE]

\* recover asks about the original: its processing if it is known to be saved.
Recover(row) == [row EXCEPT !.recovering = TRUE, !.step = IF row.saved THEN "status" ELSE "verify"]

\* Mutant: a lost transfer is taken for an absent original, without asking.
FailedUnasked(row) ==
  IF row.step = "transfer" THEN [Rest(row) EXCEPT !.phase = "error", !.absent = TRUE, !.plan = FALSE]
  ELSE IF row.task = "none" THEN [Rest(row) EXCEPT !.phase = "error", !.absent = TRUE]
  ELSE IF row.recovering THEN Unsure(row) ELSE Recover(row)

\* Mutant: every failure is recovered from, also that of a recovery.
FailedAgain(row) ==
  IF row.task = "none" THEN [Rest(row) EXCEPT !.phase = "error", !.absent = TRUE] ELSE Recover(row)

\* The catch of run: one recovery per execution.
Failed(row) ==
  IF row.task = "none" THEN [Rest(row) EXCEPT !.phase = "error", !.absent = TRUE]
  ELSE IF row.recovering THEN Unsure(row) ELSE Recover(row)

\* The answer of verify during a recovery.
Verified(row0, state, task) ==
  LET row == SetTask(row0, task) IN
  CASE row.saved -> Finish(row, task)
    [] ~row.saved /\ state \in {"skipped", "rejected"} -> Rest(ShowTask(row, task))
    [] ~row.saved /\ state = "absent" ->
         [Rest(row) EXCEPT !.absent = TRUE, !.phase = "error", !.blocked = ~task.again,
                           !.plan = row.plan /\ task.phase = "waiting"]
    [] OTHER -> Unsure(row)

\* run, from the start to its first call.  A link of a direct transfer that is 14
\* minutes old is not used any more, and grows no younger: it is as good as none.
Transferring(row) == [row EXCEPT !.step = "transfer", !.phase = "uploading",
                                 !.sending = TRUE, !.absent = FALSE]
FirstStep(row, old) ==
  IF row.saved THEN [row EXCEPT !.step = "status", !.failed = row.phase = "error"]
  ELSE IF row.task # "none" /\ ~row.absent THEN Recover(row)
  ELSE IF ~row.plan \/ (kind = "s3" /\ old)
       THEN [row EXCEPT !.step = "prepare", !.phase = "uploading", !.plan = FALSE]
  ELSE Transferring(row)
-----------------------------------------------------------------------------
(* The page. *)

SetRow(r, row) == rows' = [rows EXCEPT ![r] = row]
Waits(r) == \E q \in Request : reqs[q].live /\ reqs[q].row = r

\* start, and the pump: up to four rows at a time do not wait for each other.
Start(r) ==
  /\ ~Active(rows[r]) /\ ~rows[r].blocked /\ rows[r].phase \notin {"done", "skipped", "expired"}
  /\ \E old \in BOOLEAN : SetRow(r, FirstStep(rows[r], old))
  /\ UNCHANGED <<serverVars, owner, disturbances>>

\* Aborting a request does not take it back.
StoppedReqs(r) == Abandoned({q \in Request : reqs[q].row = r})

\* Mutant: stop only knows rows it has sent.
StoppedOnlySent(row) ==
  CASE row.saved -> [row EXCEPT !.phase = "waiting"]
    [] ~row.saved /\ row.sending /\ ~row.absent -> Unsure(row)
    [] OTHER -> row

\* What stop says of a row.
Stopped(row) ==
  CASE row.phase \in {"done", "skipped", "error", "expired"} -> row
    [] row.phase \notin {"done", "skipped", "error", "expired"} /\ row.saved -> [row EXCEPT !.phase = "waiting"]
    [] row.phase \notin {"done", "skipped", "error", "expired"} /\ ~row.saved ->
         IF row.sending /\ ~row.absent THEN Unsure(row) ELSE [row EXCEPT !.phase = "cancelled"]

Stop(r) ==
  /\ Active(rows[r])
  /\ SetRow(r, Rest(Stopped(rows[r])))
  /\ reqs' = StoppedReqs(r)
  /\ UNCHANGED <<kind, original, tasks, routines, stored, late, owner, disturbances>>

\* A call goes out.
Send(r) ==
  /\ rows[r].step \in Calls /\ ~Waits(r)
  /\ \E q \in Request :
       /\ Free(q) /\ q = CHOOSE p \in Request : Free(p)
       /\ reqs' = [reqs EXCEPT ![q] = [op |-> rows[r].step, task |-> rows[r].task, row |-> r,
                                       live |-> TRUE, pc |-> "sent", found |-> "none"]]
  /\ UNCHANGED <<kind, original, tasks, routines, stored, late, rows, owner, disturbances>>

\* It does not get through.
SendFails(r) ==
  /\ rows[r].step \in Calls /\ ~Waits(r)
  /\ SetRow(r, Failed(rows[r]))
  /\ UNCHANGED <<serverVars, owner, disturbances>>

Fresh == {t \in Task : tasks[t].phase = "none"}

\* prepare and its answer.  A new task replaces the one of a failed transfer.
PrepareRow(r) ==
  /\ rows[r].step = "prepare" /\ Fresh # {}
  /\ LET t == CHOOSE u \in Fresh : TRUE
         row == [rows[r] EXCEPT !.task = t, !.plan = TRUE]
     IN /\ Prepare(t)
        /\ owner' = [owner EXCEPT ![t] = r]
        /\ \/ SetRow(r, IF tasks'[t].phase = "waiting" THEN Transferring(row) ELSE Finish(row, tasks'[t]))
           \/ SetRow(r, Failed(rows[r]))  \* the answer is lost
  /\ UNCHANGED <<kind, original, routines, reqs, stored, late, disturbances>>

\* Nothing is prepared: the table is full or the call fails.  A photo that is
\* refused outright and has no task is not tried again.
PrepareFails(r) ==
  LET failed == Failed(rows[r]) IN
  /\ rows[r].step = "prepare"
  /\ \/ PrepareTooMany /\ SetRow(r, failed)
     \/ UNCHANGED tasks /\ SetRow(r, failed)
     \/ UNCHANGED tasks /\ rows[r].task = "none" /\ SetRow(r, [failed EXCEPT !.blocked = TRUE])
  /\ UNCHANGED <<kind, original, routines, reqs, stored, late, owner, disturbances>>

\* status at the beginning of a run: a processing that failed is tried again.
StatusFirst(r) ==
  LET row == rows[r]
      task == tasks[row.task]
  IN /\ row.step = "status" /\ Listed(row.task)
     /\ SetRow(r, IF ~row.recovering /\ row.failed /\ task.phase = "error" /\ task.retryable
                  THEN [row EXCEPT !.step = "retry"] ELSE Finish(row, task))
     /\ UNCHANGED <<serverVars, owner, disturbances>>

\* status every 600 ms, for two minutes.
Poll(r) ==
  /\ rows[r].step = "poll" /\ Listed(rows[r].task)
  /\ SetRow(r, Finish(rows[r], tasks[rows[r].task]))
  /\ UNCHANGED <<serverVars, owner, disturbances>>

PollEnds(r) ==
  /\ rows[r].step = "poll"
  /\ SetRow(r, [Rest(rows[r]) EXCEPT !.phase = "waiting"])
  /\ UNCHANGED <<serverVars, owner, disturbances>>

\* status of a task that is gone, or that fails.
StatusFails(r) ==
  /\ rows[r].step \in {"status", "poll"}
  /\ \/ ~Listed(rows[r].task) /\ SetRow(r, Expired(rows[r]))
     \/ SetRow(r, Failed(rows[r]))
  /\ UNCHANGED <<serverVars, owner, disturbances>>

\* A request gets no answer any more: its page goes on.
GiveUp(q) ==
  /\ reqs[q].live
  /\ reqs' = Abandoned({q})
  /\ SetRow(reqs[q].row, Failed(rows[reqs[q].row]))
  /\ UNCHANGED <<kind, original, tasks, routines, stored, late, owner, disturbances>>
-----------------------------------------------------------------------------
(* Answers. *)

\* The request q is over; its row, if it still waits, becomes row.
Answer(q, row) ==
  /\ reqs' = [reqs EXCEPT ![q] = NoReq]
  /\ rows' = IF reqs[q].live THEN [rows EXCEPT ![reqs[q].row] = row] ELSE rows
RowOf(q) == rows[reqs[q].row]

\* 404, after a sweep or a restart.
AnswerExpired(q) ==
  /\ reqs[q].pc = "sent" /\ ~Listed(reqs[q].task)
  /\ ~(reqs[q].op = "transfer" /\ kind = "s3")
  /\ Answer(q, IF reqs[q].op = "transfer" THEN Failed(RowOf(q)) ELSE Expired(RowOf(q)))
  /\ UNCHANGED <<kind, original, tasks, routines, stored, late, owner, disturbances>>

\* The task cannot be written or retried, the storage does not answer, the
\* original is not there, or the request does not get through.
AnswerError(q) ==
  LET task == TaskOf(q) IN
  /\ \/ reqs[q].pc = "sent" /\ reqs[q].op = "transfer" /\ (kind = "s3" \/ task.phase # "waiting")
     \/ reqs[q].pc = "sent" /\ reqs[q].op = "retry" /\ ~(task.phase = "error" /\ task.saved /\ task.retryable)
     \/ reqs[q].pc = "sent" /\ ~reqs[q].live
     \/ reqs[q].pc = "stat"
     \/ At(q, "complete", "reply") /\ reqs[q].found \in {"absent", "pending"}
  /\ Answer(q, Failed(RowOf(q)))
  /\ UNCHANGED <<kind, original, tasks, routines, stored, late, owner, disturbances>>

\* A transfer fails while it is written: the body ends early, the file is not
\* the photo it was declared to be, the disk is full.
TransferFails(q) ==
  /\ At(q, "transfer", "write")
  /\ \E again \in BOOLEAN : tasks' = [tasks EXCEPT ![reqs[q].task] = FailTransfer(@, again)]
  /\ Answer(q, Failed(RowOf(q)))
  /\ UNCHANGED <<kind, original, routines, stored, late, owner, disturbances>>

\* The state verify answers is corrected by the task as it is by then.
Answered(q) ==
  CASE TaskOf(q).phase = "skipped" -> "skipped"
    [] TaskOf(q).phase # "skipped" /\ TaskOf(q).saved -> "saved"
    [] OTHER -> reqs[q].found

AnswerTask(q) ==
  /\ reqs[q].pc = "reply"
  /\ ~(reqs[q].op = "complete" /\ reqs[q].found \in {"absent", "pending"})
  /\ Answer(q, CASE reqs[q].op = "verify" -> Verified(RowOf(q), Answered(q), TaskOf(q))
                 [] reqs[q].op = "transfer" /\ kind = "s3" -> [RowOf(q) EXCEPT !.step = "complete"]
                 [] OTHER -> Finish(RowOf(q), TaskOf(q)))
  /\ UNCHANGED <<kind, original, tasks, routines, stored, late, owner, disturbances>>

\* The server restarts without its tasks; a direct transfer does not notice.
Restart ==
  /\ disturbances < MaxDisturbances /\ disturbances' = disturbances + 1
  /\ tasks' = [t \in Task |-> IF tasks[t].phase = "none" THEN NoTask ELSE Gone]
  /\ routines' = [t \in Task |-> 0]
  /\ LET direct(q) == reqs[q].op = "transfer" /\ kind = "s3"
     IN /\ reqs' = [q \in Request |-> IF direct(q) THEN reqs[q] ELSE NoReq]
        /\ rows' = [r \in Row |-> IF \E q \in Request : reqs[q].live /\ reqs[q].row = r /\ ~direct(q)
                                  THEN Failed(rows[r]) ELSE rows[r]]
  /\ UNCHANGED <<kind, original, stored, late, owner>>

\* Another program adds or removes a file.
Elsewhere ==
  /\ disturbances < MaxDisturbances /\ disturbances' = disturbances + 1
  /\ original' = IF FileThere THEN Nobody ELSE Stranger
  /\ UNCHANGED <<kind, tasks, routines, reqs, stored, late, rows, owner>>
-----------------------------------------------------------------------------
ServerGoesOn(q) == \/ Handle(q) /\ UNCHANGED <<rows, owner, disturbances>>
                   \/ AnswerExpired(q) \/ AnswerError(q) \/ TransferFails(q) \/ AnswerTask(q)
RowGoesOn(r) == \/ Send(r) \/ SendFails(r) \/ PrepareRow(r) \/ PrepareFails(r) \/ StatusFirst(r)
                \/ Poll(r) \/ PollEnds(r) \/ StatusFails(r)

Next == \/ \E r \in Row : Start(r) \/ Stop(r) \/ RowGoesOn(r)
        \/ \E q \in Request : ServerGoesOn(q) \/ GiveUp(q)
        \/ \E t \in Task : RoutineEnds(t) /\ UNCHANGED <<rows, owner, disturbances>>
        \/ Restart \/ Elsewhere

Spec == Init /\ [][Next]_vars

\* What a row waits for has a time limit on its page: 30 seconds a call, 15 minutes
\* a transfer, two minutes of polling.  Nothing is assumed of the server's work.
CalledFor(r) == \E q \in Request : /\ reqs[q].live /\ reqs[q].row = r
                                   /\ ServerGoesOn(q) \/ GiveUp(q)
FairSpec == Spec /\ \A r \in Row : WF_vars(RowGoesOn(r) \/ CalledFor(r))
-----------------------------------------------------------------------------
UploadInv == UploadTypeOK /\ RowTypeOK /\ ProcessingHasWork

\* "Saved" is only said of an original that a transfer of this very task put at
\* the path, whatever is found there when a transfer has no answer.
SavedIsStored ==
  /\ \A t \in Task : tasks[t].saved => t \in stored
  /\ \A r \in Row : rows[r].saved => rows[r].task \in stored

\* A row that nobody works on never shows work in progress: every end of a run,
\* by an answer, an error, a lost answer or a stop, leaves a decided phase.
RestingRowIsSettled ==
  \A r \in Row : ~Active(rows[r]) => rows[r].phase \notin {"uploading", "processing"}

\* A photo is not reported as skipped because of its own original: lost answers,
\* stops and transfers tried again end in "saved", unless a transfer of the row, or
\* the verdict of a verification, took effect only after its page had given it up.
OwnIsNotSkipped ==
  [][\A r \in Row : rows[r].phase # "skipped" /\ rows'[r].phase = "skipped" =>
       \A u \in Task : original.by = u => owner[u] # r \/ r \in late]_vars

\* Whatever is lost or fails, a row that was started comes to an end by itself
\* and can be gone on with or is finished.
RowsComeToRest == \A r \in Row : Active(rows[r]) ~> ~Active(rows[r])
=============================================================================
