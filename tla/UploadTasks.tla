----------------------------- MODULE UploadTasks -----------------------------
(***************************************************************************)
(* The server's side of uploads (upload.go): tasks in memory, their phase, *)
(* the transfer of a local photo, the verification of what a storage got   *)
(* directly from the browser, and the goroutine that brings a saved        *)
(* original into the album.  All tasks here are for one path of one target *)
(* (kind); other paths share only the table and its limit.                 *)
(*                                                                         *)
(* A request is a record of reqs.  Its page may have stopped waiting for   *)
(* it (live is FALSE) while the server still works on it.  The page is     *)
(* UploadBatch, which also has Init and Next.                              *)
(***************************************************************************)
EXTENDS Naturals, FiniteSets

CONSTANTS
  Task,     \* ids, drawn at random, never twice
  Request,  \* bound: requests under way at once
  Row,      \* photos chosen on pages
  Limit     \* tasks kept in memory (10000)

ASSUME UploadConstants == /\ IsFiniteSet(Task) /\ IsFiniteSet(Request)
                          /\ Limit \in Nat \ {0}
                          /\ {"none", "nobody", "stranger"} \cap Task = {}

VARIABLES
  kind,      \* target of the uploads: "local" or "s3"
  original,  \* whose photo is at the path, and whether its size is the declared one
  tasks,     \* uploadAPI.tasks and the tasks handlers still point to
  routines,  \* goroutines of start, per task
  reqs,      \* requests under way
  stored,    \* history: tasks whose transfer put the original at the path
  late       \* history: rows that gave up a request of which a transfer, or a verification's
             \* verdict, took effect later

serverVars == <<kind, original, tasks, routines, reqs, stored, late>>

Nobody   == [by |-> "nobody", fits |-> TRUE]
Stranger == [by |-> "stranger", fits |-> TRUE]  \* another program's file
PhotoOf(t, fits) == [by |-> t, fits |-> fits]

Phases == {"none", "waiting", "uploading", "processing", "done", "skipped", "error", "gone"}
TaskState == [listed : BOOLEAN, phase : Phases, saved : BOOLEAN,
              retryable : BOOLEAN,  \* Retryable: the processing may be tried again
              again : BOOLEAN,      \* TransferRetryable
              invalid : BOOLEAN]    \* Code is invalid_file
NoTask  == [listed |-> FALSE, phase |-> "none", saved |-> FALSE, retryable |-> FALSE,
            again |-> FALSE, invalid |-> FALSE]
Gone    == [NoTask EXCEPT !.phase = "gone"]  \* with the process that had it
Waiting == [NoTask EXCEPT !.listed = TRUE, !.phase = "waiting", !.retryable = TRUE, !.again = TRUE]

\* What verifySaved finds out: first the verdict of a Stat, then the answer.
Findings == {"none", "own", "unfit", "foreign", "absent", "pending", "saved", "skipped", "rejected"}
Ops    == {"verify", "complete", "retry", "transfer"}
NoReq  == [op |-> "none", task |-> "none", row |-> "none", live |-> FALSE, pc |-> "none", found |-> "none"]
ReqState == [op : Ops, task : Task, row : Row, live : BOOLEAN, found : Findings,
             pc : {"sent", "write", "linked", "stat", "act", "start", "reply"}]

UploadTypeOK ==
  /\ kind \in {"local", "s3"}
  /\ original \in {Nobody, Stranger} \cup [by : Task, fits : BOOLEAN]
  /\ tasks \in [Task -> TaskState] /\ routines \in [Task -> 0..Cardinality(Request)]
  /\ reqs \in [Request -> ReqState \cup {NoReq}]
  /\ stored \in SUBSET Task /\ late \in SUBSET Row

ServerInit ==
  /\ kind \in {"local", "s3"}
  /\ original \in {Nobody, Stranger}
  /\ tasks = [t \in Task |-> NoTask] /\ routines = [t \in Task |-> 0]
  /\ reqs = [q \in Request |-> NoReq]
  /\ stored = {} /\ late = {}
-----------------------------------------------------------------------------
(* Tasks: every change of one is a critical section of uploadAPI.mu. *)

TaskOf(q) == tasks[reqs[q].task]
Listed(t) == tasks[t].listed
ListedTasks == {t \in Task : Listed(t)}
FileThere == original # Nobody

\* failTransfer.
FailTransfer(task, again) ==
  [task EXCEPT !.phase = "error", !.retryable = FALSE, !.again = again, !.invalid = ~again]

\* Mutant: a task that was started before only gets its phase back.
StartOnce(t) ==
  IF tasks[t].phase \in {"processing", "done"} THEN UNCHANGED <<tasks, routines>>
  ELSE /\ tasks' = [tasks EXCEPT ![t] = [@ EXCEPT !.saved = TRUE, !.phase = "processing",
                                                  !.retryable = TRUE, !.again = FALSE, !.invalid = FALSE]]
       /\ routines' = [routines EXCEPT ![t] = IF tasks[t].saved THEN @ ELSE @ + 1]

\* The goroutine of a task starts, unless one is at work or has succeeded.
StartTask(t) ==
  IF tasks[t].phase \in {"processing", "done"} THEN UNCHANGED <<tasks, routines>>
  ELSE /\ tasks' = [tasks EXCEPT ![t] = [@ EXCEPT !.saved = TRUE, !.phase = "processing",
                                                  !.retryable = TRUE, !.again = FALSE, !.invalid = FALSE]]
       /\ routines' = [routines EXCEPT ![t] = @ + 1]

\* It ends when SyncKey returns: the photo is in the album, or something failed.
RoutineEnds(t) ==
  /\ routines[t] > 0
  /\ routines' = [routines EXCEPT ![t] = @ - 1]
  /\ \/ FileThere /\ tasks' = [tasks EXCEPT ![t].phase = "done"]
     \/ \E retryable \in BOOLEAN :
          tasks' = [tasks EXCEPT ![t].phase = "error", ![t].retryable = retryable]
  /\ UNCHANGED <<kind, original, reqs, stored, late>>

\* The sweep takes tasks that are old, which any task not in processing may be;
\* a full table gives up one that is finished.
MakeRoom(room) ==
  \E swept \in SUBSET {t \in ListedTasks : tasks[t].phase # "processing"} :
    LET kept == ListedTasks \ swept
        over == {t \in kept : tasks[t].phase \in {"done", "skipped"}}
    IN IF Cardinality(kept) < Limit \/ over = {} THEN room = kept
       ELSE \E t \in over : room = kept \ {t}

Keep(room) == [t \in Task |-> [tasks[t] EXCEPT !.listed = t \in room]]

\* prepare of a new task: it is skipped when there is a file of that name; the
\* signature of a direct transfer may fail.
Prepare(t) ==
  /\ tasks[t].phase = "none"
  /\ \E room \in SUBSET Task :
       /\ MakeRoom(room) /\ Cardinality(room) < Limit
       /\ \/ FileThere /\ tasks' = [Keep(room) EXCEPT ![t] = [Waiting EXCEPT !.phase = "skipped"]]
          \/ ~FileThere /\ tasks' = [Keep(room) EXCEPT ![t] = Waiting]
          \/ /\ ~FileThere /\ kind = "s3"
             /\ tasks' = [Keep(room) EXCEPT ![t] = [Waiting EXCEPT !.phase = "error", !.retryable = FALSE]]

\* prepare with a full table.
PrepareTooMany ==
  \E room \in SUBSET Task :
    /\ MakeRoom(room) /\ Cardinality(room) >= Limit
    /\ tasks' = Keep(room)
-----------------------------------------------------------------------------
(* Requests. *)

Free(q) == reqs[q] = NoReq
At(q, op, pc) == reqs[q].op = op /\ reqs[q].pc = pc
To(q, pc) == reqs' = [reqs EXCEPT ![q].pc = pc]
Finds(q, found) == reqs' = [reqs EXCEPT ![q].pc = "act", ![q].found = found]
\* The handler is done; it may have nobody to answer any more.
Replies(q, found) ==
  reqs' = [reqs EXCEPT ![q] = IF @.live THEN [@ EXCEPT !.pc = "reply", !.found = found] ELSE NoReq]
\* Pages go away, what the server works on stays.
Abandoned(Q) ==
  [q \in Request |-> IF q \notin Q THEN reqs[q]
                     ELSE IF reqs[q].pc = "reply" THEN NoReq
                     ELSE [reqs[q] EXCEPT !.live = FALSE]]
TakesEffect(q) == late' = IF reqs[q].live THEN late ELSE late \cup {reqs[q].row}
Verifies(q) == reqs[q].op \in {"verify", "complete"}

\* A transfer to the local directory claims its task.
Claim(q) ==
  /\ At(q, "transfer", "sent") /\ kind = "local"
  /\ Listed(reqs[q].task) /\ TaskOf(q).phase = "waiting"
  /\ tasks' = [tasks EXCEPT ![reqs[q].task].phase = "uploading"]
  /\ To(q, "write") /\ TakesEffect(q)
  /\ UNCHANGED <<kind, original, routines, stored>>

\* The temporary file is complete and gets the name of the photo, if it is free.
Link(q) ==
  /\ At(q, "transfer", "write") /\ ~FileThere
  /\ original' = PhotoOf(reqs[q].task, TRUE) /\ stored' = stored \cup {reqs[q].task}
  /\ To(q, "linked")
  /\ UNCHANGED <<kind, tasks, routines, late>>

LinkExists(q) ==
  /\ At(q, "transfer", "write") /\ FileThere
  /\ tasks' = [tasks EXCEPT ![reqs[q].task].phase = "skipped"]
  /\ Replies(q, "none")
  /\ UNCHANGED <<kind, original, routines, stored, late>>

\* The photo is saved: its processing starts.
Linked(q) ==
  /\ At(q, "transfer", "linked")
  /\ StartTask(reqs[q].task)
  /\ Replies(q, "none")
  /\ UNCHANGED <<kind, original, stored, late>>

\* Mutant: what the server remembers of a transfer under way counts as nothing.
VerdictOfPhase(task) ==
  CASE task.saved -> "saved"
    [] ~task.saved /\ task.phase = "skipped" -> "skipped"
    [] ~task.saved /\ task.phase # "skipped" /\ task.invalid -> "rejected"
    [] OTHER -> IF kind = "s3" THEN "none" ELSE "absent"

\* verifySaved up to its Stat: what the task alone tells.
Verdict(task) ==
  CASE task.saved -> "saved"
    [] ~task.saved /\ task.phase = "skipped" -> "skipped"
    [] ~task.saved /\ task.phase # "skipped" /\ task.invalid -> "rejected"
    [] OTHER -> IF kind = "s3" THEN "none"
                ELSE IF task.phase = "uploading" THEN "pending" ELSE "absent"

LookAtTask(q) ==
  /\ Verifies(q) /\ reqs[q].pc = "sent" /\ Listed(reqs[q].task)
  /\ LET v == Verdict(TaskOf(q)) IN IF v = "none" THEN To(q, "stat") ELSE Replies(q, v)
  /\ UNCHANGED <<kind, original, tasks, routines, stored, late>>

\* Mutant: any object at the path is taken for the task's.
FoundUnmarked(t) ==
  CASE original = Nobody -> "absent"
    [] original # Nobody /\ ~original.fits -> "unfit"
    [] OTHER -> "own"

\* Objects carry the mark of the task that wrote them.
Found(t) ==
  CASE original = Nobody -> "absent"
    [] original # Nobody /\ original.by # t -> "foreign"
    [] original # Nobody /\ original.by = t -> IF original.fits THEN "own" ELSE "unfit"

StatObject(q) ==
  /\ Verifies(q) /\ reqs[q].pc = "stat"
  /\ Finds(q, Found(reqs[q].task))
  /\ UNCHANGED <<kind, original, tasks, routines, stored, late>>

\* What follows from the Stat, however the task has changed since.
ActOnFinding(q) ==
  LET t == reqs[q].task IN
  /\ Verifies(q) /\ reqs[q].pc = "act"
  /\ \/ reqs[q].found = "absent" /\ Replies(q, "absent") /\ UNCHANGED <<tasks, routines, late>>
     \/ /\ reqs[q].found = "foreign" /\ Replies(q, "skipped") /\ TakesEffect(q)
        /\ tasks' = [tasks EXCEPT ![t].phase = IF tasks[t].saved THEN @ ELSE "skipped"]
        /\ UNCHANGED routines
     \/ /\ reqs[q].found = "unfit" /\ Replies(q, "rejected")
        /\ tasks' = [tasks EXCEPT ![t] = FailTransfer(@, FALSE)]
        /\ UNCHANGED <<routines, late>>
     \/ reqs[q].found = "own" /\ Replies(q, "saved") /\ StartTask(t) /\ UNCHANGED late
  /\ UNCHANGED <<kind, original, stored>>

\* retry looks at the task, and starts it in another critical section.
LookBeforeRetry(q) ==
  /\ At(q, "retry", "sent") /\ Listed(reqs[q].task)
  /\ TaskOf(q).phase = "error" /\ TaskOf(q).saved /\ TaskOf(q).retryable
  /\ To(q, "start")
  /\ UNCHANGED <<kind, original, tasks, routines, stored, late>>

RetryStarts(q) ==
  /\ At(q, "retry", "start")
  /\ StartTask(reqs[q].task)
  /\ Replies(q, "none")
  /\ UNCHANGED <<kind, original, stored, late>>

\* A direct transfer reaches the storage, which refuses to overwrite (412 is
\* answered to the page like a success).  A storage that keeps another size than
\* the signed one is what verifySaved looks for.
Land(q) ==
  /\ At(q, "transfer", "sent") /\ kind = "s3"
  /\ IF FileThere THEN UNCHANGED <<original, stored>>
     ELSE /\ \E fits \in BOOLEAN : original' = PhotoOf(reqs[q].task, fits)
          /\ stored' = stored \cup {reqs[q].task}
  /\ Replies(q, "none") /\ TakesEffect(q)
  /\ UNCHANGED <<kind, tasks, routines>>

\* Handler steps that are not yet the answer.
Handle(q) == \/ Claim(q) \/ Link(q) \/ LinkExists(q) \/ Linked(q) \/ LookAtTask(q) \/ StatObject(q)
             \/ ActOnFinding(q) \/ LookBeforeRetry(q) \/ RetryStarts(q) \/ Land(q)

\* A task that says it is being processed has a goroutine that will say how it
\* ended, whatever order verifications, transfers, retries and failures write
\* its phase in.
ProcessingHasWork == \A t \in Task : tasks[t].phase = "processing" => routines[t] > 0
=============================================================================
