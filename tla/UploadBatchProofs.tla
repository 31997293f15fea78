------------------------- MODULE UploadBatchProofs -------------------------
(* Proofs about UploadBatch and UploadTasks: for any tasks, requests and rows, *)
(* any limit of the table and any number of disturbances.                     *)
EXTENDS UploadBatch, FiniteSetTheorems, TLAPS

\* What has happened to the original is known, or the transfer has failed.
Decided(task) == task.saved \/ task.phase \in {"skipped", "error"}
Known(task) == task.phase \notin {"none", "gone"}
Lost(task) == task.phase = "gone"

\* A task that is saved has an original; only such a task is or was processed,
\* and one that is has a goroutine.
TaskSound(t) ==
  LET task == tasks[t] IN
  /\ task.saved => t \in stored /\ task.phase \in {"processing", "done", "error"}
  /\ task.phase \in {"processing", "done"} => task.saved
  /\ task.phase = "processing" => routines[t] > 0
  /\ routines[t] > 0 => task.saved
  /\ task.listed => Known(task)
  /\ task.invalid => Decided(task)

\* Verifications that do not know what has become of the task since they looked.
Looking(t) == {q \in Request : reqs[q].pc \in {"stat", "act"} /\ reqs[q].task = t}

\* Each such verification may fail a saved task once, and start it again.
Bound(t) ==
  tasks[t].saved =>
    routines[t] + Cardinality(Looking(t)) + (IF tasks[t].phase \in {"processing", "done"} THEN 0 ELSE 1)
      <= Cardinality(Request)

RoutinesBounded == \A t \in Task : Bound(t)

\* What the server knows of the task of a request when it comes to its steps.
Direct(m) == m.op = "transfer" /\ kind = "s3"
PlaceSound(m) ==
  LET task == tasks[m.task] IN
  /\ m.pc = "sent" \/ Direct(m) \/ Known(task)
  /\ m.pc \in {"write", "linked"} => /\ m.op = "transfer" /\ kind = "local"
                                     /\ task.phase = "uploading" /\ ~task.saved
  /\ m.pc = "linked" => m.task \in stored
  /\ m.pc \in {"stat", "act"} => m.op \in {"verify", "complete"} /\ kind = "s3"
  /\ m.pc = "act" /\ m.found = "own" => m.task \in stored
  /\ m.pc = "start" => m.op = "retry" /\ task.saved
  /\ m.pc = "reply" =>
       /\ m.op \in {"verify", "complete"} =>
            m.found \in {"absent", "pending", "saved", "skipped", "rejected"}
       /\ \/ m.op = "retry"
          \/ m.op = "transfer" /\ kind = "local"
          \/ m.op \in {"verify", "complete"} /\ m.found \in {"saved", "skipped", "rejected"}
          => Decided(task)

\* The row a request is answered to still has its task, and waits for it.
ReqSound(m) ==
  \/ m = NoReq
  \/ /\ m \in ReqState
     /\ m.live => rows[m.row].task = m.task /\ rows[m.row].step = m.op
     /\ PlaceSound(m)

\* A row waits for one request, a task is written by one.
RequestsApart ==
  \A p, q \in Request :
    /\ reqs[p].live /\ reqs[q].live /\ reqs[p].row = reqs[q].row => p = q
    /\ /\ reqs[p].pc \in {"write", "linked"} /\ reqs[q].pc \in {"write", "linked"}
       /\ reqs[p].task = reqs[q].task
       => p = q

\* What a row does next fits what it knows.
Settled(row) == row.phase \notin {"uploading", "processing"}
RowShape(row) ==
  /\ row \in RowState
  /\ row.plan \/ row.saved \/ row.step \in Calls \cup {"status", "poll"} => row.task \in Task
  /\ row.step = "prepare" => ~row.saved
  /\ row.step \in {"status", "poll"} => row.saved
  /\ row.step = "idle" => Settled(row)
RowSaved(row) == row.saved => row.task \in stored /\ (tasks[row.task].saved \/ Lost(tasks[row.task]))

ServerTypes ==
  /\ kind \in {"local", "s3"}
  /\ original \in {Nobody, Stranger} \cup [by : Task, fits : BOOLEAN]
  /\ tasks \in [Task -> TaskState] /\ routines \in [Task -> Nat]
  /\ stored \in SUBSET Task /\ late \in SUBSET Row
  /\ original.by \in Task => original.by \in stored

UploadIInv ==
  /\ ServerTypes
  /\ \A t \in Task : TaskSound(t)
  /\ RoutinesBounded
  /\ DOMAIN reqs = Request /\ \A q \in Request : ReqSound(reqs[q])
  /\ RequestsApart
  /\ DOMAIN rows = Row /\ \A r \in Row : RowShape(rows[r]) /\ RowSaved(rows[r])
  /\ owner \in [Task -> Row \cup {"none"}] /\ disturbances \in 0..MaxDisturbances
-----------------------------------------------------------------------------
(* What an answer makes of a row. *)

USE UploadConstants, BatchConstants

LEMMA RestFields ==
  ASSUME NEW row \in RowState
  PROVE  /\ Rest(row) \in RowState
         /\ Rest(row).step = "idle" /\ Rest(row).phase = row.phase
         /\ Rest(row).saved = row.saved /\ Rest(row).task = row.task /\ Rest(row).plan = row.plan
         /\ Rest(row).absent = row.absent /\ Rest(row).blocked = row.blocked
  BY DEF Rest, RowState

\* A row at rest with a settled phase is in shape, whatever else it knows.
LEMMA SettledShape ==
  ASSUME NEW row \in RowState, row.step = "idle", Settled(row), row.plan \/ row.saved => row.task \in Task
  PROVE  RowShape(row)
  BY DEF RowShape, Calls

LEMMA UnsureShape ==
  ASSUME NEW row, RowShape(row)
  PROVE  RowShape(Unsure(row)) /\ Unsure(row).task = row.task /\ Unsure(row).saved = row.saved
  <1>1. row \in RowState /\ (row.plan \/ row.saved => row.task \in Task)
    BY DEF RowShape
  <1>2. /\ Unsure(row) \in RowState /\ Unsure(row).step = "idle"
        /\ Unsure(row).phase \in {"waiting", "uncertain"}
        /\ Unsure(row).saved = row.saved /\ Unsure(row).task = row.task /\ Unsure(row).plan = row.plan
    <2>. DEFINE rest == Rest(row)
    <2>1. /\ rest \in RowState /\ rest.step = "idle"
          /\ rest.saved = row.saved /\ rest.task = row.task /\ rest.plan = row.plan
      BY <1>1, RestFields
    <2>2. Unsure(row) = [rest EXCEPT !.phase = IF row.saved THEN "waiting" ELSE "uncertain", !.blocked = FALSE]
      BY DEF Unsure
    <2>. HIDE DEF rest
    <2>. QED
      BY <2>1, <2>2 DEF RowState
  <1>. QED
    BY <1>1, <1>2, SettledShape DEF Settled

LEMMA ExpiredShape ==
  ASSUME NEW row, RowShape(row)
  PROVE  RowShape(Expired(row)) /\ Expired(row).task = row.task /\ Expired(row).saved = row.saved
  <1>1. row \in RowState /\ (row.plan \/ row.saved => row.task \in Task)
    BY DEF RowShape
  <1>2. /\ Expired(row) \in RowState /\ Expired(row).step = "idle" /\ Expired(row).phase = "expired"
        /\ Expired(row).saved = row.saved /\ Expired(row).task = row.task /\ Expired(row).plan = row.plan
    <2>. DEFINE rest == Rest(row)
    <2>1. /\ rest \in RowState /\ rest.step = "idle"
          /\ rest.saved = row.saved /\ rest.task = row.task /\ rest.plan = row.plan
      BY <1>1, RestFields
    <2>2. Expired(row) = [rest EXCEPT !.phase = "expired", !.blocked = TRUE]
      BY DEF Expired
    <2>. HIDE DEF rest
    <2>. QED
      BY <2>1, <2>2 DEF RowState
  <1>. QED
    BY <1>1, <1>2, SettledShape DEF Settled

LEMMA RecoverShape ==
  ASSUME NEW row, RowShape(row), row.task \in Task
  PROVE  /\ RowShape(Recover(row)) /\ Recover(row).task = row.task /\ Recover(row).saved = row.saved
         /\ Recover(row).step # "idle"
  <1>1. row \in RowState
    BY DEF RowShape
  <1>2. /\ Recover(row) \in RowState /\ Recover(row).step = (IF row.saved THEN "status" ELSE "verify")
        /\ Recover(row).saved = row.saved /\ Recover(row).task = row.task
    BY <1>1 DEF Recover, RowState, Calls
  <1>. QED
    BY <1>2 DEF RowShape, Calls

\* A failure leaves a row settled, or asks about its original.
LEMMA FailedShape ==
  ASSUME NEW row, RowShape(row)
  PROVE  RowShape(Failed(row)) /\ Failed(row).task = row.task /\ Failed(row).saved = row.saved
  <1>1. row \in RowState /\ (row.plan \/ row.saved => row.task \in Task)
    BY DEF RowShape
  <1>2. CASE row.task = "none"
    <2>. DEFINE rest == Rest(row)
                new == [rest EXCEPT !.phase = "error", !.absent = TRUE]
    <2>1. /\ rest \in RowState /\ rest.step = "idle"
          /\ rest.saved = row.saved /\ rest.task = row.task /\ rest.plan = row.plan
      BY <1>1, RestFields
    <2>2. Failed(row) = new
      BY <1>2 DEF Failed
    <2>. HIDE DEF rest
    <2>3. /\ new \in RowState /\ new.step = "idle" /\ new.phase = "error"
          /\ new.saved = row.saved /\ new.task = row.task /\ new.plan = row.plan
      BY <2>1 DEF RowState
    <2>. QED
      BY <1>1, <2>2, <2>3, SettledShape DEF Settled
  <1>3. CASE row.task # "none"
    <2>1. row.task \in Task
      BY <1>1, <1>3 DEF RowState
    <2>. QED
      BY <1>3, <2>1, UnsureShape, RecoverShape DEF Failed
  <1>. QED
    BY <1>2, <1>3

LEMMA SetTaskFields ==
  ASSUME NEW row \in RowState, NEW task \in TaskState
  PROVE  /\ SetTask(row, task) \in RowState
         /\ SetTask(row, task).saved = (row.saved \/ task.saved)
         /\ SetTask(row, task).task = row.task /\ SetTask(row, task).plan = row.plan
         /\ SetTask(row, task).step = row.step /\ SetTask(row, task).phase = row.phase
  <1>1. CASE task.saved
    <2>1. SetTask(row, task) = [row EXCEPT !.saved = TRUE, !.absent = FALSE]
      BY <1>1 DEF SetTask
    <2>. QED
      BY <1>1, <2>1 DEF RowState
  <1>2. CASE ~task.saved
    <2>1. SetTask(row, task) = row /\ row.saved \in BOOLEAN
      BY <1>2 DEF SetTask, RowState
    <2>. QED
      BY <1>2, <2>1
  <1>. QED
    BY <1>1, <1>2

\* What the page shows of a task: of one that is decided, a settled phase or that
\* it is processed.
LEMMA ShowTaskFields ==
  ASSUME NEW row \in RowState, NEW task \in TaskState
  PROVE  /\ ShowTask(row, task) \in RowState
         /\ ShowTask(row, task).saved = (row.saved \/ task.saved)
         /\ ShowTask(row, task).task = row.task
         /\ ShowTask(row, task).plan => row.plan
         /\ ShowTask(row, task).step = row.step
         /\ task.phase \in {"skipped", "error"} \/ (task.saved /\ task.phase = "done")
              => Settled(ShowTask(row, task))
  <1>. DEFINE set == SetTask(row, task)
  <1>1. /\ set \in RowState /\ set.saved = (row.saved \/ task.saved)
        /\ set.task = row.task /\ set.plan = row.plan /\ set.step = row.step
        /\ task.retryable \in BOOLEAN /\ task.again \in BOOLEAN
    BY SetTaskFields DEF TaskState
  <1>. HIDE DEF set
  <1>. DEFINE a == [set EXCEPT !.phase = "skipped", !.blocked = TRUE]
              b == [set EXCEPT !.phase = "done", !.blocked = TRUE]
              c == [set EXCEPT !.phase = "processing", !.blocked = FALSE]
              d == [set EXCEPT !.phase = "error", !.blocked = ~task.retryable]
              e == [set EXCEPT !.phase = "error", !.blocked = ~task.again, !.absent = TRUE, !.plan = FALSE]
  <1>2. /\ a \in RowState /\ a.phase = "skipped" /\ a.saved = set.saved /\ a.task = set.task
        /\ a.plan = set.plan /\ a.step = set.step
    BY <1>1 DEF RowState
  <1>3. /\ b \in RowState /\ b.phase = "done" /\ b.saved = set.saved /\ b.task = set.task
        /\ b.plan = set.plan /\ b.step = set.step
    BY <1>1 DEF RowState
  <1>4. /\ c \in RowState /\ c.phase = "processing" /\ c.saved = set.saved /\ c.task = set.task
        /\ c.plan = set.plan /\ c.step = set.step
    BY <1>1 DEF RowState
  <1>5. /\ d \in RowState /\ d.phase = "error" /\ d.saved = set.saved /\ d.task = set.task
        /\ d.plan = set.plan /\ d.step = set.step
    <2>1. PICK blocked \in BOOLEAN : blocked = ~task.retryable
      OBVIOUS
    <2>2. d = [set EXCEPT !.phase = "error", !.blocked = blocked]
      BY <2>1
    <2>. HIDE DEF d
    <2>. QED
      BY <1>1, <2>2 DEF RowState
  <1>6. /\ e \in RowState /\ e.phase = "error" /\ e.saved = set.saved /\ e.task = set.task
        /\ ~e.plan /\ e.step = set.step
    <2>1. PICK blocked \in BOOLEAN : blocked = ~task.again
      OBVIOUS
    <2>2. e = [set EXCEPT !.phase = "error", !.blocked = blocked, !.absent = TRUE, !.plan = FALSE]
      BY <2>1
    <2>. HIDE DEF e
    <2>. QED
      BY <1>1, <2>2 DEF RowState
  <1>. HIDE DEF a, b, c, d, e
  <1>7. \/ ShowTask(row, task) = a /\ task.phase = "skipped"
        \/ ShowTask(row, task) = b /\ task.phase = "done"
        \/ ShowTask(row, task) = c /\ task.phase = "processing"
        \/ ShowTask(row, task) \in {d, e} /\ task.phase = "error"
        \/ ShowTask(row, task) = set /\ task.phase \notin {"skipped", "error"} /\ ~(task.saved /\ task.phase = "done")
    BY DEF ShowTask, set, a, b, c, d, e
  <1>. QED
    BY <1>1, <1>2, <1>3, <1>4, <1>5, <1>6, <1>7 DEF Settled

\* Asking for the state of a task that is decided ends settled, or goes on asking.
LEMMA FinishShape ==
  ASSUME NEW row, RowShape(row), row.task \in Task, NEW task \in TaskState,
         Decided(task) /\ (task.saved => task.phase \in {"processing", "done", "error"}),
         task.phase = "processing" => task.saved
  PROVE  /\ RowShape(Finish(row, task)) /\ Finish(row, task).task = row.task
         /\ Finish(row, task).saved = (row.saved \/ task.saved)
  <1>. DEFINE shown == ShowTask(row, task)
  <1>1. /\ shown \in RowState /\ shown.saved = (row.saved \/ task.saved) /\ shown.task = row.task
        /\ task.phase # "processing" => Settled(shown)
    BY ShowTaskFields DEF RowShape, Decided
  <1>2. CASE task.phase = "processing"
    <2>1. Finish(row, task) = [shown EXCEPT !.step = "poll"]
      BY <1>2 DEF Finish
    <2>. HIDE DEF shown
    <2>2. /\ Finish(row, task) \in RowState /\ Finish(row, task).step = "poll"
          /\ Finish(row, task).saved = shown.saved /\ Finish(row, task).task = shown.task
      BY <1>1, <2>1 DEF RowState, Calls
    <2>. QED
      BY <1>1, <1>2, <2>2 DEF RowShape, Calls
  <1>3. CASE task.phase # "processing"
    <2>1. Finish(row, task) = Rest(shown)
      BY <1>3 DEF Finish
    <2>. HIDE DEF shown
    <2>2. /\ Finish(row, task) \in RowState /\ Finish(row, task).step = "idle"
          /\ Finish(row, task).phase = shown.phase
          /\ Finish(row, task).saved = shown.saved /\ Finish(row, task).task = shown.task
      BY <1>1, <2>1, RestFields
    <2>3. Settled(Finish(row, task))
      BY <1>1, <1>3, <2>2 DEF Settled
    <2>. QED
      BY <1>1, <2>2, <2>3, SettledShape
  <1>. QED
    BY <1>2, <1>3

\* The answer of a verification ends settled, or goes on asking.
LEMMA VerifiedShape ==
  ASSUME NEW row, RowShape(row), row.task \in Task, NEW task \in TaskState, NEW state,
         state \in {"skipped", "rejected"} \/ row.saved => Decided(task),
         task.saved => task.phase \in {"processing", "done", "error"},
         task.phase = "processing" => task.saved
  PROVE  /\ RowShape(Verified(row, state, task)) /\ Verified(row, state, task).task = row.task
         /\ Verified(row, state, task).saved = (row.saved \/ task.saved)
  <1>. DEFINE set == SetTask(row, task)
              new == Verified(row, state, task)
  <1>1. row \in RowState /\ row.step \in {"idle", "status", "poll", "prepare"} \cup Calls
    BY DEF RowShape, RowState
  <1>2. /\ set \in RowState /\ set.saved = (row.saved \/ task.saved)
        /\ set.task = row.task /\ set.plan = row.plan /\ set.step = row.step /\ set.phase = row.phase
    BY <1>1, SetTaskFields
  <1>3. CASE set.saved
    <2>1. new = Finish(set, task)
      BY <1>3 DEF Verified
    <2>2. Decided(task)
      BY <1>2, <1>3 DEF Decided
    <2>. HIDE DEF set, new
    <2>. DEFINE shown == ShowTask(set, task)
    <2>3. /\ shown \in RowState /\ shown.saved /\ shown.task = row.task
          /\ task.phase # "processing" => Settled(shown)
      BY <1>2, <1>3, <2>2, ShowTaskFields DEF Decided
    <2>4. CASE task.phase = "processing"
      <3>1. new = [shown EXCEPT !.step = "poll"]
        BY <2>1, <2>4 DEF Finish
      <3>. HIDE DEF shown
      <3>2. new \in RowState /\ new.step = "poll" /\ new.saved /\ new.task = row.task
        BY <2>3, <3>1 DEF RowState, Calls
      <3>. QED
        BY <1>2, <1>3, <3>2 DEF RowShape, Calls, new
    <2>5. CASE task.phase # "processing"
      <3>1. new = Rest(shown)
        BY <2>1, <2>5 DEF Finish
      <3>. HIDE DEF shown
      <3>2. /\ new \in RowState /\ new.step = "idle" /\ new.phase = shown.phase
            /\ new.saved /\ new.task = row.task
        BY <2>3, <3>1, RestFields
      <3>3. Settled(new)
        BY <2>3, <2>5, <3>2 DEF Settled
      <3>. QED
        BY <1>2, <1>3, <3>2, <3>3, SettledShape DEF new
    <2>. QED
      BY <2>4, <2>5
  <1>4. CASE ~set.saved /\ state \in {"skipped", "rejected"}
    <2>1. new = Rest(ShowTask(row, task)) \/ new = Rest(ShowTask(set, task))
      BY <1>4 DEF Verified
    <2>2. set = row /\ ~task.saved /\ ~row.saved /\ task.phase \in {"skipped", "error"}
      BY <1>2, <1>4 DEF SetTask, Decided
    <2>. DEFINE shown == ShowTask(row, task)
    <2>3. /\ shown \in RowState /\ shown.saved = (row.saved \/ task.saved)
          /\ shown.task = row.task /\ Settled(shown)
      BY <1>1, <2>2, ShowTaskFields
    <2>4. new = Rest(shown)
      BY <2>1, <2>2
    <2>. HIDE DEF shown, new, set
    <2>5. /\ new \in RowState /\ new.step = "idle" /\ new.phase = shown.phase
          /\ new.saved = (row.saved \/ task.saved) /\ new.task = row.task
      BY <2>3, <2>4, RestFields
    <2>6. Settled(new)
      BY <2>3, <2>5 DEF Settled
    <2>. QED
      BY <2>2, <2>5, <2>6, SettledShape DEF new
  <1>5. CASE ~set.saved /\ state = "absent"
    <2>. DEFINE rest == Rest(set)
    <2>1. /\ rest \in RowState /\ rest.step = "idle" /\ rest.saved = (row.saved \/ task.saved)
          /\ rest.task = row.task
      BY <1>2, RestFields
    <2>2. PICK blocked \in BOOLEAN, plan \in BOOLEAN :
            new = [rest EXCEPT !.absent = TRUE, !.phase = "error", !.blocked = blocked, !.plan = plan]
      <3>1. new = [rest EXCEPT !.absent = TRUE, !.phase = "error", !.blocked = ~task.again,
                               !.plan = set.plan /\ task.phase = "waiting"]
        BY <1>5 DEF Verified
      <3>2. (set.plan /\ task.phase = "waiting") \in BOOLEAN /\ (~task.again) \in BOOLEAN
        OBVIOUS
      <3>. HIDE DEF rest, new
      <3>. QED
        BY <3>1, <3>2
    <2>. HIDE DEF rest
    <2>4. /\ new \in RowState /\ new.step = "idle" /\ new.phase = "error"
          /\ new.saved = (row.saved \/ task.saved) /\ new.task = row.task
      BY <2>1, <2>2 DEF RowState
    <2>5. Settled(new)
      BY <2>4 DEF Settled
    <2>. QED
      BY <2>4, <2>5, SettledShape
  <1>6. CASE ~set.saved /\ state \notin {"skipped", "rejected", "absent"}
    <2>1. new = Unsure(set)
      BY <1>6 DEF Verified
    <2>2. set = row /\ row.saved = (row.saved \/ task.saved)
      BY <1>2, <1>6 DEF SetTask
    <2>. QED
      BY <2>1, <2>2, UnsureShape
  <1>. QED
    BY <1>3, <1>4, <1>5, <1>6

\* A row starts with a call that fits what it knows.
LEMMA FirstStepShape ==
  ASSUME NEW row, RowShape(row), NEW old \in BOOLEAN
  PROVE  /\ RowShape(FirstStep(row, old)) /\ FirstStep(row, old).task = row.task
         /\ FirstStep(row, old).saved = row.saved
  <1>. DEFINE new == FirstStep(row, old)
  <1>1. row \in RowState /\ (row.plan \/ row.saved => row.task \in Task)
    BY DEF RowShape
  <1>2. CASE row.saved
    <2>1. new = [row EXCEPT !.step = "status", !.failed = row.phase = "error"]
      BY <1>2 DEF FirstStep
    <2>2. new \in RowState /\ new.step = "status" /\ new.saved = row.saved /\ new.task = row.task
      BY <1>1, <2>1 DEF RowState
    <2>. QED
      BY <1>1, <1>2, <2>2 DEF RowShape, Calls
  <1>3. CASE ~row.saved /\ row.task # "none" /\ ~row.absent
    <2>1. row.task \in Task
      BY <1>1, <1>3 DEF RowState
    <2>. QED
      BY <1>3, <2>1, RecoverShape DEF FirstStep
  <1>4. CASE /\ ~row.saved /\ ~(row.task # "none" /\ ~row.absent)
             /\ ~row.plan \/ (kind = "s3" /\ old)
    <2>1. new = [row EXCEPT !.step = "prepare", !.phase = "uploading", !.plan = FALSE]
      BY <1>4 DEF FirstStep
    <2>2. /\ new \in RowState /\ new.step = "prepare" /\ new.saved = row.saved
          /\ new.task = row.task /\ ~new.plan
      BY <1>1, <2>1 DEF RowState
    <2>. QED
      BY <1>1, <1>4, <2>2 DEF RowShape, Calls
  <1>5. CASE /\ ~row.saved /\ ~(row.task # "none" /\ ~row.absent)
             /\ ~(~row.plan \/ (kind = "s3" /\ old))
    <2>1. new = Transferring(row)
      BY <1>5 DEF FirstStep
    <2>2. /\ new \in RowState /\ new.step = "transfer" /\ new.saved = row.saved
          /\ new.task = row.task
      BY <1>1, <2>1 DEF Transferring, RowState, Calls
    <2>. QED
      BY <1>1, <1>5, <2>2 DEF RowShape, Calls
  <1>. QED
    BY <1>2, <1>3, <1>4, <1>5

\* A stop leaves a settled phase.
LEMMA StoppedShape ==
  ASSUME NEW row, RowShape(row)
  PROVE  /\ RowShape(Rest(Stopped(row))) /\ Rest(Stopped(row)).task = row.task
         /\ Rest(Stopped(row)).saved = row.saved
  <1>1. row \in RowState /\ (row.plan \/ row.saved => row.task \in Task)
    BY DEF RowShape
  <1>2. /\ Unsure(row) \in RowState /\ Settled(Unsure(row)) /\ Unsure(row).task = row.task
        /\ Unsure(row).saved = row.saved /\ Unsure(row).plan = row.plan
    <2>. DEFINE rest == Rest(row)
    <2>1. /\ rest \in RowState /\ rest.saved = row.saved /\ rest.task = row.task /\ rest.plan = row.plan
      BY <1>1, RestFields
    <2>2. Unsure(row) = [rest EXCEPT !.phase = IF row.saved THEN "waiting" ELSE "uncertain", !.blocked = FALSE]
      BY DEF Unsure
    <2>. HIDE DEF rest
    <2>. QED
      BY <2>1, <2>2 DEF RowState, Settled
  <1>3. /\ Stopped(row) \in RowState /\ Settled(Stopped(row)) /\ Stopped(row).task = row.task
        /\ Stopped(row).saved = row.saved /\ Stopped(row).plan = row.plan
    <2>. DEFINE a == [row EXCEPT !.phase = "waiting"]
                b == [row EXCEPT !.phase = "cancelled"]
    <2>1. a \in RowState /\ a.phase = "waiting" /\ a.saved = row.saved /\ a.task = row.task /\ a.plan = row.plan
      BY <1>1 DEF RowState
    <2>2. b \in RowState /\ b.phase = "cancelled" /\ b.saved = row.saved /\ b.task = row.task /\ b.plan = row.plan
      BY <1>1 DEF RowState
    <2>. HIDE DEF a, b
    <2>3. \/ Stopped(row) \in {a, b, Unsure(row)}
          \/ Stopped(row) = row /\ row.phase \in {"done", "skipped", "error", "expired"}
      BY DEF Stopped, a, b
    <2>. QED
      BY <1>1, <1>2, <2>1, <2>2, <2>3 DEF Settled
  <1>4. /\ Rest(Stopped(row)) \in RowState /\ Rest(Stopped(row)).step = "idle"
        /\ Rest(Stopped(row)).phase = Stopped(row).phase /\ Rest(Stopped(row)).saved = row.saved
        /\ Rest(Stopped(row)).task = row.task /\ Rest(Stopped(row)).plan = row.plan
    BY <1>3, RestFields
  <1>. QED
    BY <1>1, <1>3, <1>4, SettledShape DEF Settled
-----------------------------------------------------------------------------
(* What a step of the server leaves to requests and rows that it is not about. *)

\* What was known of tasks stays known, outside a restart.
TasksAdvance ==
  \A t \in Task :
    /\ tasks[t].saved => tasks'[t].saved
    /\ Lost(tasks[t]) => Lost(tasks'[t])
    /\ Known(tasks[t]) => Known(tasks'[t])
    /\ Decided(tasks[t]) => Decided(tasks'[t])

\* Nobody but its transfer changes a task that is being written.
WritersStay(p) ==
  reqs[p].pc \in {"write", "linked"} =>
    /\ tasks'[reqs[p].task].phase = tasks[reqs[p].task].phase
    /\ tasks'[reqs[p].task].saved = tasks[reqs[p].task].saved

LEMMA RequestFields ==
  ASSUME UploadIInv, NEW q \in Request
  PROVE  /\ ReqSound(reqs[q])
         /\ reqs[q] = NoReq \/ reqs[q] \in ReqState
         /\ reqs[q].pc # "none" \/ reqs[q].op # "none" \/ reqs[q].live =>
              /\ reqs[q] \in ReqState /\ reqs[q].task \in Task /\ reqs[q].row \in Row
              /\ PlaceSound(reqs[q])
              /\ reqs[q].live => rows[reqs[q].row].task = reqs[q].task /\ rows[reqs[q].row].step = reqs[q].op
         /\ reqs[q].pc = "none" <=> reqs[q] = NoReq
  BY DEF UploadIInv, ReqSound, NoReq, ReqState

LEMMA TaskFields ==
  ASSUME UploadIInv, NEW t \in Task
  PROVE  /\ tasks[t] \in TaskState /\ TaskSound(t) /\ routines[t] \in Nat
         /\ tasks[t].listed \in BOOLEAN /\ tasks[t].saved \in BOOLEAN /\ tasks[t].phase \in Phases
         /\ tasks[t].retryable \in BOOLEAN /\ tasks[t].again \in BOOLEAN /\ tasks[t].invalid \in BOOLEAN
  BY DEF UploadIInv, ServerTypes, TaskState

\* A request that is not the one of the step, answered to nobody new.
LEMMA OtherRequest ==
  ASSUME UploadIInv, NEW q \in Request, NEW m,
         m = reqs[q] \/ (reqs[q] # NoReq /\ m = [reqs[q] EXCEPT !.live = FALSE]),
         m.live => rows'[m.row] = rows[m.row],
         kind' = kind, stored \subseteq stored', TasksAdvance, WritersStay(q)
  PROVE  /\ (m = NoReq \/ m \in ReqState) /\ (m.live => reqs[q].live)
         /\ m.op = reqs[q].op /\ m.task = reqs[q].task /\ m.row = reqs[q].row
         /\ m.pc = reqs[q].pc /\ m.found = reqs[q].found
         /\ \/ m = NoReq
            \/ /\ m \in ReqState
               /\ m.live => rows'[m.row].task = m.task /\ rows'[m.row].step = m.op
               /\ PlaceSound(m)'
  <1>1. /\ m = NoReq \/ m \in ReqState
        /\ m.live => reqs[q].live
        /\ m.op = reqs[q].op /\ m.task = reqs[q].task /\ m.row = reqs[q].row
        /\ m.pc = reqs[q].pc /\ m.found = reqs[q].found
    <2>1. CASE m = reqs[q]
      BY <2>1, RequestFields
    <2>2. CASE reqs[q] # NoReq /\ m = [reqs[q] EXCEPT !.live = FALSE]
      <3>1. reqs[q] \in ReqState
        BY <2>2, RequestFields
      <3>. QED
        BY <2>2, <3>1 DEF ReqState
    <2>. QED
      BY <2>1, <2>2
  <1>2. CASE m # NoReq
    <2>1. m \in ReqState /\ reqs[q] \in ReqState /\ m.task \in Task /\ PlaceSound(reqs[q])
      BY <1>1, <1>2, RequestFields DEF ReqState, NoReq
    <2>2. m.live => rows'[m.row].task = m.task /\ rows'[m.row].step = m.op
      BY <1>1, <2>1, RequestFields
    <2>3. PlaceSound(m)'
      BY <1>1, <2>1 DEF PlaceSound, TasksAdvance, WritersStay, Direct
    <2>. QED
      BY <1>1, <2>1, <2>2, <2>3
  <1>. QED
    BY <1>1, <1>2

\* The step of one request, which goes on or ends; no row has changed.
LEMMA OneRequestMoves ==
  ASSUME UploadIInv, NEW q \in Request, NEW m, reqs' = [reqs EXCEPT ![q] = m], rows' = rows,
         kind' = kind, stored \subseteq stored', TasksAdvance,
         \A p \in Request : p # q => WritersStay(p),
         \/ m = NoReq
         \/ /\ m \in ReqState /\ m.op = reqs[q].op /\ m.task = reqs[q].task
            /\ m.row = reqs[q].row /\ m.live = reqs[q].live
            /\ PlaceSound(m)',
         m.pc \in {"write", "linked"} =>
           \A p \in Request : p # q /\ reqs[p].pc \in {"write", "linked"} => reqs[p].task # m.task
  PROVE  /\ DOMAIN reqs' = Request /\ (\A p \in Request : ReqSound(reqs[p]))'
         /\ RequestsApart'
  <1>1. /\ DOMAIN reqs' = Request /\ reqs'[q] = m
        /\ \A p \in Request : p # q => reqs'[p] = reqs[p]
    BY DEF UploadIInv
  <1>2. ASSUME NEW p \in Request, p # q
        PROVE  ReqSound(reqs[p])'
    <2>1. PICK o : o = reqs[p]
      OBVIOUS
    <2>2. reqs'[p] = o /\ WritersStay(p)
      BY <1>1, <1>2, <2>1
    <2>3. \/ o = NoReq
          \/ /\ o \in ReqState
             /\ o.live => rows'[o.row].task = o.task /\ rows'[o.row].step = o.op
             /\ PlaceSound(o)'
      BY <2>1, <2>2, OtherRequest
    <2>. QED
      BY <2>2, <2>3 DEF ReqSound, PlaceSound, Direct
  <1>3. ReqSound(reqs[q])'
    <2>1. CASE m = NoReq
      BY <1>1, <2>1 DEF ReqSound
    <2>2. CASE m # NoReq
      <3>1. m \in ReqState /\ (m.live => rows'[m.row].task = m.task /\ rows'[m.row].step = m.op)
        BY <2>2, RequestFields
      <3>. QED
        BY <1>1, <2>2, <3>1 DEF ReqSound, PlaceSound, Direct
    <2>. QED
      BY <2>1, <2>2
  <1>4. RequestsApart'
    <2>1. m.live => reqs[q].live /\ m.row = reqs[q].row
      <3>1. CASE m = NoReq
        <4>1. m.live = FALSE
          BY <3>1 DEF NoReq
        <4>. QED
          BY <4>1
      <3>2. CASE m # NoReq
        BY <3>2
      <3>. QED
        BY <3>1, <3>2
    <2>2. \A p, o \in Request : reqs'[p].live /\ reqs'[o].live /\ reqs'[p].row = reqs'[o].row => p = o
      BY <1>1, <2>1 DEF UploadIInv, RequestsApart
    <2>3. \A p, o \in Request :
            /\ reqs'[p].pc \in {"write", "linked"} /\ reqs'[o].pc \in {"write", "linked"}
            /\ reqs'[p].task = reqs'[o].task
            => p = o
      BY <1>1 DEF UploadIInv, RequestsApart
    <2>. QED
      BY <2>2, <2>3 DEF RequestsApart
  <1>. QED
    BY <1>1, <1>2, <1>3, <1>4

\* Rows that nothing happens to keep their shape and what they know.
LEMMA RowsStay ==
  ASSUME UploadIInv, rows' = rows, stored \subseteq stored', TasksAdvance
  PROVE  DOMAIN rows' = Row /\ (\A r \in Row : RowShape(rows[r]) /\ RowSaved(rows[r]))'
  BY DEF UploadIInv, RowShape, RowSaved, TasksAdvance

\* A row takes a new shape.
LEMMA RowBecomes ==
  ASSUME UploadIInv, NEW r \in Row, NEW row, RowShape(row), rows' = [rows EXCEPT ![r] = row],
         stored \subseteq stored', TasksAdvance,
         row.saved => \/ row.task = rows[r].task /\ rows[r].saved
                      \/ row.task \in Task /\ tasks[row.task].saved
  PROVE  DOMAIN rows' = Row /\ (\A s \in Row : RowShape(rows[s]) /\ RowSaved(rows[s]))'
  <1>1. DOMAIN rows' = Row /\ rows'[r] = row /\ \A s \in Row : s # r => rows'[s] = rows[s]
    BY DEF UploadIInv
  <1>2. row.saved => /\ row.task \in Task /\ row.task \in stored
                     /\ tasks[row.task].saved \/ Lost(tasks[row.task])
    BY DEF UploadIInv, RowShape, RowSaved, TaskSound
  <1>3. (RowShape(rows[r]) /\ RowSaved(rows[r]))'
    BY <1>1, <1>2 DEF RowShape, RowSaved, TasksAdvance
  <1>4. ASSUME NEW s \in Row, s # r
        PROVE  (RowShape(rows[s]) /\ RowSaved(rows[s]))'
    BY <1>1, <1>4 DEF UploadIInv, RowShape, RowSaved, TasksAdvance
  <1>. QED
    BY <1>1, <1>3, <1>4
-----------------------------------------------------------------------------
(* The steps of the server. *)

LEMMA SubsetIsSmaller ==
  ASSUME NEW A, NEW B, IsFiniteSet(B), A \subseteq B
  PROVE  /\ Cardinality(A) \in Nat /\ Cardinality(B) \in Nat /\ Cardinality(A) <= Cardinality(B)
         /\ \A e \in B : e \notin A => Cardinality(A) + 1 <= Cardinality(B)
  <1>1. /\ IsFiniteSet(A) /\ Cardinality(A) \in Nat /\ Cardinality(B) \in Nat
        /\ Cardinality(A) <= Cardinality(B)
    BY FS_Subset, FS_CardinalityType
  <1>2. ASSUME NEW e \in B, e \notin A
        PROVE  Cardinality(A) + 1 <= Cardinality(B)
    <2>1. A \subseteq B \ {e} /\ IsFiniteSet(B \ {e}) /\ Cardinality(B \ {e}) = Cardinality(B) - 1
      BY <1>2, FS_RemoveElement
    <2>2. Cardinality(A) <= Cardinality(B \ {e}) /\ Cardinality(B \ {e}) \in Nat
      BY <2>1, FS_Subset, FS_CardinalityType
    <2>. QED
      BY <1>1, <2>1, <2>2
  <1>. QED
    BY <1>1, <1>2

LEMMA LookingFinite ==
  ASSUME NEW t \in Task
  PROVE  /\ IsFiniteSet(Looking(t)) /\ Looking(t) \subseteq Request
         /\ Cardinality(Looking(t)) \in Nat /\ Cardinality(Request) \in Nat
  BY SubsetIsSmaller, FS_Subset, FS_CardinalityType DEF Looking

\* A task that the step is not about, and that nobody begins to look at.
LEMMA OtherTask ==
  ASSUME UploadIInv, NEW t \in Task,
         \/ tasks'[t] = tasks[t]
         \/ /\ tasks'[t].saved = tasks[t].saved /\ tasks'[t].phase = tasks[t].phase
            /\ tasks'[t].invalid = tasks[t].invalid /\ (tasks'[t].listed => tasks[t].listed),
         routines'[t] = routines[t], stored \subseteq stored', Looking(t)' \subseteq Looking(t)
  PROVE  TaskSound(t)' /\ Bound(t)'
  <1>1. TaskSound(t) /\ Bound(t) /\ routines[t] \in Nat
    BY TaskFields DEF UploadIInv, RoutinesBounded
  <1>2. TaskSound(t)'
    BY <1>1 DEF TaskSound, Known, Decided
  <1>3. Bound(t)'
    <2>1. /\ Cardinality(Looking(t)') \in Nat /\ Cardinality(Looking(t)) \in Nat
          /\ Cardinality(Looking(t)') <= Cardinality(Looking(t)) /\ Cardinality(Request) \in Nat
      BY LookingFinite, SubsetIsSmaller
    <2>. DEFINE looking == Cardinality(Looking(t))
                now == Cardinality(Looking(t)')
    <2>3. Bound(t)' <=> (tasks'[t].saved =>
            routines'[t] + now + (IF tasks'[t].phase \in {"processing", "done"} THEN 0 ELSE 1) <= Cardinality(Request))
      BY DEF Bound
    <2>4. tasks[t].saved =>
            routines[t] + looking + (IF tasks[t].phase \in {"processing", "done"} THEN 0 ELSE 1) <= Cardinality(Request)
      BY <1>1 DEF Bound
    <2>. HIDE DEF looking, now
    <2>5. looking \in Nat /\ now \in Nat /\ now <= looking /\ Cardinality(Request) \in Nat
      BY <2>1 DEF looking, now
    <2>. QED
      BY <1>1, <2>3, <2>4, <2>5
  <1>. QED
    BY <1>2, <1>3

\* A step of the handler of q keeps the invariant, when it keeps what it says of
\* q and of its task.
LEMMA HandlerKeeps ==
  ASSUME UploadIInv, NEW q \in Request, NEW t \in Task, t = reqs[q].task, NEW m,
         reqs' = [reqs EXCEPT ![q] = m], UNCHANGED <<rows, owner, disturbances>>,
         ServerTypes', kind' = kind, stored \subseteq stored',
         \A u \in Task : u # t => tasks'[u] = tasks[u] /\ routines'[u] = routines[u],
         TasksAdvance,
         \/ tasks'[t].phase = tasks[t].phase /\ tasks'[t].saved = tasks[t].saved
         \/ \A p \in Request : p # q /\ reqs[p].pc \in {"write", "linked"} => reqs[p].task # t,
         \/ m = NoReq
         \/ /\ m \in ReqState /\ m.op = reqs[q].op /\ m.task = t /\ m.row = reqs[q].row /\ m.live = reqs[q].live
            /\ PlaceSound(m)',
         m.pc \in {"write", "linked"} =>
           \A p \in Request : p # q /\ reqs[p].pc \in {"write", "linked"} => reqs[p].task # t,
         TaskSound(t)', Bound(t)'
  PROVE  UploadIInv'
  <1>1. \A p \in Request : p # q => WritersStay(p)
    <2>. SUFFICES ASSUME NEW p \in Request, p # q, reqs[p].pc \in {"write", "linked"}
                  PROVE  /\ tasks'[reqs[p].task].phase = tasks[reqs[p].task].phase
                         /\ tasks'[reqs[p].task].saved = tasks[reqs[p].task].saved
      BY DEF WritersStay
    <2>1. reqs[p].task \in Task
      BY RequestFields
    <2>. QED
      BY <2>1
  <1>2. m.pc \in {"write", "linked"} => m.task = t
    BY DEF NoReq
  <1>3. /\ DOMAIN reqs' = Request /\ (\A p \in Request : ReqSound(reqs[p]))'
        /\ RequestsApart'
    BY <1>1, <1>2, OneRequestMoves
  <1>4. DOMAIN rows' = Row /\ (\A r \in Row : RowShape(rows[r]) /\ RowSaved(rows[r]))'
    BY RowsStay
  <1>5. ASSUME NEW u \in Task, u # t
        PROVE  TaskSound(u)' /\ Bound(u)'
    <2>1. Looking(u)' \subseteq Looking(u)
      <3>1. /\ reqs'[q] = m /\ (m = NoReq \/ m.task = t)
            /\ \A p \in Request : p # q => reqs'[p] = reqs[p]
        BY DEF UploadIInv
      <3>2. NoReq.pc = "none"
        BY DEF NoReq
      <3>. HIDE DEF NoReq
      <3>. QED
        BY <1>5, <3>1, <3>2 DEF Looking
    <2>. QED
      BY <1>5, <2>1, OtherTask
  <1>6. (\A u \in Task : TaskSound(u))' /\ RoutinesBounded'
    BY <1>5 DEF RoutinesBounded
  <1>7. owner' \in [Task -> Row \cup {"none"}] /\ disturbances' \in 0..MaxDisturbances
    BY DEF UploadIInv
  <1>. QED
    BY <1>3, <1>4, <1>6, <1>7 DEF UploadIInv

\* What m has in common with the request q that it continues.
Continues(m, q) == /\ m \in ReqState
                   /\ m.op = reqs[q].op /\ m.task = reqs[q].task
                   /\ m.row = reqs[q].row /\ m.live = reqs[q].live

LEMMA RepliesWith ==
  ASSUME UploadIInv, NEW q \in Request, reqs[q] \in ReqState, NEW found \in Findings, Replies(q, found)
  PROVE  \E m : /\ reqs' = [reqs EXCEPT ![q] = m]
                /\ m = NoReq \/ (Continues(m, q) /\ m.pc = "reply" /\ m.found = found)
  <1>. DEFINE r == [reqs[q] EXCEPT !.pc = "reply", !.found = found]
  <1>1. Continues(r, q) /\ r.pc = "reply" /\ r.found = found
    BY DEF ReqState, Continues
  <1>2. reqs' = [reqs EXCEPT ![q] = r] \/ reqs' = [reqs EXCEPT ![q] = NoReq]
    BY DEF Replies, UploadIInv
  <1>. HIDE DEF r
  <1>. QED
    BY <1>1, <1>2

LEMMA GoesTo ==
  ASSUME UploadIInv, NEW q \in Request, reqs[q] \in ReqState,
         NEW pc \in {"write", "linked", "stat", "start"}, To(q, pc)
  PROVE  \E m : /\ reqs' = [reqs EXCEPT ![q] = m]
                /\ Continues(m, q) /\ m.pc = pc /\ m.found = reqs[q].found
  <1>. DEFINE r == [reqs[q] EXCEPT !.pc = pc]
  <1>1. Continues(r, q) /\ r.pc = pc /\ r.found = reqs[q].found
    BY DEF ReqState, Continues
  <1>2. reqs' = [reqs EXCEPT ![q] = r]
    BY DEF To, UploadIInv
  <1>. HIDE DEF r
  <1>. QED
    BY <1>1, <1>2

\* The task of a request changes, the others do not.
LEMMA TaskBecomes ==
  ASSUME UploadIInv, NEW t \in Task, NEW new \in TaskState, tasks' = [tasks EXCEPT ![t] = new]
  PROVE  /\ tasks' \in [Task -> TaskState] /\ tasks'[t] = new
         /\ \A u \in Task : u # t => tasks'[u] = tasks[u]
  BY DEF UploadIInv, ServerTypes

\* The request leaves the verifications of its task, or was none of them.
LEMMA LookingLeaves ==
  ASSUME UploadIInv, NEW q \in Request, NEW m, reqs' = [reqs EXCEPT ![q] = m],
         m.pc \notin {"stat", "act"}, NEW t \in Task
  PROVE  /\ Looking(t)' \subseteq Looking(t) /\ q \notin Looking(t)'
         /\ Cardinality(Looking(t)') \in Nat /\ Cardinality(Looking(t)) \in Nat
         /\ Cardinality(Request) \in Nat
         /\ Cardinality(Looking(t)') <= Cardinality(Looking(t))
         /\ Cardinality(Looking(t)') + 1 <= Cardinality(Request)
         /\ q \in Looking(t) => Cardinality(Looking(t)') + 1 <= Cardinality(Looking(t))
  <1>1. Looking(t)' \subseteq Looking(t) /\ q \notin Looking(t)'
    <2>1. reqs'[q] = m /\ \A p \in Request : p # q => reqs'[p] = reqs[p]
      BY DEF UploadIInv
    <2>. QED
      BY <2>1 DEF Looking
  <1>2. /\ IsFiniteSet(Looking(t)) /\ Looking(t) \subseteq Request /\ IsFiniteSet(Request)
        /\ Looking(t)' \subseteq Request
    BY LookingFinite DEF Looking
  <1>3. /\ Cardinality(Looking(t)') + 1 <= Cardinality(Request)
        /\ Cardinality(Looking(t)') \in Nat /\ Cardinality(Request) \in Nat
    BY <1>1, <1>2, SubsetIsSmaller
  <1>4. /\ Cardinality(Looking(t)) \in Nat /\ Cardinality(Looking(t)') <= Cardinality(Looking(t))
        /\ q \in Looking(t) => Cardinality(Looking(t)') + 1 <= Cardinality(Looking(t))
    BY <1>1, <1>2, SubsetIsSmaller
  <1>. QED
    BY <1>1, <1>3, <1>4

\* A step that no task notices.
LEMMA TasksRest ==
  ASSUME UploadIInv, UNCHANGED tasks
  PROVE  TasksAdvance
  BY DEF TasksAdvance

\* The bound, where the task keeps its place and its routines, or is not saved.
LEMMA BoundRests ==
  ASSUME UploadIInv, NEW q \in Request, NEW m, reqs' = [reqs EXCEPT ![q] = m],
         m.pc \notin {"stat", "act"}, NEW t \in Task, routines'[t] = routines[t],
         \/ ~tasks'[t].saved
         \/ /\ tasks[t].saved
            /\ tasks'[t].phase \in {"processing", "done"} \/ tasks'[t].phase = tasks[t].phase
  PROVE  Bound(t)'
  <1>. DEFINE looking == Cardinality(Looking(t))
              now == Cardinality(Looking(t)')
  <1>1. Bound(t) /\ routines[t] \in Nat
    BY TaskFields DEF UploadIInv, RoutinesBounded
  <1>2. Bound(t)' <=> (tasks'[t].saved =>
          routines'[t] + now + (IF tasks'[t].phase \in {"processing", "done"} THEN 0 ELSE 1) <= Cardinality(Request))
    BY DEF Bound
  <1>3. tasks[t].saved =>
          routines[t] + looking + (IF tasks[t].phase \in {"processing", "done"} THEN 0 ELSE 1) <= Cardinality(Request)
    BY <1>1 DEF Bound
  <1>4. looking \in Nat /\ now \in Nat /\ now <= looking /\ Cardinality(Request) \in Nat
    BY LookingLeaves
  <1>. HIDE DEF looking, now
  <1>. QED
    BY <1>1, <1>2, <1>3, <1>4

\* A goroutine is started for a task whose original is there, unless one is at
\* work or has succeeded.
LEMMA StartKeeps ==
  ASSUME UploadIInv, NEW q \in Request, NEW m, reqs' = [reqs EXCEPT ![q] = m],
         m.pc \notin {"stat", "act"}, NEW t \in Task, t \in stored', Known(tasks[t]),
         StartTask(t)
  PROVE  /\ tasks' \in [Task -> TaskState] /\ routines' \in [Task -> Nat]
         /\ \A u \in Task : u # t => tasks'[u] = tasks[u] /\ routines'[u] = routines[u]
         /\ TasksAdvance /\ tasks'[t].saved /\ Known(tasks'[t]) /\ Decided(tasks'[t])
         /\ TaskSound(t)' /\ Bound(t)'
  <1>. DEFINE new == [tasks[t] EXCEPT !.saved = TRUE, !.phase = "processing",
                        !.retryable = TRUE, !.again = FALSE, !.invalid = FALSE]
              looking == Cardinality(Looking(t))
              now == Cardinality(Looking(t)')
  <1>0. /\ tasks[t] \in TaskState /\ TaskSound(t) /\ Bound(t) /\ routines[t] \in Nat
        /\ tasks[t].saved \in BOOLEAN /\ routines \in [Task -> Nat] /\ tasks \in [Task -> TaskState]
    BY TaskFields DEF UploadIInv, RoutinesBounded, ServerTypes
  <1>1. CASE tasks[t].phase \in {"processing", "done"}
    <2>1. UNCHANGED <<tasks, routines>>
      BY <1>1 DEF StartTask
    <2>2. tasks[t].saved /\ TaskSound(t)'
      BY <1>0, <1>1, <2>1 DEF TaskSound
    <2>3. Bound(t)'
      BY <2>1, <2>2, BoundRests
    <2>. QED
      BY <1>0, <2>1, <2>2, <2>3, TasksRest DEF Known, Decided
  <1>2. CASE tasks[t].phase \notin {"processing", "done"}
    <2>1. tasks' = [tasks EXCEPT ![t] = new] /\ routines' = [routines EXCEPT ![t] = @ + 1]
      BY <1>2 DEF StartTask
    <2>2. /\ new \in TaskState /\ new.saved = TRUE /\ new.phase = "processing" /\ new.invalid = FALSE
          /\ new.listed = tasks[t].listed
      BY <1>0 DEF TaskState, Phases
    <2>. HIDE DEF new
    <2>3. /\ tasks' \in [Task -> TaskState] /\ tasks'[t] = new
          /\ \A u \in Task : u # t => tasks'[u] = tasks[u]
      BY <2>1, <2>2, TaskBecomes
    <2>4. /\ routines' \in [Task -> Nat] /\ routines'[t] = routines[t] + 1
          /\ \A u \in Task : u # t => routines'[u] = routines[u]
      BY <1>0, <2>1
    <2>5. TasksAdvance
      BY <2>2, <2>3 DEF TasksAdvance, Known, Lost, Decided
    <2>6. TaskSound(t)'
      BY <1>0, <2>2, <2>3, <2>4 DEF TaskSound, Known, Decided
    <2>7. Bound(t)'
      <3>1. /\ looking \in Nat /\ now \in Nat /\ now <= looking /\ Cardinality(Request) \in Nat
            /\ now + 1 <= Cardinality(Request)
        BY LookingLeaves
      <3>2. ~tasks[t].saved => routines[t] = 0
        BY <1>0 DEF TaskSound
      <3>3. tasks[t].saved => routines[t] + looking + 1 <= Cardinality(Request)
        BY <1>0, <1>2 DEF Bound
      <3>. SUFFICES routines'[t] + now + 0 <= Cardinality(Request)
        BY <2>2, <2>3 DEF Bound
      <3>. HIDE DEF looking, now
      <3>. QED
        BY <1>0, <2>4, <3>1, <3>2, <3>3
    <2>. QED
      BY <2>2, <2>3, <2>4, <2>5, <2>6, <2>7 DEF Known, Decided
  <1>. QED
    BY <1>1, <1>2

\* The request of a handler's step, and its task.
LEMMA HandledRequest ==
  ASSUME UploadIInv, NEW q \in Request, reqs[q].pc # "none"
  PROVE  /\ reqs[q] \in ReqState /\ reqs[q].task \in Task /\ reqs[q].row \in Row
         /\ PlaceSound(reqs[q])
         /\ tasks[reqs[q].task] \in TaskState /\ TaskSound(reqs[q].task)
         /\ routines[reqs[q].task] \in Nat
  BY RequestFields, TaskFields

\* Only one request writes a task; while none does, nobody writes it.
LEMMA NoOtherWriter ==
  ASSUME UploadIInv, NEW q \in Request, NEW t \in Task,
         \/ tasks[t].phase # "uploading" \/ tasks[t].saved
         \/ reqs[q].pc \in {"write", "linked"} /\ reqs[q].task = t
  PROVE  \A p \in Request : p # q /\ reqs[p].pc \in {"write", "linked"} => reqs[p].task # t
  <1>. SUFFICES ASSUME NEW p \in Request, p # q, reqs[p].pc \in {"write", "linked"}, reqs[p].task = t
                PROVE  FALSE
    OBVIOUS
  <1>1. PlaceSound(reqs[p])
    BY HandledRequest
  <1>2. tasks[t].phase = "uploading" /\ ~tasks[t].saved
    BY <1>1 DEF PlaceSound
  <1>. QED
    BY <1>2 DEF UploadIInv, RequestsApart

LEMMA ClaimKeeps ==
  ASSUME UploadIInv, NEW q \in Request, Claim(q), UNCHANGED <<rows, owner, disturbances>>
  PROVE  UploadIInv'
  <1>. PICK t : t = reqs[q].task
    OBVIOUS
  <1>. DEFINE new == [tasks[t] EXCEPT !.phase = "uploading"]
  <1>1. /\ reqs[q] \in ReqState /\ t \in Task /\ reqs[q].row \in Row
        /\ tasks[t] \in TaskState /\ TaskSound(t)
        /\ routines[t] \in Nat /\ tasks[t].phase = "waiting"
    BY HandledRequest DEF Claim, At, TaskOf
  <1>2. PICK m : /\ reqs' = [reqs EXCEPT ![q] = m]
                 /\ Continues(m, q) /\ m.pc = "write" /\ m.found = reqs[q].found
    BY <1>1, GoesTo DEF Claim
  <1>3. /\ new \in TaskState /\ new.phase = "uploading" /\ new.saved = tasks[t].saved
        /\ new.invalid = tasks[t].invalid /\ new.listed = tasks[t].listed
    BY <1>1 DEF TaskState, Phases
  <1>4. tasks' = [tasks EXCEPT ![t] = new]
    BY DEF Claim
  <1>. HIDE DEF new
  <1>5. /\ tasks' \in [Task -> TaskState] /\ tasks'[t] = new
        /\ \A u \in Task : u # t => tasks'[u] = tasks[u]
    BY <1>1, <1>3, <1>4, TaskBecomes
  <1>6. UNCHANGED <<kind, original, routines, stored>> /\ kind = "local" /\ late' \in SUBSET Row
    BY <1>1 DEF Claim, TakesEffect, UploadIInv, ServerTypes
  <1>7. ~tasks[t].saved /\ ~tasks[t].invalid /\ ~(routines[t] > 0)
    BY <1>1 DEF TaskSound, Decided
  <1>8. ServerTypes'
    BY <1>5, <1>6 DEF UploadIInv, ServerTypes
  <1>9. TasksAdvance
    BY <1>1, <1>3, <1>5, <1>7 DEF TasksAdvance, Known, Lost, Decided
  <1>10. TaskSound(t)' /\ Bound(t)'
    BY <1>1, <1>3, <1>5, <1>6, <1>7 DEF TaskSound, Known, Decided, Bound
  <1>11. \A p \in Request : p # q /\ reqs[p].pc \in {"write", "linked"} => reqs[p].task # t
    BY <1>1, NoOtherWriter
  <1>12. PlaceSound(m)'
    <2>1. m.op = "transfer" /\ m.task = t /\ m.pc = "write"
      BY <1>2 DEF Claim, At, Continues
    <2>. QED
      BY <1>3, <1>5, <1>6, <1>7, <2>1 DEF PlaceSound, Known, Direct
  <1>. QED
    BY <1>1, <1>2, <1>5, <1>6, <1>8, <1>9, <1>10, <1>11, <1>12, HandlerKeeps DEF Continues

LEMMA LinkKeeps ==
  ASSUME UploadIInv, NEW q \in Request, Link(q), UNCHANGED <<rows, owner, disturbances>>
  PROVE  UploadIInv'
  <1>. PICK t : t = reqs[q].task
    OBVIOUS
  <1>1. /\ reqs[q] \in ReqState /\ t \in Task /\ PlaceSound(reqs[q]) /\ TaskSound(t)
        /\ routines[t] \in Nat /\ At(q, "transfer", "write")
    BY HandledRequest DEF Link, At
  <1>2. PICK m : /\ reqs' = [reqs EXCEPT ![q] = m]
                 /\ Continues(m, q) /\ m.pc = "linked" /\ m.found = reqs[q].found
    BY <1>1, GoesTo DEF Link
  <1>3. /\ UNCHANGED <<kind, tasks, routines, late>> /\ original' = PhotoOf(t, TRUE)
        /\ stored' = stored \cup {t}
    BY DEF Link
  <1>4. ServerTypes'
    <2>1. original' \in [by : Task, fits : BOOLEAN] /\ original'.by = t
      BY <1>1, <1>3 DEF PhotoOf
    <2>. QED
      BY <1>1, <1>3, <2>1 DEF UploadIInv, ServerTypes
  <1>5. TasksAdvance
    BY <1>3, TasksRest
  <1>6. TaskSound(t)'
    BY <1>1, <1>3 DEF TaskSound
  <1>7. ~tasks[t].saved /\ kind = "local" /\ tasks[t].phase = "uploading"
    BY <1>1 DEF PlaceSound, At
  <1>8. Bound(t)'
    BY <1>3, <1>7 DEF Bound
  <1>9. \A p \in Request : p # q /\ reqs[p].pc \in {"write", "linked"} => reqs[p].task # t
    BY <1>1, NoOtherWriter DEF At
  <1>10. PlaceSound(m)'
    <2>1. m.op = "transfer" /\ m.task = t /\ m.pc = "linked"
      BY <1>1, <1>2 DEF At, Continues
    <2>. QED
      BY <1>3, <1>7, <2>1 DEF PlaceSound, Known, Direct
  <1>. QED
    BY <1>1, <1>2, <1>3, <1>4, <1>5, <1>6, <1>8, <1>9, <1>10, HandlerKeeps DEF Continues

LEMMA LinkExistsKeeps ==
  ASSUME UploadIInv, NEW q \in Request, LinkExists(q), UNCHANGED <<rows, owner, disturbances>>
  PROVE  UploadIInv'
  <1>. PICK t : t = reqs[q].task
    OBVIOUS
  <1>. DEFINE new == [tasks[t] EXCEPT !.phase = "skipped"]
  <1>1. /\ reqs[q] \in ReqState /\ t \in Task /\ PlaceSound(reqs[q]) /\ TaskSound(t)
        /\ tasks[t] \in TaskState /\ routines[t] \in Nat /\ At(q, "transfer", "write")
    BY HandledRequest DEF LinkExists, At
  <1>2. PICK m : /\ reqs' = [reqs EXCEPT ![q] = m]
                 /\ m = NoReq \/ (Continues(m, q) /\ m.pc = "reply" /\ m.found = "none")
    BY <1>1, RepliesWith DEF LinkExists, Findings
  <1>3. /\ new \in TaskState /\ new.phase = "skipped" /\ new.saved = tasks[t].saved
        /\ new.invalid = tasks[t].invalid /\ new.listed = tasks[t].listed
    BY <1>1 DEF TaskState, Phases
  <1>4. /\ tasks' = [tasks EXCEPT ![t] = new]
        /\ UNCHANGED <<kind, original, routines, stored, late>>
    BY DEF LinkExists
  <1>. HIDE DEF new
  <1>5. /\ tasks' \in [Task -> TaskState] /\ tasks'[t] = new
        /\ \A u \in Task : u # t => tasks'[u] = tasks[u]
    BY <1>1, <1>3, <1>4, TaskBecomes
  <1>6. ServerTypes'
    BY <1>4, <1>5 DEF UploadIInv, ServerTypes
  <1>7. ~tasks[t].saved /\ kind = "local" /\ tasks[t].phase = "uploading" /\ ~(routines[t] > 0)
    BY <1>1 DEF PlaceSound, At, TaskSound
  <1>8. TasksAdvance
    BY <1>1, <1>3, <1>5, <1>7 DEF TasksAdvance, Known, Lost, Decided
  <1>9. TaskSound(t)' /\ Bound(t)'
    BY <1>1, <1>3, <1>4, <1>5, <1>7 DEF TaskSound, Known, Decided, Bound
  <1>10. \A p \in Request : p # q /\ reqs[p].pc \in {"write", "linked"} => reqs[p].task # t
    BY <1>1, NoOtherWriter DEF At
  <1>11. m # NoReq => PlaceSound(m)'
    <2>1. m # NoReq => m.op = "transfer" /\ m.task = t /\ m.pc = "reply"
      BY <1>1, <1>2 DEF At, Continues
    <2>. QED
      BY <1>3, <1>4, <1>5, <1>7, <2>1 DEF PlaceSound, Known, Direct, Decided
  <1>12. m.pc \notin {"write", "linked"}
    BY <1>2 DEF NoReq
  <1>. QED
    BY <1>1, <1>2, <1>4, <1>5, <1>6, <1>8, <1>9, <1>10, <1>11, <1>12, HandlerKeeps DEF Continues

\* A step that starts a goroutine, and ends the work of its request.
LEMMA StartsAndReplies ==
  ASSUME UploadIInv, NEW q \in Request, reqs[q].pc # "none", UNCHANGED <<rows, owner, disturbances>>,
         UNCHANGED <<kind, original, stored, late>>, StartTask(reqs[q].task),
         NEW found \in {"none", "saved"}, Replies(q, found),
         reqs[q].op \in {"verify", "complete"} => found = "saved",
         ~Direct(reqs[q]), reqs[q].task \in stored, Known(tasks[reqs[q].task]),
         reqs[q].pc = "linked" \/ tasks[reqs[q].task].phase # "uploading" \/ tasks[reqs[q].task].saved
           \/ kind = "s3"
  PROVE  UploadIInv'
  <1>. PICK t : t = reqs[q].task
    OBVIOUS
  <1>1. reqs[q] \in ReqState /\ t \in Task /\ PlaceSound(reqs[q])
    BY HandledRequest
  <1>2. PICK m : /\ reqs' = [reqs EXCEPT ![q] = m]
                 /\ m = NoReq \/ (Continues(m, q) /\ m.pc = "reply" /\ m.found = found)
    BY <1>1, RepliesWith DEF Findings
  <1>3. m.pc \notin {"stat", "act", "write", "linked"}
    BY <1>2 DEF NoReq
  <1>4. /\ tasks' \in [Task -> TaskState] /\ routines' \in [Task -> Nat]
        /\ \A u \in Task : u # t => tasks'[u] = tasks[u] /\ routines'[u] = routines[u]
        /\ TasksAdvance /\ tasks'[t].saved /\ Known(tasks'[t]) /\ Decided(tasks'[t])
        /\ TaskSound(t)' /\ Bound(t)'
    BY <1>1, <1>2, <1>3, StartKeeps
  <1>5. ServerTypes'
    BY <1>4 DEF UploadIInv, ServerTypes
  <1>6. \A p \in Request : p # q /\ reqs[p].pc \in {"write", "linked"} => reqs[p].task # t
    <2>1. CASE kind = "s3"
      <3>1. \A p \in Request : reqs[p].pc \notin {"write", "linked"}
        BY <2>1, HandledRequest DEF PlaceSound
      <3>. QED
        BY <3>1
    <2>2. CASE kind # "s3"
      BY <1>1, <2>2, NoOtherWriter
    <2>. QED
      BY <2>1, <2>2
  <1>7. m # NoReq => PlaceSound(m)'
    <2>1. m # NoReq => /\ m.op = reqs[q].op /\ m.task = t /\ m.pc = "reply" /\ m.found = found
      BY <1>2 DEF Continues
    <2>. QED
      BY <1>4, <2>1 DEF PlaceSound
  <1>. QED
    BY <1>1, <1>2, <1>3, <1>4, <1>5, <1>6, <1>7, HandlerKeeps DEF Continues

LEMMA LinkedKeeps ==
  ASSUME UploadIInv, NEW q \in Request, Linked(q), UNCHANGED <<rows, owner, disturbances>>
  PROVE  UploadIInv'
  <1>1. PlaceSound(reqs[q]) /\ reqs[q].op = "transfer" /\ reqs[q].pc = "linked"
    BY HandledRequest DEF Linked, At
  <1>2. ~Direct(reqs[q]) /\ reqs[q].task \in stored /\ Known(tasks[reqs[q].task])
    BY <1>1 DEF PlaceSound, Direct
  <1>. QED
    BY <1>1, <1>2, StartsAndReplies DEF Linked

LEMMA RetryStartsKeeps ==
  ASSUME UploadIInv, NEW q \in Request, RetryStarts(q), UNCHANGED <<rows, owner, disturbances>>
  PROVE  UploadIInv'
  <1>1. /\ PlaceSound(reqs[q]) /\ TaskSound(reqs[q].task) /\ reqs[q].op = "retry" /\ reqs[q].pc = "start"
    BY HandledRequest DEF RetryStarts, At
  <1>2. /\ ~Direct(reqs[q]) /\ tasks[reqs[q].task].saved /\ reqs[q].task \in stored
        /\ Known(tasks[reqs[q].task])
    BY <1>1 DEF PlaceSound, Direct, TaskSound
  <1>. QED
    BY <1>1, <1>2, StartsAndReplies DEF RetryStarts

\* Where direct transfers are used, no request writes a task.
LEMMA NoWriter ==
  ASSUME UploadIInv, kind = "s3"
  PROVE  \A p \in Request : reqs[p].pc \notin {"write", "linked"}
  <1>. SUFFICES ASSUME NEW p \in Request, reqs[p].pc \in {"write", "linked"}
                PROVE  FALSE
    OBVIOUS
  <1>1. PlaceSound(reqs[p])
    BY HandledRequest
  <1>. QED
    BY <1>1 DEF PlaceSound

\* A step that no task notices, and that nobody begins to look at a saved one with.
LEMMA UnnoticedKeeps ==
  ASSUME UploadIInv, NEW q \in Request, reqs[q].pc # "none", NEW t \in Task, t = reqs[q].task,
         NEW m, reqs' = [reqs EXCEPT ![q] = m],
         UNCHANGED <<rows, owner, disturbances>>, UNCHANGED <<kind, tasks, routines>>,
         ServerTypes', stored \subseteq stored',
         m = NoReq \/ (Continues(m, q) /\ PlaceSound(m)'),
         m.pc \notin {"write", "linked"},
         m.pc \in {"stat", "act"} => ~tasks[t].saved \/ reqs[q].pc \in {"stat", "act"}
  PROVE  UploadIInv'
  <1>1. TaskSound(t) /\ reqs[q] \in ReqState
    BY HandledRequest
  <1>2. TaskSound(t)'
    BY <1>1 DEF TaskSound
  <1>3. Bound(t)'
    <2>1. CASE ~tasks[t].saved
      BY <2>1 DEF Bound
    <2>2. CASE tasks[t].saved /\ m.pc \notin {"stat", "act"}
      BY <2>2, BoundRests
    <2>3. CASE m.pc \in {"stat", "act"} /\ reqs[q].pc \in {"stat", "act"}
      <3>1. reqs'[q] = m /\ (\A p \in Request : p # q => reqs'[p] = reqs[p])
        BY DEF UploadIInv
      <3>2. Looking(t)' \subseteq Looking(t)
        BY <2>3, <3>1 DEF Looking
      <3>. QED
        BY <3>2, OtherTask
    <2>. QED
      BY <2>1, <2>2, <2>3
  <1>. QED
    BY <1>2, <1>3, TasksRest, HandlerKeeps DEF Continues

LEMMA LookAtTaskKeeps ==
  ASSUME UploadIInv, NEW q \in Request, LookAtTask(q), UNCHANGED <<rows, owner, disturbances>>
  PROVE  UploadIInv'
  <1>. PICK t : t = reqs[q].task
    OBVIOUS
  <1>1. /\ reqs[q] \in ReqState /\ t \in Task /\ TaskSound(t) /\ tasks[t] \in TaskState
        /\ reqs[q].op \in {"verify", "complete"} /\ reqs[q].pc = "sent" /\ Known(tasks[t])
    BY HandledRequest DEF LookAtTask, Verifies, Listed, TaskSound
  <1>2. UNCHANGED <<kind, original, tasks, routines, stored, late>> /\ ServerTypes'
    BY DEF LookAtTask, UploadIInv, ServerTypes
  <1>. DEFINE v == Verdict(tasks[t])
  <1>3. /\ v \in {"saved", "skipped", "rejected", "none", "pending", "absent"}
        /\ v = "none" => kind = "s3" /\ ~tasks[t].saved
        /\ v \in {"saved", "skipped", "rejected"} => Decided(tasks[t])
    BY <1>1 DEF Verdict, Decided, TaskSound
  <1>4. IF v = "none" THEN To(q, "stat") ELSE Replies(q, v)
    BY DEF LookAtTask, TaskOf
  <1>. HIDE DEF v
  <1>5. CASE v = "none"
    <2>1. PICK m : /\ reqs' = [reqs EXCEPT ![q] = m]
                   /\ Continues(m, q) /\ m.pc = "stat" /\ m.found = reqs[q].found
      BY <1>1, <1>4, <1>5, GoesTo
    <2>2. m.task = t /\ m.op = reqs[q].op
      BY <2>1 DEF Continues
    <2>3. PlaceSound(m)'
      BY <1>1, <1>2, <1>3, <1>5, <2>1, <2>2 DEF PlaceSound, Known
    <2>. QED
      BY <1>1, <1>2, <1>3, <1>5, <2>1, <2>3, UnnoticedKeeps
  <1>6. CASE v # "none"
    <2>1. PICK m : /\ reqs' = [reqs EXCEPT ![q] = m]
                   /\ m = NoReq \/ (Continues(m, q) /\ m.pc = "reply" /\ m.found = v)
      BY <1>1, <1>3, <1>4, <1>6, RepliesWith DEF Findings
    <2>2. m.pc \notin {"write", "linked", "stat", "act"}
      BY <2>1 DEF NoReq
    <2>3. m # NoReq => PlaceSound(m)'
      <3>1. m # NoReq => m.op = reqs[q].op /\ m.task = t /\ m.pc = "reply" /\ m.found = v
        BY <2>1 DEF Continues
      <3>. QED
        BY <1>1, <1>2, <1>3, <1>6, <3>1 DEF PlaceSound, Known, Decided
    <2>. QED
      BY <1>1, <1>2, <2>1, <2>2, <2>3, UnnoticedKeeps
  <1>. QED
    BY <1>5, <1>6

LEMMA StatObjectKeeps ==
  ASSUME UploadIInv, NEW q \in Request, StatObject(q), UNCHANGED <<rows, owner, disturbances>>
  PROVE  UploadIInv'
  <1>. PICK t : t = reqs[q].task
    OBVIOUS
  <1>1. /\ reqs[q] \in ReqState /\ t \in Task /\ PlaceSound(reqs[q]) /\ TaskSound(t)
        /\ reqs[q].op \in {"verify", "complete"} /\ reqs[q].pc = "stat"
    BY HandledRequest DEF StatObject, Verifies
  <1>2. /\ UNCHANGED <<kind, original, tasks, routines, stored, late>> /\ ServerTypes'
        /\ Finds(q, Found(t))
    BY DEF StatObject, UploadIInv, ServerTypes
  <1>. DEFINE v == Found(t)
              m == [reqs[q] EXCEPT !.pc = "act", !.found = v]
  <1>3. v \in {"absent", "own", "unfit", "foreign"} /\ (v = "own" => t \in stored)
    BY <1>1 DEF Found, UploadIInv, ServerTypes
  <1>4. reqs' = [reqs EXCEPT ![q] = m]
    BY <1>2 DEF Finds, UploadIInv
  <1>. HIDE DEF v
  <1>5. Continues(m, q) /\ m.pc = "act" /\ m.found = v
    BY <1>1, <1>3 DEF ReqState, Continues, Findings
  <1>. HIDE DEF m
  <1>6. PICK n : n = m
    OBVIOUS
  <1>7. n.task = t /\ n.op = reqs[q].op /\ n.pc = "act" /\ n.found = v
    BY <1>5, <1>6 DEF Continues
  <1>8. PlaceSound(n)'
    BY <1>1, <1>2, <1>3, <1>7 DEF PlaceSound, Direct
  <1>. QED
    BY <1>1, <1>2, <1>4, <1>5, <1>6, <1>7, <1>8, UnnoticedKeeps

LEMMA LookBeforeRetryKeeps ==
  ASSUME UploadIInv, NEW q \in Request, LookBeforeRetry(q), UNCHANGED <<rows, owner, disturbances>>
  PROVE  UploadIInv'
  <1>. PICK t : t = reqs[q].task
    OBVIOUS
  <1>1. /\ reqs[q] \in ReqState /\ t \in Task /\ TaskSound(t)
        /\ reqs[q].op = "retry" /\ reqs[q].pc = "sent" /\ Known(tasks[t]) /\ tasks[t].saved
    BY HandledRequest DEF LookBeforeRetry, At, Listed, TaskOf, TaskSound
  <1>2. UNCHANGED <<kind, original, tasks, routines, stored, late>> /\ ServerTypes'
    BY DEF LookBeforeRetry, UploadIInv, ServerTypes
  <1>3. PICK m : /\ reqs' = [reqs EXCEPT ![q] = m]
                 /\ Continues(m, q) /\ m.pc = "start" /\ m.found = reqs[q].found
    BY <1>1, GoesTo DEF LookBeforeRetry
  <1>4. m.task = t /\ m.op = "retry"
    BY <1>1, <1>3 DEF Continues
  <1>5. PlaceSound(m)'
    BY <1>1, <1>2, <1>3, <1>4 DEF PlaceSound, Known
  <1>. QED
    BY <1>1, <1>2, <1>3, <1>5, UnnoticedKeeps

LEMMA LandKeeps ==
  ASSUME UploadIInv, NEW q \in Request, Land(q), UNCHANGED <<rows, owner, disturbances>>
  PROVE  UploadIInv'
  <1>. PICK t : t = reqs[q].task
    OBVIOUS
  <1>1. /\ reqs[q] \in ReqState /\ t \in Task /\ reqs[q].row \in Row
        /\ reqs[q].op = "transfer" /\ reqs[q].pc = "sent" /\ kind = "s3"
    BY HandledRequest DEF Land, At
  <1>2. UNCHANGED <<kind, tasks, routines>> /\ stored \subseteq stored' /\ late' \in SUBSET Row
    BY <1>1 DEF Land, TakesEffect, UploadIInv, ServerTypes
  <1>3. ServerTypes'
    <2>1. CASE FileThere
      BY <1>2, <2>1 DEF Land, UploadIInv, ServerTypes
    <2>2. CASE ~FileThere
      <3>1. PICK fits \in BOOLEAN : original' = PhotoOf(t, fits)
        BY <2>2 DEF Land
      <3>2. /\ original' \in [by : Task, fits : BOOLEAN] /\ original'.by = t
            /\ stored' = stored \cup {t}
        BY <1>1, <2>2, <3>1 DEF PhotoOf, Land
      <3>. QED
        BY <1>1, <1>2, <3>2 DEF UploadIInv, ServerTypes
    <2>. QED
      BY <2>1, <2>2
  <1>4. PICK m : /\ reqs' = [reqs EXCEPT ![q] = m]
                 /\ m = NoReq \/ (Continues(m, q) /\ m.pc = "reply" /\ m.found = "none")
    BY <1>1, RepliesWith DEF Land, Findings
  <1>5. m.pc \notin {"write", "linked", "stat", "act"}
    BY <1>4 DEF NoReq
  <1>6. m # NoReq => PlaceSound(m)'
    <2>1. m # NoReq => m.op = "transfer" /\ m.task = t /\ m.pc = "reply" /\ m.found = "none"
      BY <1>1, <1>4 DEF Continues
    <2>. QED
      BY <1>1, <1>2, <2>1 DEF PlaceSound, Direct
  <1>. QED
    BY <1>1, <1>2, <1>3, <1>4, <1>5, <1>6, UnnoticedKeeps

\* What follows from a Stat: the verification leaves those that are under way, so
\* that the bound pays for what it does to the task.
LEMMA ActOnFindingKeeps ==
  ASSUME UploadIInv, NEW q \in Request, ActOnFinding(q), UNCHANGED <<rows, owner, disturbances>>
  PROVE  UploadIInv'
  <1>. PICK t : t = reqs[q].task
    OBVIOUS
  <1>1. /\ reqs[q] \in ReqState /\ t \in Task /\ PlaceSound(reqs[q]) /\ TaskSound(t)
        /\ tasks[t] \in TaskState /\ routines[t] \in Nat
        /\ reqs[q].op \in {"verify", "complete"} /\ reqs[q].pc = "act"
    BY HandledRequest DEF ActOnFinding, Verifies
  <1>2. kind = "s3" /\ Known(tasks[t]) /\ ~Direct(reqs[q]) /\ (reqs[q].found = "own" => t \in stored)
    BY <1>1 DEF PlaceSound, Direct
  <1>3. UNCHANGED <<kind, original, stored>> /\ late' \in SUBSET Row
    <2>1. late' = late \/ late' = late \cup {reqs[q].row}
      BY DEF ActOnFinding, TakesEffect
    <2>. QED
      BY <1>1, <2>1 DEF ActOnFinding, UploadIInv, ServerTypes, ReqState
  <1>4. \A p \in Request : p # q /\ reqs[p].pc \in {"write", "linked"} => reqs[p].task # t
    BY <1>2, NoWriter
  <1>5. ASSUME reqs[q].found = "own", Replies(q, "saved"), StartTask(t), UNCHANGED late
        PROVE  UploadIInv'
    BY <1>1, <1>2, <1>3, <1>5, StartsAndReplies
  <1>6. ASSUME NEW v \in {"absent", "skipped", "rejected"}, Replies(q, v), UNCHANGED routines,
               NEW new \in TaskState, tasks' = [tasks EXCEPT ![t] = new],
               /\ new.saved = tasks[t].saved /\ new.listed = tasks[t].listed
               /\ \/ new.phase = tasks[t].phase /\ new.invalid = tasks[t].invalid
                  \/ new.phase = "error"
                  \/ new.phase = "skipped" /\ ~new.saved,
               v # "absent" => Decided(new)
        PROVE  UploadIInv'
    <2>1. PICK m : /\ reqs' = [reqs EXCEPT ![q] = m]
                   /\ m = NoReq \/ (Continues(m, q) /\ m.pc = "reply" /\ m.found = v)
      BY <1>1, <1>6, RepliesWith DEF Findings
    <2>2. m.pc \notin {"write", "linked", "stat", "act"}
      BY <2>1 DEF NoReq
    <2>3. /\ tasks' \in [Task -> TaskState] /\ tasks'[t] = new
          /\ \A u \in Task : u # t => tasks'[u] = tasks[u]
      BY <1>1, <1>6, TaskBecomes
    <2>4. ServerTypes'
      BY <1>3, <1>6, <2>3 DEF UploadIInv, ServerTypes
    <2>5. Known(new)
      BY <1>2, <1>6 DEF Known
    <2>6. TasksAdvance
      <3>1. Decided(tasks[t]) => Decided(new)
        BY <1>6 DEF Decided
      <3>2. ~Lost(tasks[t])
        BY <1>2 DEF Known, Lost
      <3>. QED
        BY <1>6, <2>3, <2>5, <3>1, <3>2 DEF TasksAdvance
    <2>7. TaskSound(t)'
      <3>1. UNCHANGED routines /\ UNCHANGED stored
        BY <1>3, <1>6
      <3>. QED
        BY <1>1, <1>6, <2>3, <2>5, <3>1 DEF TaskSound, Decided
    <2>8. Bound(t)'
      <3>1. CASE ~new.saved \/ new.phase = tasks[t].phase
        <4>1. /\ tasks'[t].saved = tasks[t].saved /\ routines'[t] = routines[t]
              /\ ~tasks'[t].saved \/ tasks'[t].phase = tasks[t].phase
          BY <1>6, <2>3, <3>1
        <4>. QED
          BY <1>1, <2>1, <2>2, <4>1, BoundRests
      <3>2. CASE new.saved /\ new.phase # tasks[t].phase
        <4>. DEFINE looking == Cardinality(Looking(t))
                    now == Cardinality(Looking(t)')
        <4>1. q \in Looking(t)
          BY <1>1 DEF Looking
        <4>2. /\ looking \in Nat /\ now \in Nat /\ now + 1 <= looking /\ Cardinality(Request) \in Nat
          BY <1>1, <2>1, <2>2, <4>1, LookingLeaves
        <4>3. Bound(t)
          BY <1>1 DEF UploadIInv, RoutinesBounded
        <4>4. routines[t] + looking + (IF tasks[t].phase \in {"processing", "done"} THEN 0 ELSE 1)
                <= Cardinality(Request)
          BY <1>6, <3>2, <4>3 DEF Bound
        <4>5. new.phase = "error" /\ routines'[t] = routines[t]
          BY <1>6, <3>2
        <4>6. Bound(t)' <=> routines'[t] + now + 1 <= Cardinality(Request)
          BY <2>3, <3>2, <4>5 DEF Bound
        <4>. HIDE DEF looking, now
        <4>. QED
          BY <1>1, <4>2, <4>4, <4>5, <4>6
      <3>. QED
        BY <3>1, <3>2
    <2>9. m # NoReq => PlaceSound(m)'
      <3>1. m # NoReq => m.op = reqs[q].op /\ m.task = t /\ m.pc = "reply" /\ m.found = v
        BY <2>1 DEF Continues
      <3>. QED
        BY <1>1, <1>6, <2>3, <2>5, <3>1 DEF PlaceSound
    <2>10. \A u \in Task : u # t => tasks'[u] = tasks[u] /\ routines'[u] = routines[u]
      BY <1>6, <2>3
    <2>. QED
      BY <1>1, <1>3, <1>4, <2>1, <2>2, <2>4, <2>6, <2>7, <2>8, <2>9, <2>10, HandlerKeeps DEF Continues
  <1>7. CASE reqs[q].found = "absent" /\ Replies(q, "absent") /\ UNCHANGED <<tasks, routines>>
    <2>1. tasks' = [tasks EXCEPT ![t] = tasks[t]]
      BY <1>1, <1>7 DEF UploadIInv, ServerTypes
    <2>. QED
      BY <1>1, <1>6, <1>7, <2>1
  <1>8. CASE /\ reqs[q].found = "foreign" /\ Replies(q, "skipped") /\ UNCHANGED routines
             /\ tasks' = [tasks EXCEPT ![t].phase = IF tasks[t].saved THEN @ ELSE "skipped"]
    <2>. DEFINE new == [tasks[t] EXCEPT !.phase = IF tasks[t].saved THEN @ ELSE "skipped"]
    <2>1. tasks' = [tasks EXCEPT ![t] = new]
      BY <1>8
    <2>2. /\ new \in TaskState /\ new.saved = tasks[t].saved /\ new.listed = tasks[t].listed
          /\ new.invalid = tasks[t].invalid
          /\ new.phase = (IF tasks[t].saved THEN tasks[t].phase ELSE "skipped")
      BY <1>1 DEF TaskState, Phases
    <2>. HIDE DEF new
    <2>3. Decided(new)
      BY <2>2 DEF Decided
    <2>. QED
      BY <1>6, <1>8, <2>1, <2>2, <2>3
  <1>9. CASE /\ reqs[q].found = "unfit" /\ Replies(q, "rejected") /\ UNCHANGED routines
             /\ tasks' = [tasks EXCEPT ![t] = FailTransfer(@, FALSE)]
    <2>. DEFINE new == FailTransfer(tasks[t], FALSE)
    <2>1. tasks' = [tasks EXCEPT ![t] = new]
      BY <1>1, <1>9
    <2>2. /\ new \in TaskState /\ new.saved = tasks[t].saved /\ new.listed = tasks[t].listed
          /\ new.phase = "error"
      BY <1>1 DEF TaskState, Phases, FailTransfer
    <2>. HIDE DEF new
    <2>3. Decided(new)
      BY <2>2 DEF Decided
    <2>. QED
      BY <1>6, <1>9, <2>1, <2>2, <2>3
  <1>. QED
    BY <1>5, <1>7, <1>8, <1>9 DEF ActOnFinding

LEMMA HandleKeeps ==
  ASSUME UploadIInv, NEW q \in Request, Handle(q), UNCHANGED <<rows, owner, disturbances>>
  PROVE  UploadIInv'
  BY ClaimKeeps, LinkKeeps, LinkExistsKeeps, LinkedKeeps, LookAtTaskKeeps, StatObjectKeeps,
     ActOnFindingKeeps, LookBeforeRetryKeeps, RetryStartsKeeps, LandKeeps DEF Handle
-----------------------------------------------------------------------------
(* The steps of the pages, and answers. *)

\* Requests end, or lose the page they were answered to.
Fades(q) == \/ reqs'[q] = NoReq
            \/ reqs'[q] = reqs[q]
            \/ reqs[q] # NoReq /\ reqs'[q] = [reqs[q] EXCEPT !.live = FALSE]

LEMMA FadedRequest ==
  ASSUME UploadIInv, NEW q \in Request, Fades(q)
  PROVE  /\ reqs'[q].live => reqs[q].live /\ reqs'[q] = reqs[q]
         /\ reqs'[q] = NoReq \/ (/\ reqs'[q].pc = reqs[q].pc /\ reqs'[q].task = reqs[q].task
                                 /\ reqs'[q].row = reqs[q].row)
  <1>1. NoReq.live = FALSE
    BY DEF NoReq
  <1>2. reqs[q] = NoReq \/ reqs[q] \in ReqState
    BY RequestFields
  <1>. HIDE DEF NoReq
  <1>. QED
    BY <1>1, <1>2 DEF Fades, ReqState

\* Nobody begins to look at a task.
LEMMA FadingLooks ==
  ASSUME UploadIInv, \A q \in Request : Fades(q), NEW t \in Task
  PROVE  Looking(t)' \subseteq Looking(t)
  <1>1. NoReq.pc = "none"
    BY DEF NoReq
  <1>. HIDE DEF NoReq
  <1>. QED
    BY <1>1, FadedRequest DEF Looking

\* One row moves, or none, while requests fade and tasks advance.
LEMMA RowMoves ==
  ASSUME UploadIInv, NEW r, NEW row,
         \/ rows' = rows
         \/ /\ r \in Row /\ rows' = [rows EXCEPT ![r] = row] /\ RowShape(row)
            /\ row.saved => \/ row.task = rows[r].task /\ rows[r].saved
                            \/ row.task \in Task /\ tasks[row.task].saved
            /\ \A q \in Request : reqs'[q].live => reqs[q].row # r,
         DOMAIN reqs' = Request, \A q \in Request : Fades(q),
         \A q \in Request : reqs'[q] = NoReq \/ WritersStay(q),
         ServerTypes', kind' = kind, stored \subseteq stored', TasksAdvance,
         \A t \in Task : TaskSound(t)' /\ Bound(t)',
         owner' \in [Task -> Row \cup {"none"}], disturbances' \in 0..MaxDisturbances
  PROVE  UploadIInv'
  <1>1. DOMAIN rows' = Row /\ (\A s \in Row : RowShape(rows[s]) /\ RowSaved(rows[s]))'
    <2>1. CASE rows' = rows
      BY <2>1, RowsStay
    <2>2. CASE rows' # rows
      <3>1. /\ r \in Row /\ rows' = [rows EXCEPT ![r] = row] /\ RowShape(row)
            /\ row.saved => \/ row.task = rows[r].task /\ rows[r].saved
                            \/ row.task \in Task /\ tasks[row.task].saved
        BY <2>2
      <3>. QED
        BY <3>1, RowBecomes
    <2>. QED
      BY <2>1, <2>2
  <1>2. ASSUME NEW q \in Request
        PROVE  ReqSound(reqs[q])'
    <2>1. PICK m : m = reqs'[q]
      OBVIOUS
    <2>2. CASE m = NoReq
      BY <2>1, <2>2 DEF ReqSound
    <2>3. CASE m # NoReq
      <3>1. /\ m = reqs[q] \/ (reqs[q] # NoReq /\ m = [reqs[q] EXCEPT !.live = FALSE])
            /\ WritersStay(q) /\ (m.live => m = reqs[q] /\ reqs[q].live)
        BY <2>1, <2>3, FadedRequest DEF Fades
      <3>2. m.live => rows'[m.row] = rows[m.row]
        <4>. SUFFICES ASSUME m.live
                      PROVE  rows'[m.row] = rows[m.row]
          OBVIOUS
        <4>1. m = reqs[q] /\ m.row \in Row
          BY <3>1, RequestFields
        <4>2. CASE rows' = rows
          BY <4>2
        <4>3. CASE rows' = [rows EXCEPT ![r] = row] /\ m.row # r
          BY <4>1, <4>3 DEF UploadIInv
        <4>. QED
          BY <2>1, <4>1, <4>2, <4>3
      <3>3. \/ m = NoReq
            \/ /\ m \in ReqState
               /\ m.live => rows'[m.row].task = m.task /\ rows'[m.row].step = m.op
               /\ PlaceSound(m)'
        BY <3>1, <3>2, OtherRequest
      <3>. QED
        BY <2>1, <2>3, <3>3 DEF ReqSound
    <2>. QED
      BY <2>2, <2>3
  <1>3. RequestsApart'
    <2>1. NoReq.pc = "none"
      BY DEF NoReq
    <2>. HIDE DEF NoReq
    <2>. QED
      BY <2>1, FadedRequest DEF UploadIInv, RequestsApart
  <1>. QED
    BY <1>1, <1>2, <1>3 DEF UploadIInv, RoutinesBounded

\* The same, when the step leaves the server's tasks alone.
LEMMA RowMovesAlone ==
  ASSUME UploadIInv, NEW r \in Row, NEW row,
         \/ rows' = rows
         \/ /\ rows' = [rows EXCEPT ![r] = row] /\ RowShape(row)
            /\ row.saved => \/ row.task = rows[r].task /\ rows[r].saved
                            \/ row.task \in Task /\ tasks[row.task].saved
            /\ \A q \in Request : reqs'[q].live => reqs[q].row # r,
         DOMAIN reqs' = Request, \A q \in Request : Fades(q),
         UNCHANGED <<kind, original, tasks, routines, stored, late, owner, disturbances>>
  PROVE  UploadIInv'
  <1>1. ServerTypes' /\ TasksAdvance /\ \A q \in Request : WritersStay(q)
    BY TasksRest DEF UploadIInv, ServerTypes, WritersStay
  <1>2. \A t \in Task : TaskSound(t)' /\ Bound(t)'
    BY FadingLooks, OtherTask
  <1>3. owner' \in [Task -> Row \cup {"none"}] /\ disturbances' \in 0..MaxDisturbances
    BY DEF UploadIInv
  <1>. QED
    BY <1>1, <1>2, <1>3, RowMoves

\* A row that is not in a call is not waited for.
LEMMA NotCalling ==
  ASSUME UploadIInv, NEW r \in Row, rows[r].step \notin Calls \/ ~Waits(r)
  PROVE  \A q \in Request : reqs[q].live => reqs[q].row # r
  <1>. SUFFICES ASSUME NEW q \in Request, reqs[q].live, reqs[q].row = r, rows[r].step \notin Calls
                PROVE  FALSE
    BY DEF Waits
  <1>1. reqs[q] \in ReqState /\ rows[r].step = reqs[q].op
    BY RequestFields
  <1>. QED
    BY <1>1 DEF ReqState, Ops, Calls

\* A step of one row alone.
LEMMA PageKeeps ==
  ASSUME UploadIInv, NEW r \in Row, rows[r].step \notin Calls \/ ~Waits(r),
         NEW row, SetRow(r, row), RowShape(row), row.task = rows[r].task,
         row.saved => rows[r].saved \/ (row.task \in Task /\ tasks[row.task].saved),
         UNCHANGED <<serverVars, owner, disturbances>>
  PROVE  UploadIInv'
  <1>1. \A q \in Request : reqs[q].live => reqs[q].row # r
    BY NotCalling
  <1>2. UNCHANGED <<kind, original, tasks, routines, reqs, stored, late, owner, disturbances>>
    BY DEF serverVars
  <1>3. \A q \in Request : Fades(q)
    BY <1>2 DEF Fades
  <1>4. DOMAIN reqs' = Request /\ \A q \in Request : reqs'[q].live => reqs[q].row # r
    BY <1>1, <1>2 DEF UploadIInv
  <1>5. rows' = [rows EXCEPT ![r] = row]
    BY DEF SetRow
  <1>. QED
    BY <1>2, <1>3, <1>4, <1>5, RowMovesAlone

LEMMA RowFacts ==
  ASSUME UploadIInv, NEW r \in Row
  PROVE  RowShape(rows[r]) /\ RowSaved(rows[r]) /\ rows[r] \in RowState
  BY DEF UploadIInv, RowShape

LEMMA StartKeepsRow ==
  ASSUME UploadIInv, NEW r \in Row, Start(r)
  PROVE  UploadIInv'
  <1>1. PICK old \in BOOLEAN : SetRow(r, FirstStep(rows[r], old))
    BY DEF Start
  <1>2. PICK row : row = FirstStep(rows[r], old)
    OBVIOUS
  <1>3. RowShape(row) /\ row.task = rows[r].task /\ row.saved = rows[r].saved
    BY <1>2, RowFacts, FirstStepShape
  <1>4. rows[r].step \notin Calls
    BY DEF Start, Active, Calls
  <1>. QED
    BY <1>1, <1>2, <1>3, <1>4, PageKeeps DEF Start

LEMMA SendFailsKeeps ==
  ASSUME UploadIInv, NEW r \in Row, SendFails(r)
  PROVE  UploadIInv'
  <1>1. PICK row : row = Failed(rows[r])
    OBVIOUS
  <1>2. RowShape(row) /\ row.task = rows[r].task /\ row.saved = rows[r].saved
    BY <1>1, RowFacts, FailedShape
  <1>. QED
    BY <1>1, <1>2, PageKeeps DEF SendFails

\* The task of a row that knows it is saved is decided, while the server has it.
LEMMA SavedRowTask ==
  ASSUME UploadIInv, NEW r \in Row, rows[r].saved, Known(tasks[rows[r].task])
  PROVE  /\ rows[r].task \in Task /\ tasks[rows[r].task].saved
         /\ tasks[rows[r].task] \in TaskState /\ TaskSound(rows[r].task)
  BY RowFacts, TaskFields DEF RowSaved, RowShape, Known, Lost

\* A row is answered what a decided task is like.
LEMMA FinishedRow ==
  ASSUME UploadIInv, NEW r \in Row, NEW t \in Task, t = rows[r].task, Decided(tasks[t])
  PROVE  /\ RowShape(Finish(rows[r], tasks[t])) /\ Finish(rows[r], tasks[t]).task = t
         /\ Finish(rows[r], tasks[t]).saved => rows[r].saved \/ tasks[t].saved
  <1>1. /\ RowShape(rows[r]) /\ tasks[t] \in TaskState /\ TaskSound(t)
    BY RowFacts, TaskFields
  <1>2. /\ tasks[t].saved => tasks[t].phase \in {"processing", "done", "error"}
        /\ tasks[t].phase = "processing" => tasks[t].saved
    BY <1>1 DEF TaskSound
  <1>. QED
    BY <1>1, <1>2, FinishShape

LEMMA StatusFirstKeeps ==
  ASSUME UploadIInv, NEW r \in Row, StatusFirst(r)
  PROVE  UploadIInv'
  <1>. PICK t : t = rows[r].task
    OBVIOUS
  <1>1. RowShape(rows[r]) /\ rows[r] \in RowState /\ rows[r].step = "status" /\ rows[r].step \notin Calls
    BY RowFacts DEF StatusFirst, Calls
  <1>2. t \in Task /\ rows[r].saved
    BY <1>1 DEF RowShape, Calls
  <1>3. Known(tasks[t])
    BY <1>2, TaskFields DEF StatusFirst, Listed, TaskSound
  <1>4. tasks[t].saved /\ Decided(tasks[t])
    BY <1>2, <1>3, SavedRowTask DEF Decided
  <1>5. CASE SetRow(r, Finish(rows[r], tasks[t]))
    <2>1. PICK row : row = Finish(rows[r], tasks[t])
      OBVIOUS
    <2>2. RowShape(row) /\ row.task = t
      BY <1>2, <1>4, <2>1, FinishedRow
    <2>. QED
      BY <1>1, <1>2, <1>5, <2>1, <2>2, PageKeeps DEF StatusFirst
  <1>6. CASE SetRow(r, [rows[r] EXCEPT !.step = "retry"])
    <2>. DEFINE row == [rows[r] EXCEPT !.step = "retry"]
    <2>1. row \in RowState /\ row.step = "retry" /\ row.saved = rows[r].saved /\ row.task = t
      BY <1>1 DEF RowState, Calls
    <2>. HIDE DEF row
    <2>2. RowShape(row)
      BY <1>2, <2>1 DEF RowShape, Calls
    <2>3. SetRow(r, row)
      BY <1>6 DEF row
    <2>. QED
      BY <1>1, <1>2, <2>1, <2>2, <2>3, PageKeeps DEF StatusFirst
  <1>. QED
    BY <1>5, <1>6 DEF StatusFirst

LEMMA PollKeeps ==
  ASSUME UploadIInv, NEW r \in Row, Poll(r)
  PROVE  UploadIInv'
  <1>. PICK t : t = rows[r].task
    OBVIOUS
  <1>1. RowShape(rows[r]) /\ rows[r].step = "poll" /\ rows[r].step \notin Calls
    BY RowFacts DEF Poll, Calls
  <1>2. t \in Task /\ rows[r].saved
    BY <1>1 DEF RowShape, Calls
  <1>3. Known(tasks[t])
    BY <1>2, TaskFields DEF Poll, Listed, TaskSound
  <1>4. tasks[t].saved /\ Decided(tasks[t])
    BY <1>2, <1>3, SavedRowTask DEF Decided
  <1>5. PICK row : row = Finish(rows[r], tasks[t])
    OBVIOUS
  <1>6. RowShape(row) /\ row.task = t
    BY <1>2, <1>4, <1>5, FinishedRow
  <1>. QED
    BY <1>1, <1>2, <1>5, <1>6, PageKeeps DEF Poll

LEMMA PollEndsKeeps ==
  ASSUME UploadIInv, NEW r \in Row, PollEnds(r)
  PROVE  UploadIInv'
  <1>. DEFINE rest == Rest(rows[r])
              row == [rest EXCEPT !.phase = "waiting"]
  <1>1. /\ RowShape(rows[r]) /\ rows[r] \in RowState /\ rows[r].step \notin Calls
        /\ rows[r].plan \/ rows[r].saved => rows[r].task \in Task
    BY RowFacts DEF PollEnds, Calls, RowShape
  <1>2. /\ rest \in RowState /\ rest.step = "idle"
        /\ rest.saved = rows[r].saved /\ rest.task = rows[r].task /\ rest.plan = rows[r].plan
    BY <1>1, RestFields
  <1>. HIDE DEF rest
  <1>3. /\ row \in RowState /\ row.step = "idle" /\ row.phase = "waiting"
        /\ row.saved = rows[r].saved /\ row.task = rows[r].task /\ row.plan = rows[r].plan
    BY <1>2 DEF RowState
  <1>4. SetRow(r, row)
    BY DEF PollEnds, rest
  <1>. HIDE DEF row
  <1>5. RowShape(row)
    BY <1>1, <1>3, SettledShape DEF Settled
  <1>. QED
    BY <1>1, <1>3, <1>4, <1>5, PageKeeps DEF PollEnds

LEMMA StatusFailsKeeps ==
  ASSUME UploadIInv, NEW r \in Row, StatusFails(r)
  PROVE  UploadIInv'
  <1>1. PICK row \in {Expired(rows[r]), Failed(rows[r])} : SetRow(r, row)
    BY DEF StatusFails
  <1>2. RowShape(row) /\ row.task = rows[r].task /\ row.saved = rows[r].saved
    BY <1>1, RowFacts, FailedShape, ExpiredShape
  <1>3. rows[r].step \notin Calls
    BY DEF StatusFails, Calls
  <1>. QED
    BY <1>1, <1>2, <1>3, PageKeeps DEF StatusFails

\* Requests that lose their page fade.
LEMMA AbandonedFades ==
  ASSUME UploadIInv, NEW Q \in SUBSET Request, reqs' = Abandoned(Q)
  PROVE  /\ DOMAIN reqs' = Request /\ \A q \in Request : Fades(q)
         /\ \A q \in Q : reqs'[q].live => FALSE
         /\ \A q \in Request : reqs'[q].live => reqs[q].live
  <1>1. DOMAIN reqs' = Request
    BY DEF Abandoned
  <1>2. ASSUME NEW q \in Request
        PROVE  Fades(q) /\ (reqs'[q].live => reqs[q].live) /\ (q \in Q => ~reqs'[q].live)
    <2>1. reqs[q] = NoReq \/ reqs[q] \in ReqState
      BY RequestFields
    <2>2. NoReq.live = FALSE
      BY DEF NoReq
    <2>3. NoReq \in [op : {"none"}, task : {"none"}, row : {"none"}, live : BOOLEAN,
                    pc : {"none"}, found : {"none"}]
      BY DEF NoReq
    <2>. HIDE DEF NoReq
    <2>7. NoReq = [NoReq EXCEPT !.live = FALSE]
      BY <2>2, <2>3
    <2>4. CASE q \notin Q
      <3>1. reqs'[q] = reqs[q]
        BY <2>4 DEF Abandoned
      <3>. QED
        BY <2>4, <3>1 DEF Fades
    <2>5. CASE q \in Q /\ reqs[q].pc = "reply"
      <3>1. reqs'[q] = NoReq
        BY <2>5 DEF Abandoned
      <3>. QED
        BY <2>2, <3>1 DEF Fades
    <2>6. CASE q \in Q /\ reqs[q].pc # "reply"
      <3>1. reqs'[q] = [reqs[q] EXCEPT !.live = FALSE]
        BY <2>6 DEF Abandoned
      <3>. QED
        BY <2>1, <2>2, <2>7, <3>1 DEF Fades, ReqState
    <2>. QED
      BY <2>4, <2>5, <2>6
  <1>. QED
    BY <1>1, <1>2

LEMMA StopKeeps ==
  ASSUME UploadIInv, NEW r \in Row, Stop(r)
  PROVE  UploadIInv'
  <1>. DEFINE Q == {q \in Request : reqs[q].row = r}
  <1>1. PICK row : row = Rest(Stopped(rows[r]))
    OBVIOUS
  <1>2. RowShape(row) /\ row.task = rows[r].task /\ row.saved = rows[r].saved
    BY <1>1, RowFacts, StoppedShape
  <1>3. reqs' = Abandoned(Q) /\ rows' = [rows EXCEPT ![r] = row]
    BY <1>1 DEF Stop, StoppedReqs, SetRow
  <1>4. /\ DOMAIN reqs' = Request /\ \A q \in Request : Fades(q)
        /\ \A q \in Request : reqs'[q].live => reqs[q].row # r
    BY <1>3, AbandonedFades
  <1>5. UNCHANGED <<kind, original, tasks, routines, stored, late, owner, disturbances>>
    BY DEF Stop
  <1>. QED
    BY <1>2, <1>3, <1>4, <1>5, RowMovesAlone

LEMMA GiveUpKeeps ==
  ASSUME UploadIInv, NEW q \in Request, GiveUp(q)
  PROVE  UploadIInv'
  <1>1. PICK r \in Row : r = reqs[q].row
    BY RequestFields DEF GiveUp
  <1>2. PICK row : row = Failed(rows[r])
    OBVIOUS
  <1>3. RowShape(row) /\ row.task = rows[r].task /\ row.saved = rows[r].saved
    BY <1>2, RowFacts, FailedShape
  <1>4. reqs' = Abandoned({q}) /\ rows' = [rows EXCEPT ![r] = row]
    BY <1>1, <1>2 DEF GiveUp, SetRow
  <1>5. /\ DOMAIN reqs' = Request /\ \A p \in Request : Fades(p)
        /\ \A p \in Request : reqs'[p].live => reqs[p].live /\ p # q
    BY <1>4, AbandonedFades
  <1>6. \A p \in Request : reqs'[p].live => reqs[p].row # r
    BY <1>1, <1>5 DEF GiveUp, UploadIInv, RequestsApart
  <1>7. UNCHANGED <<kind, original, tasks, routines, stored, late, owner, disturbances>>
    BY DEF GiveUp
  <1>. QED
    BY <1>3, <1>4, <1>5, <1>6, <1>7, RowMovesAlone

\* A call that goes out.
Called(r) == [op |-> rows[r].step, task |-> rows[r].task, row |-> r,
              live |-> TRUE, pc |-> "sent", found |-> "none"]

LEMMA SendKeeps ==
  ASSUME UploadIInv, NEW r \in Row, Send(r)
  PROVE  UploadIInv'
  <1>1. PICK q \in Request : Free(q) /\ reqs' = [reqs EXCEPT ![q] = Called(r)]
    BY DEF Send, Called
  <1>2. /\ UNCHANGED <<kind, original, tasks, routines, stored, late, rows, owner, disturbances>>
        /\ rows[r].step \in Calls
    BY DEF Send
  <1>3. \A p \in Request : reqs[p].live => reqs[p].row # r
    BY NotCalling DEF Send
  <1>4. RowShape(rows[r]) /\ rows[r].task \in Task
    BY <1>2, RowFacts DEF RowShape
  <1>5. PICK m : m = Called(r)
    OBVIOUS
  <1>6. /\ m \in ReqState /\ m.op = rows[r].step /\ m.task = rows[r].task /\ m.row = r
        /\ m.live /\ m.pc = "sent"
    BY <1>2, <1>4, <1>5 DEF Called, ReqState, Calls, Ops, Findings
  <1>7. /\ DOMAIN reqs' = Request /\ reqs'[q] = m
        /\ \A p \in Request : p # q => reqs'[p] = reqs[p]
    BY <1>1, <1>5 DEF UploadIInv
  <1>8. ServerTypes' /\ TasksAdvance /\ \A p \in Request : WritersStay(p)
    BY <1>2, TasksRest DEF UploadIInv, ServerTypes, WritersStay
  <1>9. PlaceSound(m)'
    BY <1>6 DEF PlaceSound
  <1>10. ASSUME NEW p \in Request
         PROVE  ReqSound(reqs[p])'
    <2>1. CASE p = q
      BY <1>2, <1>6, <1>7, <1>9, <2>1 DEF ReqSound, PlaceSound, Direct
    <2>2. CASE p # q
      <3>1. PICK o : o = reqs[p]
        OBVIOUS
      <3>2. reqs'[p] = o
        BY <1>7, <2>2, <3>1
      <3>3. \/ o = NoReq
            \/ /\ o \in ReqState
               /\ o.live => rows'[o.row].task = o.task /\ rows'[o.row].step = o.op
               /\ PlaceSound(o)'
        BY <1>2, <1>8, <3>1, OtherRequest
      <3>. QED
        BY <3>2, <3>3 DEF ReqSound, PlaceSound, Direct
    <2>. QED
      BY <2>1, <2>2
  <1>11. RequestsApart'
    <2>1. \A p, o \in Request : reqs'[p].live /\ reqs'[o].live /\ reqs'[p].row = reqs'[o].row => p = o
      BY <1>3, <1>6, <1>7 DEF UploadIInv, RequestsApart
    <2>2. \A p, o \in Request :
            /\ reqs'[p].pc \in {"write", "linked"} /\ reqs'[o].pc \in {"write", "linked"}
            /\ reqs'[p].task = reqs'[o].task
            => p = o
      BY <1>6, <1>7 DEF UploadIInv, RequestsApart
    <2>. QED
      BY <2>1, <2>2 DEF RequestsApart
  <1>12. ASSUME NEW t \in Task
         PROVE  TaskSound(t)' /\ Bound(t)'
    <2>1. Looking(t)' \subseteq Looking(t)
      BY <1>6, <1>7 DEF Looking
    <2>. QED
      BY <1>2, <2>1, OtherTask
  <1>13. DOMAIN rows' = Row /\ (\A s \in Row : RowShape(rows[s]) /\ RowSaved(rows[s]))'
    BY <1>2, <1>8, RowsStay
  <1>14. owner' \in [Task -> Row \cup {"none"}] /\ disturbances' \in 0..MaxDisturbances
    BY <1>2 DEF UploadIInv
  <1>. QED
    BY <1>7, <1>8, <1>10, <1>11, <1>12, <1>13, <1>14 DEF UploadIInv, RoutinesBounded
-----------------------------------------------------------------------------
(* Tasks are prepared. *)

LEMMA RoomIsListed ==
  ASSUME NEW room, MakeRoom(room)
  PROVE  room \subseteq ListedTasks
  BY DEF MakeRoom

\* Making room only takes tasks out of the table.
LEMMA KeptTask ==
  ASSUME UploadIInv, NEW room, MakeRoom(room), NEW t \in Task
  PROVE  /\ Keep(room) \in [Task -> TaskState]
         /\ Keep(room)[t].saved = tasks[t].saved /\ Keep(room)[t].phase = tasks[t].phase
         /\ Keep(room)[t].invalid = tasks[t].invalid /\ (Keep(room)[t].listed => tasks[t].listed)
         /\ Keep(room)[t].again = tasks[t].again
  <1>1. room \subseteq ListedTasks
    BY RoomIsListed
  <1>2. ASSUME NEW u \in Task
        PROVE  /\ Keep(room)[u] \in TaskState
               /\ Keep(room)[u].saved = tasks[u].saved /\ Keep(room)[u].phase = tasks[u].phase
               /\ Keep(room)[u].invalid = tasks[u].invalid /\ (Keep(room)[u].listed => tasks[u].listed)
               /\ Keep(room)[u].again = tasks[u].again
    <2>0. PICK kept \in BOOLEAN : kept = (u \in room)
      <3>1. CASE u \in room
        <4>1. (u \in room) = TRUE
          BY <3>1
        <4>. WITNESS TRUE \in BOOLEAN
        <4>. QED
          BY <4>1
      <3>2. CASE u \notin room
        <4>1. (u \in room) = FALSE
          BY <3>2
        <4>. WITNESS FALSE \in BOOLEAN
        <4>. QED
          BY <4>1
      <3>. QED
        BY <3>1, <3>2
    <2>. DEFINE new == [tasks[u] EXCEPT !.listed = kept]
    <2>1. Keep(room)[u] = new /\ tasks[u] \in TaskState
      BY <2>0, TaskFields DEF Keep
    <2>2. /\ new \in TaskState /\ new.listed = kept /\ new.saved = tasks[u].saved
          /\ new.phase = tasks[u].phase /\ new.invalid = tasks[u].invalid
          /\ new.again = tasks[u].again
      BY <2>1 DEF TaskState
    <2>. HIDE DEF new
    <2>3. u \in room => tasks[u].listed
      BY <1>1 DEF ListedTasks, Listed
    <2>. QED
      BY <2>0, <2>1, <2>2, <2>3
  <1>3. Keep(room) \in [Task -> TaskState]
    <2>. DEFINE kept(u) == [tasks[u] EXCEPT !.listed = u \in room]
    <2>1. Keep(room) = [u \in Task |-> kept(u)]
      BY DEF Keep
    <2>2. \A u \in Task : Keep(room)[u] = kept(u)
      BY DEF Keep
    <2>3. \A u \in Task : kept(u) \in TaskState
      BY <1>2, <2>2
    <2>. HIDE DEF kept
    <2>. QED
      BY <2>1, <2>3
  <1>. QED
    BY <1>2, <1>3

\* While requests rest, a step on tasks that leaves out at most one fresh task
\* from what they are.
LEMMA PreparingKeeps ==
  ASSUME UploadIInv, UNCHANGED <<kind, original, routines, reqs, stored, late, disturbances>>,
         tasks' \in [Task -> TaskState],
         \A t \in Task :
           \/ /\ tasks'[t].saved = tasks[t].saved /\ tasks'[t].phase = tasks[t].phase
              /\ tasks'[t].invalid = tasks[t].invalid /\ (tasks'[t].listed => tasks[t].listed)
           \/ /\ tasks[t].phase = "none" /\ ~tasks'[t].saved /\ ~tasks'[t].invalid
              /\ tasks'[t].phase \in {"waiting", "skipped", "error"},
         owner' \in [Task -> Row \cup {"none"}],
         NEW r \in Row, rows[r].step \notin Calls, NEW row, SetRow(r, row), RowShape(row),
         row.saved => row.task = rows[r].task /\ rows[r].saved
  PROVE  UploadIInv'
  <1>1. ServerTypes'
    BY DEF UploadIInv, ServerTypes
  <1>2. ASSUME NEW t \in Task
        PROVE  /\ TaskSound(t)' /\ Bound(t)'
               /\ tasks[t].saved => tasks'[t].saved
               /\ Lost(tasks[t]) => Lost(tasks'[t])
               /\ Known(tasks[t]) => Known(tasks'[t])
               /\ Decided(tasks[t]) => Decided(tasks'[t])
    <2>1. TaskSound(t) /\ routines[t] \in Nat /\ routines'[t] = routines[t] /\ stored' = stored
      BY TaskFields
    <2>2. CASE /\ tasks'[t].saved = tasks[t].saved /\ tasks'[t].phase = tasks[t].phase
               /\ tasks'[t].invalid = tasks[t].invalid /\ (tasks'[t].listed => tasks[t].listed)
      <3>1. Looking(t)' \subseteq Looking(t)
        BY DEF Looking
      <3>2. TaskSound(t)' /\ Bound(t)'
        BY <2>1, <2>2, <3>1, OtherTask
      <3>. QED
        BY <2>2, <3>2 DEF Lost, Known, Decided
    <2>3. CASE /\ tasks[t].phase = "none" /\ ~tasks'[t].saved /\ ~tasks'[t].invalid
               /\ tasks'[t].phase \in {"waiting", "skipped", "error"}
      <3>1. ~tasks[t].saved /\ ~(routines[t] > 0)
        BY <2>1, <2>3 DEF TaskSound
      <3>2. TaskSound(t)' /\ Bound(t)'
        BY <2>1, <2>3, <3>1 DEF TaskSound, Bound, Known
      <3>. QED
        BY <2>3, <3>1, <3>2 DEF Lost, Known, Decided
    <2>. QED
      BY <2>2, <2>3
  <1>3. TasksAdvance
    BY <1>2 DEF TasksAdvance
  <1>4. ASSUME NEW q \in Request
        PROVE  WritersStay(q)
    <2>. SUFFICES ASSUME reqs[q].pc \in {"write", "linked"}
                  PROVE  /\ tasks'[reqs[q].task].phase = tasks[reqs[q].task].phase
                         /\ tasks'[reqs[q].task].saved = tasks[reqs[q].task].saved
      BY DEF WritersStay
    <2>1. reqs[q].task \in Task /\ tasks[reqs[q].task].phase = "uploading"
      BY HandledRequest DEF PlaceSound
    <2>. QED
      BY <2>1
  <1>5. /\ DOMAIN reqs' = Request /\ (\A q \in Request : Fades(q))
        /\ \A q \in Request : reqs'[q].live => reqs[q].row # r
    BY NotCalling DEF Fades, UploadIInv
  <1>6. rows' = [rows EXCEPT ![r] = row] /\ disturbances' \in 0..MaxDisturbances
    BY DEF SetRow, UploadIInv
  <1>. QED
    BY <1>1, <1>2, <1>3, <1>4, <1>5, <1>6, RowMoves

LEMMA PrepareFailsKeeps ==
  ASSUME UploadIInv, NEW r \in Row, PrepareFails(r)
  PROVE  UploadIInv'
  <1>. DEFINE failed == Failed(rows[r])
  <1>1. RowShape(failed) /\ failed.task = rows[r].task /\ failed.saved = rows[r].saved
    BY RowFacts, FailedShape
  <1>2. /\ rows[r].step \notin Calls
        /\ UNCHANGED <<kind, original, routines, reqs, stored, late, owner, disturbances>>
    BY DEF PrepareFails, Calls
  <1>3. PrepareTooMany \/ UNCHANGED tasks
    BY DEF PrepareFails
  <1>4. /\ tasks' \in [Task -> TaskState]
        /\ \A t \in Task :
             /\ tasks'[t].saved = tasks[t].saved /\ tasks'[t].phase = tasks[t].phase
             /\ tasks'[t].invalid = tasks[t].invalid /\ (tasks'[t].listed => tasks[t].listed)
    <2>1. CASE UNCHANGED tasks
      BY <2>1 DEF UploadIInv, ServerTypes
    <2>2. CASE PrepareTooMany
      <3>1. PICK room : MakeRoom(room) /\ tasks' = Keep(room)
        BY <2>2 DEF PrepareTooMany
      <3>2. \A t \in Task :
             /\ Keep(room) \in [Task -> TaskState]
             /\ Keep(room)[t].saved = tasks[t].saved /\ Keep(room)[t].phase = tasks[t].phase
             /\ Keep(room)[t].invalid = tasks[t].invalid /\ (Keep(room)[t].listed => tasks[t].listed)
        BY <3>1, KeptTask
      <3>3. Keep(room) \in [Task -> TaskState]
        <4>1. CASE Task = {}
          BY <4>1 DEF Keep
        <4>2. CASE Task # {}
          BY <3>2, <4>2
        <4>. QED
          BY <4>1, <4>2
      <3>. QED
        BY <3>1, <3>2, <3>3
    <2>. QED
      BY <1>3, <2>1, <2>2
  <1>5. PICK row : /\ SetRow(r, row) /\ RowShape(row)
                   /\ row.task = rows[r].task /\ row.saved = rows[r].saved
    <2>1. CASE SetRow(r, failed)
      BY <1>1, <2>1
    <2>2. CASE SetRow(r, [failed EXCEPT !.blocked = TRUE])
      <3>. DEFINE row == [failed EXCEPT !.blocked = TRUE]
      <3>. HIDE DEF failed
      <3>1. /\ row \in RowState /\ row.task = failed.task /\ row.saved = failed.saved
            /\ row.plan = failed.plan /\ row.step = failed.step /\ row.phase = failed.phase
        BY <1>1 DEF RowShape, RowState
      <3>2. SetRow(r, row)
        BY <2>2
      <3>. HIDE DEF row
      <3>3. RowShape(row)
        BY <1>1, <3>1 DEF RowShape, Settled
      <3>. QED
        BY <1>1, <3>1, <3>2, <3>3
    <2>. QED
      BY <2>1, <2>2 DEF PrepareFails
  <1>6. owner' \in [Task -> Row \cup {"none"}]
    BY <1>2 DEF UploadIInv
  <1>. QED
    BY <1>2, <1>4, <1>5, <1>6, PreparingKeeps

\* What a new task is.
LEMMA NewTask ==
  /\ Waiting \in TaskState /\ Waiting.phase = "waiting" /\ Waiting.saved = FALSE /\ Waiting.invalid = FALSE
  /\ [Waiting EXCEPT !.phase = "skipped"] \in TaskState
  /\ [Waiting EXCEPT !.phase = "skipped"].phase = "skipped"
  /\ [Waiting EXCEPT !.phase = "skipped"].saved = FALSE
  /\ [Waiting EXCEPT !.phase = "skipped"].invalid = FALSE
  /\ [Waiting EXCEPT !.phase = "error", !.retryable = FALSE] \in TaskState
  /\ [Waiting EXCEPT !.phase = "error", !.retryable = FALSE].phase = "error"
  /\ [Waiting EXCEPT !.phase = "error", !.retryable = FALSE].saved = FALSE
  /\ [Waiting EXCEPT !.phase = "error", !.retryable = FALSE].invalid = FALSE
  <1>1. /\ Waiting \in TaskState /\ Waiting.phase = "waiting" /\ Waiting.saved = FALSE
        /\ Waiting.invalid = FALSE
    BY DEF Waiting, NoTask, TaskState, Phases
  <1>. QED
    BY <1>1 DEF TaskState, Phases

LEMMA PrepareRowKeeps ==
  ASSUME UploadIInv, NEW r \in Row, PrepareRow(r)
  PROVE  UploadIInv'
  <1>1. PICK t \in Task : /\ t = (CHOOSE u \in Fresh : TRUE) /\ tasks[t].phase = "none"
    BY DEF PrepareRow, Fresh
  <1>. DEFINE row0 == [rows[r] EXCEPT !.task = t, !.plan = TRUE]
  <1>2. /\ Prepare(t) /\ owner' = [owner EXCEPT ![t] = r] /\ rows[r].step = "prepare"
        /\ \/ SetRow(r, IF tasks'[t].phase = "waiting" THEN Transferring(row0) ELSE Finish(row0, tasks'[t]))
           \/ SetRow(r, Failed(rows[r]))
        /\ UNCHANGED <<kind, original, routines, reqs, stored, late, disturbances>>
    BY <1>1 DEF PrepareRow
  <1>3. PICK room \in SUBSET Task, new \in TaskState :
          /\ MakeRoom(room) /\ tasks' = [Keep(room) EXCEPT ![t] = new]
          /\ new.saved = FALSE /\ new.invalid = FALSE /\ new.phase \in {"waiting", "skipped", "error"}
    BY <1>2, NewTask DEF Prepare
  <1>4. /\ Keep(room) \in [Task -> TaskState]
        /\ \A u \in Task :
             /\ Keep(room)[u].saved = tasks[u].saved /\ Keep(room)[u].phase = tasks[u].phase
             /\ Keep(room)[u].invalid = tasks[u].invalid /\ (Keep(room)[u].listed => tasks[u].listed)
    BY <1>1, <1>3, KeptTask
  <1>5. /\ tasks' \in [Task -> TaskState] /\ tasks'[t] = new
        /\ \A u \in Task : u # t => tasks'[u] = Keep(room)[u]
    BY <1>1, <1>3, <1>4
  <1>6. \A u \in Task :
           \/ /\ tasks'[u].saved = tasks[u].saved /\ tasks'[u].phase = tasks[u].phase
              /\ tasks'[u].invalid = tasks[u].invalid /\ (tasks'[u].listed => tasks[u].listed)
           \/ /\ tasks[u].phase = "none" /\ ~tasks'[u].saved /\ ~tasks'[u].invalid
              /\ tasks'[u].phase \in {"waiting", "skipped", "error"}
    BY <1>1, <1>3, <1>4, <1>5
  <1>7. owner' \in [Task -> Row \cup {"none"}] /\ rows[r].step \notin Calls
    BY <1>2 DEF UploadIInv, Calls
  <1>8. PICK row : /\ SetRow(r, row) /\ RowShape(row)
                   /\ row.saved => row.task = rows[r].task /\ rows[r].saved
    <2>1. RowShape(rows[r]) /\ rows[r] \in RowState /\ ~rows[r].saved
      BY <1>2, RowFacts DEF RowShape
    <2>2. /\ row0 \in RowState /\ row0.task = t /\ ~row0.saved /\ row0.step = "prepare"
      BY <1>1, <1>2, <2>1 DEF RowState
    <2>3. RowShape(row0)
      BY <1>1, <2>2 DEF RowShape, Calls
    <2>. HIDE DEF row0
    <2>4. CASE SetRow(r, Failed(rows[r]))
      BY <2>1, <2>4, FailedShape
    <2>5. CASE SetRow(r, Transferring(row0))
      <3>. DEFINE row == Transferring(row0)
      <3>1. row \in RowState /\ row.task = t /\ ~row.saved /\ row.step = "transfer"
        BY <2>2 DEF Transferring, RowState, Calls
      <3>2. SetRow(r, row)
        BY <2>5
      <3>. HIDE DEF row
      <3>3. RowShape(row)
        BY <1>1, <3>1 DEF RowShape, Calls
      <3>. QED
        BY <3>1, <3>2, <3>3
    <2>6. CASE new.phase # "waiting" /\ SetRow(r, Finish(row0, new))
      <3>1. /\ Decided(new) /\ (new.saved => new.phase \in {"processing", "done", "error"})
            /\ new.phase = "processing" => new.saved
        BY <1>3, <2>6 DEF Decided
      <3>2. /\ RowShape(Finish(row0, new)) /\ Finish(row0, new).saved = (row0.saved \/ new.saved)
        BY <1>1, <1>3, <2>2, <2>3, <3>1, FinishShape
      <3>. QED
        BY <1>3, <2>2, <2>6, <3>2
    <2>. QED
      BY <1>2, <1>5, <2>4, <2>5, <2>6
  <1>. QED
    BY <1>2, <1>5, <1>6, <1>7, <1>8, PreparingKeeps
-----------------------------------------------------------------------------
(* Requests are answered. *)

\* The request of an answer fades, and its row is not waited for any more.
LEMMA AnsweredFades ==
  ASSUME UploadIInv, NEW q \in Request, reqs' = [reqs EXCEPT ![q] = NoReq]
  PROVE  /\ DOMAIN reqs' = Request /\ reqs'[q] = NoReq /\ \A p \in Request : Fades(p)
         /\ reqs[q].live =>
              \A p \in Request : reqs'[p].live => reqs[p].row # reqs[q].row
  <1>1. DOMAIN reqs' = Request /\ reqs'[q] = NoReq /\ \A p \in Request : p # q => reqs'[p] = reqs[p]
    BY DEF UploadIInv
  <1>2. NoReq.live = FALSE
    BY DEF NoReq
  <1>. HIDE DEF NoReq
  <1>. QED
    BY <1>1, <1>2 DEF Fades, UploadIInv, RequestsApart

LEMMA AnswerKeeps ==
  ASSUME UploadIInv, NEW q \in Request, reqs[q].pc # "none", NEW row, Answer(q, row),
         reqs[q].live =>
           /\ RowShape(row) /\ row.task = rows[reqs[q].row].task
           /\ row.saved => rows[reqs[q].row].saved \/ tasks[reqs[q].task].saved,
         UNCHANGED <<kind, original, tasks, routines, stored, late, owner, disturbances>>
  PROVE  UploadIInv'
  <1>1. PICK r \in Row : r = reqs[q].row
    BY HandledRequest
  <1>2. /\ reqs[q].task \in Task /\ (reqs[q].live => rows[r].task = reqs[q].task)
    BY <1>1, RequestFields
  <1>3. /\ DOMAIN reqs' = Request /\ \A p \in Request : Fades(p)
        /\ reqs[q].live => \A p \in Request : reqs'[p].live => reqs[p].row # r
    BY <1>1, AnsweredFades DEF Answer
  <1>4. CASE reqs[q].live
    <2>1. rows' = [rows EXCEPT ![r] = row]
      BY <1>1, <1>4 DEF Answer
    <2>. QED
      BY <1>1, <1>2, <1>3, <1>4, <2>1, RowMovesAlone
  <1>5. CASE ~reqs[q].live
    <2>1. rows' = rows
      BY <1>5 DEF Answer
    <2>. QED
      BY <1>3, <2>1, RowMovesAlone
  <1>. QED
    BY <1>4, <1>5

LEMMA AnswerExpiredKeeps ==
  ASSUME UploadIInv, NEW q \in Request, AnswerExpired(q)
  PROVE  UploadIInv'
  <1>1. reqs[q].pc # "none" /\ reqs[q].row \in Row
    BY HandledRequest DEF AnswerExpired
  <1>2. PICK row \in {Failed(RowOf(q)), Expired(RowOf(q))} : Answer(q, row)
    BY DEF AnswerExpired
  <1>3. RowShape(row) /\ row.task = rows[reqs[q].row].task /\ row.saved = rows[reqs[q].row].saved
    BY <1>1, <1>2, RowFacts, FailedShape, ExpiredShape DEF RowOf
  <1>. QED
    BY <1>1, <1>2, <1>3, AnswerKeeps DEF AnswerExpired

LEMMA AnswerErrorKeeps ==
  ASSUME UploadIInv, NEW q \in Request, AnswerError(q)
  PROVE  UploadIInv'
  <1>1. reqs[q].pc # "none" /\ reqs[q].row \in Row
    BY HandledRequest DEF AnswerError, At
  <1>2. PICK row : row = Failed(RowOf(q))
    OBVIOUS
  <1>3. RowShape(row) /\ row.task = rows[reqs[q].row].task /\ row.saved = rows[reqs[q].row].saved
    BY <1>1, <1>2, RowFacts, FailedShape DEF RowOf
  <1>. QED
    BY <1>1, <1>2, <1>3, AnswerKeeps DEF AnswerError

\* The answer tells what has become of the task, or the page goes on asking.
LEMMA AnswerTaskKeeps ==
  ASSUME UploadIInv, NEW q \in Request, AnswerTask(q)
  PROVE  UploadIInv'
  <1>1. PICK t \in Task, r \in Row : t = reqs[q].task /\ r = reqs[q].row
    BY HandledRequest DEF AnswerTask
  <1>2. /\ reqs[q] \in ReqState /\ PlaceSound(reqs[q]) /\ reqs[q].pc = "reply"
        /\ reqs[q].live => rows[r].task = t /\ rows[r].step = reqs[q].op
    BY <1>1, HandledRequest, RequestFields DEF AnswerTask
  <1>3. /\ tasks[t] \in TaskState /\ TaskSound(t) /\ RowShape(rows[r]) /\ rows[r] \in RowState
        /\ RowSaved(rows[r])
        /\ tasks[t].saved => tasks[t].phase \in {"processing", "done", "error"}
        /\ tasks[t].phase = "processing" => tasks[t].saved
    BY TaskFields, RowFacts DEF TaskSound
  <1>4. UNCHANGED <<kind, original, tasks, routines, stored, late, owner, disturbances>>
    BY DEF AnswerTask
  <1>5. \/ reqs[q].op = "verify" /\ Answer(q, Verified(rows[r], Answered(q), tasks[t]))
        \/ reqs[q].op = "transfer" /\ kind = "s3" /\ Answer(q, [rows[r] EXCEPT !.step = "complete"])
        \/ /\ reqs[q].op # "verify" /\ ~(reqs[q].op = "transfer" /\ kind = "s3")
           /\ Answer(q, Finish(rows[r], tasks[t]))
    BY <1>1 DEF AnswerTask, RowOf, TaskOf
  <1>6. CASE reqs[q].op = "verify" /\ Answer(q, Verified(rows[r], Answered(q), tasks[t]))
    <2>1. PICK row : row = Verified(rows[r], Answered(q), tasks[t])
      OBVIOUS
    <2>2. Known(tasks[t])
      BY <1>1, <1>2, <1>6 DEF PlaceSound, Direct
    <2>3. ASSUME reqs[q].live
          PROVE  Answered(q) \in {"skipped", "rejected"} \/ rows[r].saved => Decided(tasks[t])
      <3>1. rows[r].saved => tasks[t].saved
        BY <1>2, <1>3, <2>2, <2>3 DEF RowSaved, Known, Lost
      <3>2. Answered(q) \in {"skipped", "rejected"} => Decided(tasks[t])
        <4>1. \/ tasks[t].phase = "skipped"
              \/ tasks[t].saved
              \/ Answered(q) = reqs[q].found
          BY <1>1 DEF Answered, TaskOf
        <4>2. reqs[q].found \in {"skipped", "rejected"} => Decided(tasks[t])
          BY <1>1, <1>2, <1>6 DEF PlaceSound
        <4>. QED
          BY <4>1, <4>2 DEF Decided
      <3>. QED
        BY <3>1, <3>2 DEF Decided
    <2>4. reqs[q].live => /\ RowShape(row) /\ row.task = rows[r].task
                          /\ row.saved = (rows[r].saved \/ tasks[t].saved)
      BY <1>2, <1>3, <2>1, <2>3, VerifiedShape
    <2>5. Answer(q, row)
      BY <1>6, <2>1
    <2>. QED
      BY <1>1, <1>2, <1>4, <2>4, <2>5, AnswerKeeps
  <1>7. CASE Answer(q, [rows[r] EXCEPT !.step = "complete"])
    <2>. DEFINE row == [rows[r] EXCEPT !.step = "complete"]
    <2>1. row \in RowState /\ row.step = "complete" /\ row.saved = rows[r].saved /\ row.task = rows[r].task
      BY <1>3 DEF RowState, Calls
    <2>2. Answer(q, row)
      BY <1>7
    <2>. HIDE DEF row
    <2>3. reqs[q].live => RowShape(row)
      BY <1>1, <1>2, <2>1 DEF RowShape, Calls
    <2>. QED
      BY <1>1, <1>2, <1>4, <2>1, <2>2, <2>3, AnswerKeeps
  <1>8. CASE /\ reqs[q].op # "verify" /\ ~(reqs[q].op = "transfer" /\ kind = "s3")
             /\ Answer(q, Finish(rows[r], tasks[t]))
    <2>1. PICK row : row = Finish(rows[r], tasks[t])
      OBVIOUS
    <2>2. Decided(tasks[t])
      <3>1. reqs[q].op \in Ops /\ kind \in {"local", "s3"}
        BY <1>2 DEF ReqState, UploadIInv, ServerTypes
      <3>2. CASE reqs[q].op = "complete"
        <4>1. reqs[q].found \in {"saved", "skipped", "rejected"}
          BY <1>2, <3>2 DEF PlaceSound, AnswerTask
        <4>. QED
          BY <1>1, <1>2, <3>2, <4>1 DEF PlaceSound
      <3>3. CASE reqs[q].op # "complete"
        <4>1. reqs[q].op = "retry" \/ (reqs[q].op = "transfer" /\ kind = "local")
          BY <1>8, <3>1, <3>3 DEF Ops
        <4>. QED
          BY <1>1, <1>2, <4>1 DEF PlaceSound
      <3>. QED
        BY <3>2, <3>3
    <2>3. reqs[q].live => /\ RowShape(row) /\ row.task = rows[r].task
                          /\ row.saved => rows[r].saved \/ tasks[t].saved
      BY <1>1, <1>2, <2>1, <2>2, FinishedRow
    <2>4. Answer(q, row)
      BY <1>8, <2>1
    <2>. QED
      BY <1>1, <1>2, <1>4, <2>3, <2>4, AnswerKeeps
  <1>. QED
    BY <1>5, <1>6, <1>7, <1>8

\* A transfer fails while it is written.
LEMMA TransferFailsKeeps ==
  ASSUME UploadIInv, NEW q \in Request, TransferFails(q)
  PROVE  UploadIInv'
  <1>1. PICK t \in Task, r \in Row : t = reqs[q].task /\ r = reqs[q].row
    BY HandledRequest DEF TransferFails, At
  <1>2. /\ PlaceSound(reqs[q]) /\ TaskSound(t) /\ tasks[t] \in TaskState /\ reqs[q].pc = "write"
        /\ routines[t] \in Nat
    BY <1>1, HandledRequest DEF TransferFails, At
  <1>3. ~tasks[t].saved /\ tasks[t].phase = "uploading" /\ ~(routines[t] > 0)
    BY <1>1, <1>2 DEF PlaceSound, TaskSound
  <1>4. PICK again \in BOOLEAN : tasks' = [tasks EXCEPT ![t] = FailTransfer(tasks[t], again)]
    BY <1>1 DEF TransferFails
  <1>. DEFINE new == FailTransfer(tasks[t], again)
  <1>5. /\ new \in TaskState /\ new.saved = tasks[t].saved /\ new.listed = tasks[t].listed
        /\ new.phase = "error"
    BY <1>2 DEF TaskState, Phases, FailTransfer
  <1>. HIDE DEF new
  <1>6. /\ tasks' \in [Task -> TaskState] /\ tasks'[t] = new
        /\ \A u \in Task : u # t => tasks'[u] = tasks[u]
    BY <1>4, <1>5, TaskBecomes DEF new
  <1>7. UNCHANGED <<kind, original, routines, stored, late, owner, disturbances>>
    BY DEF TransferFails
  <1>8. PICK row : row = Failed(rows[r])
    OBVIOUS
  <1>9. RowShape(row) /\ row.task = rows[r].task /\ row.saved = rows[r].saved
    BY <1>8, RowFacts, FailedShape
  <1>10. /\ DOMAIN reqs' = Request /\ reqs'[q] = NoReq /\ (\A p \in Request : Fades(p))
         /\ reqs[q].live => \A p \in Request : reqs'[p].live => reqs[p].row # r
         /\ rows' = IF reqs[q].live THEN [rows EXCEPT ![r] = row] ELSE rows
    BY <1>1, <1>8, AnsweredFades DEF TransferFails, Answer, RowOf
  <1>11. ServerTypes'
    BY <1>6, <1>7 DEF UploadIInv, ServerTypes
  <1>12. TasksAdvance
    BY <1>3, <1>5, <1>6 DEF TasksAdvance, Known, Lost, Decided
  <1>13. ASSUME NEW p \in Request
         PROVE  reqs'[p] = NoReq \/ WritersStay(p)
    <2>1. CASE p = q
      BY <1>10, <2>1
    <2>2. CASE p # q
      <3>1. reqs[p].pc \in {"write", "linked"} => reqs[p].task \in Task /\ reqs[p].task # t
        BY <1>1, <1>2, <2>2, NoOtherWriter, HandledRequest
      <3>. QED
        BY <1>6, <3>1 DEF WritersStay
    <2>. QED
      BY <2>1, <2>2
  <1>14. ASSUME NEW u \in Task
         PROVE  TaskSound(u)' /\ Bound(u)'
    <2>1. CASE u = t
      BY <1>2, <1>3, <1>5, <1>6, <1>7, <2>1 DEF TaskSound, Bound, Known, Decided
    <2>2. CASE u # t
      <3>1. Looking(u)' \subseteq Looking(u)
        BY <1>10, FadingLooks
      <3>. QED
        BY <1>6, <1>7, <2>2, <3>1, OtherTask
    <2>. QED
      BY <2>1, <2>2
  <1>15. owner' \in [Task -> Row \cup {"none"}] /\ disturbances' \in 0..MaxDisturbances
    BY <1>7 DEF UploadIInv
  <1>. QED
    BY <1>7, <1>9, <1>10, <1>11, <1>12, <1>13, <1>14, <1>15, RowMoves
-----------------------------------------------------------------------------
(* Goroutines, other programs, restarts. *)

LEMMA RoutineEndsKeeps ==
  ASSUME UploadIInv, NEW t \in Task, RoutineEnds(t), UNCHANGED <<rows, owner, disturbances>>
  PROVE  UploadIInv'
  <1>1. /\ tasks[t] \in TaskState /\ TaskSound(t) /\ Bound(t) /\ routines \in [Task -> Nat]
        /\ tasks[t].saved /\ routines[t] \in Nat /\ routines[t] > 0
    BY TaskFields DEF RoutineEnds, TaskSound, UploadIInv, RoutinesBounded, ServerTypes
  <1>2. PICK new \in TaskState :
          /\ tasks' = [tasks EXCEPT ![t] = new] /\ new.saved /\ new.phase \in {"done", "error"}
    <2>. DEFINE done == [tasks[t] EXCEPT !.phase = "done"]
                failed(retryable) == [tasks[t] EXCEPT !.phase = "error", !.retryable = retryable]
    <2>1. \/ tasks' = [tasks EXCEPT ![t] = done]
          \/ \E retryable \in BOOLEAN : tasks' = [tasks EXCEPT ![t] = failed(retryable)]
      BY <1>1 DEF RoutineEnds, UploadIInv, ServerTypes
    <2>2. done \in TaskState /\ done.saved = tasks[t].saved /\ done.phase = "done"
      BY <1>1 DEF TaskState, Phases
    <2>3. \A retryable \in BOOLEAN :
            /\ failed(retryable) \in TaskState /\ failed(retryable).saved = tasks[t].saved
            /\ failed(retryable).phase = "error"
      BY <1>1 DEF TaskState, Phases
    <2>. HIDE DEF done, failed
    <2>. QED
      BY <1>1, <2>1, <2>2, <2>3
  <1>3. /\ tasks' \in [Task -> TaskState] /\ tasks'[t] = new
        /\ \A u \in Task : u # t => tasks'[u] = tasks[u]
    BY <1>2, TaskBecomes
  <1>4. /\ routines' \in [Task -> Nat] /\ routines'[t] = routines[t] - 1
        /\ \A u \in Task : u # t => routines'[u] = routines[u]
        /\ UNCHANGED <<kind, original, reqs, stored, late>>
    <2>1. routines' = [routines EXCEPT ![t] = @ - 1] /\ routines[t] - 1 \in Nat
      BY <1>1 DEF RoutineEnds
    <2>. QED
      BY <1>1, <2>1 DEF RoutineEnds
  <1>5. ServerTypes'
    BY <1>3, <1>4 DEF UploadIInv, ServerTypes
  <1>6. ~Lost(tasks[t])
    BY <1>1 DEF TaskSound, Lost
  <1>7. TasksAdvance
    BY <1>2, <1>3, <1>6 DEF TasksAdvance, Known, Lost, Decided
  <1>8. DOMAIN reqs' = Request /\ \A q \in Request : Fades(q)
    BY <1>4 DEF UploadIInv, Fades
  <1>9. ASSUME NEW q \in Request
        PROVE  WritersStay(q)
    <2>1. reqs[q].pc \in {"write", "linked"} => reqs[q].task \in Task /\ ~tasks[reqs[q].task].saved
      BY HandledRequest DEF PlaceSound
    <2>. QED
      BY <1>1, <1>3, <2>1 DEF WritersStay
  <1>10. ASSUME NEW u \in Task
         PROVE  TaskSound(u)' /\ Bound(u)'
    <2>1. Looking(u)' = Looking(u)
      BY <1>4 DEF Looking
    <2>2. CASE u = t
      <3>1. TaskSound(t)'
        BY <1>1, <1>2, <1>3, <1>4 DEF TaskSound, Known, Decided
      <3>2. Bound(t)'
        <4>. DEFINE looking == Cardinality(Looking(t))
        <4>1. looking \in Nat /\ Cardinality(Request) \in Nat
          BY LookingFinite
        <4>2. routines[t] + looking + (IF tasks[t].phase \in {"processing", "done"} THEN 0 ELSE 1)
                <= Cardinality(Request)
          BY <1>1 DEF Bound
        <4>3. Bound(t)' <=> (tasks'[t].saved =>
                routines'[t] + looking + (IF tasks'[t].phase \in {"processing", "done"} THEN 0 ELSE 1)
                  <= Cardinality(Request))
          BY <2>1, <2>2 DEF Bound
        <4>. HIDE DEF looking
        <4>. QED
          BY <1>1, <1>4, <4>1, <4>2, <4>3
      <3>. QED
        BY <2>2, <3>1, <3>2
    <2>3. CASE u # t
      BY <1>3, <1>4, <2>1, <2>3, OtherTask
    <2>. QED
      BY <2>2, <2>3
  <1>11. owner' \in [Task -> Row \cup {"none"}] /\ disturbances' \in 0..MaxDisturbances
    BY DEF UploadIInv
  <1>. QED
    BY <1>4, <1>5, <1>7, <1>8, <1>9, <1>10, <1>11, RowMoves

LEMMA ElsewhereKeeps ==
  ASSUME UploadIInv, Elsewhere
  PROVE  UploadIInv'
  <1>1. /\ original' \in {Nobody, Stranger} /\ disturbances' = disturbances + 1
        /\ disturbances < MaxDisturbances
        /\ UNCHANGED <<kind, tasks, routines, reqs, stored, late, rows, owner>>
    BY DEF Elsewhere
  <1>2. original'.by \notin Task
    BY <1>1 DEF Nobody, Stranger
  <1>3. ServerTypes'
    BY <1>1, <1>2 DEF UploadIInv, ServerTypes
  <1>4. TasksAdvance /\ DOMAIN reqs' = Request /\ \A q \in Request : Fades(q) /\ WritersStay(q)
    BY <1>1, TasksRest DEF UploadIInv, Fades, WritersStay
  <1>5. \A t \in Task : TaskSound(t)' /\ Bound(t)'
    BY <1>1, <1>4, FadingLooks, OtherTask
  <1>6. owner' \in [Task -> Row \cup {"none"}] /\ disturbances' \in 0..MaxDisturbances
    BY <1>1 DEF UploadIInv
  <1>. QED
    BY <1>1, <1>3, <1>4, <1>5, <1>6, RowMoves

\* After a restart no task is known, and only direct transfers go on.
LEMMA RestartKeeps ==
  ASSUME UploadIInv, Restart
  PROVE  UploadIInv'
  <1>1. /\ disturbances' = disturbances + 1 /\ disturbances < MaxDisturbances
        /\ tasks' = [t \in Task |-> IF tasks[t].phase = "none" THEN NoTask ELSE Gone]
        /\ routines' = [t \in Task |-> 0]
        /\ reqs' = [q \in Request |-> IF Direct(reqs[q]) THEN reqs[q] ELSE NoReq]
        /\ rows' = [r \in Row |-> IF \E q \in Request : /\ reqs[q].live /\ reqs[q].row = r
                                                        /\ ~Direct(reqs[q])
                                  THEN Failed(rows[r]) ELSE rows[r]]
        /\ UNCHANGED <<kind, original, stored, late, owner>>
    BY DEF Restart, Direct
  <1>2. /\ NoTask \in TaskState /\ NoTask.saved = FALSE /\ NoTask.listed = FALSE
        /\ NoTask.invalid = FALSE /\ NoTask.phase = "none"
    BY DEF NoTask, TaskState, Phases
  <1>3. /\ Gone \in TaskState /\ Gone.saved = FALSE /\ Gone.listed = FALSE
        /\ Gone.invalid = FALSE /\ Gone.phase = "gone"
    <2>. HIDE DEF NoTask
    <2>. QED
      BY <1>2 DEF Gone, TaskState, Phases
  <1>4. ASSUME NEW t \in Task
        PROVE  /\ tasks'[t] \in TaskState /\ tasks'[t].saved = FALSE /\ tasks'[t].listed = FALSE
               /\ tasks'[t].invalid = FALSE /\ tasks'[t].phase \in {"none", "gone"}
               /\ tasks[t].phase # "none" => Lost(tasks'[t])
               /\ routines'[t] = 0
    <2>. HIDE DEF NoTask, Gone
    <2>. QED
      BY <1>1, <1>2, <1>3 DEF Lost
  <1>5. ServerTypes'
    <2>1. tasks' \in [Task -> TaskState] /\ routines' \in [Task -> Nat]
      <3>. HIDE DEF NoTask, Gone
      <3>. QED
        BY <1>1, <1>2, <1>3
    <2>. QED
      BY <1>1, <2>1 DEF UploadIInv, ServerTypes
  <1>6. ASSUME NEW t \in Task
        PROVE  TaskSound(t)' /\ Bound(t)'
    <2>1. TaskSound(t)'
      <3>1. /\ tasks'[t].saved = FALSE /\ tasks'[t].listed = FALSE /\ tasks'[t].invalid = FALSE
            /\ tasks'[t].phase \in {"none", "gone"} /\ routines'[t] = 0
        BY <1>4
      <3>. QED
        BY <3>1 DEF TaskSound
    <2>2. Bound(t)'
      BY <1>4 DEF Bound
    <2>. QED
      BY <2>1, <2>2
  <1>7. NoReq.live = FALSE /\ NoReq.pc = "none"
    BY DEF NoReq
  <1>8. ASSUME NEW q \in Request
        PROVE  ReqSound(reqs[q])'
    <2>. HIDE DEF NoReq
    <2>1. PICK m : m = reqs'[q]
      OBVIOUS
    <2>2. CASE m = NoReq
      BY <2>1, <2>2 DEF ReqSound
    <2>3. CASE m # NoReq
      <3>1. m = reqs[q] /\ Direct(m)
        BY <1>1, <2>1, <2>3
      <3>2. m \in ReqState /\ PlaceSound(m) /\ m.row \in Row
        BY <2>3, <3>1, RequestFields DEF ReqState, NoReq
      <3>3. m.live => rows'[m.row].task = m.task /\ rows'[m.row].step = m.op
        <4>. SUFFICES ASSUME m.live
                      PROVE  rows'[m.row].task = m.task /\ rows'[m.row].step = m.op
          OBVIOUS
        <4>1. ~ \E p \in Request : reqs[p].live /\ reqs[p].row = m.row /\ ~Direct(reqs[p])
          BY <3>1 DEF UploadIInv, RequestsApart
        <4>2. rows'[m.row] = rows[m.row]
          BY <1>1, <3>2, <4>1
        <4>3. rows[m.row].task = m.task /\ rows[m.row].step = m.op
          BY <3>1, RequestFields
        <4>. QED
          BY <4>2, <4>3
      <3>4. PlaceSound(m)'
        BY <1>1, <3>1, <3>2 DEF PlaceSound, Direct
      <3>. QED
        BY <2>1, <3>2, <3>3, <3>4 DEF ReqSound
    <2>. QED
      BY <2>2, <2>3
  <1>9. RequestsApart'
    <2>. HIDE DEF NoReq
    <2>1. \A q \in Request : reqs'[q] = reqs[q] \/ reqs'[q] = NoReq
      BY <1>1
    <2>. QED
      BY <1>7, <2>1 DEF UploadIInv, RequestsApart
  <1>10. ASSUME NEW r \in Row
         PROVE  (RowShape(rows[r]) /\ RowSaved(rows[r]))'
    <2>1. RowShape(rows[r]) /\ RowSaved(rows[r])
      BY RowFacts
    <2>2. PICK row : row = rows'[r]
      OBVIOUS
    <2>3. RowShape(row) /\ row.task = rows[r].task /\ row.saved = rows[r].saved
      <3>1. row \in {Failed(rows[r]), rows[r]}
        BY <1>1, <2>2
      <3>. QED
        BY <2>1, <3>1, FailedShape
    <2>4. ASSUME row.saved
          PROVE  row.task \in stored' /\ Lost(tasks'[row.task])
      <3>1. /\ row.task \in stored /\ row.task \in Task
            /\ tasks[row.task].saved \/ Lost(tasks[row.task])
        BY <2>1, <2>3, <2>4 DEF RowSaved, RowShape
      <3>2. tasks[row.task].phase # "none"
        BY <3>1, TaskFields DEF TaskSound, Lost
      <3>. QED
        BY <1>1, <1>4, <3>1, <3>2
    <2>. QED
      BY <2>2, <2>3, <2>4 DEF RowSaved, RowShape
  <1>11. /\ DOMAIN rows' = Row /\ DOMAIN reqs' = Request
         /\ owner' \in [Task -> Row \cup {"none"}] /\ disturbances' \in 0..MaxDisturbances
    BY <1>1 DEF UploadIInv
  <1>. QED
    BY <1>5, <1>6, <1>8, <1>9, <1>10, <1>11 DEF UploadIInv, RoutinesBounded
-----------------------------------------------------------------------------
(* The invariant, and what follows from it. *)

LEMMA UploadInit == Init => UploadIInv
  <1>. SUFFICES ASSUME Init
                PROVE  UploadIInv
    OBVIOUS
  <1>1. /\ NoTask \in TaskState /\ NoTask.saved = FALSE /\ NoTask.listed = FALSE
        /\ NoTask.invalid = FALSE /\ NoTask.phase = "none"
    BY DEF NoTask, TaskState, Phases
  <1>2. NoReq.live = FALSE /\ NoReq.pc = "none"
    BY DEF NoReq
  <1>3. Chosen \in RowState /\ Chosen.step = "idle" /\ Chosen.phase = "pending" /\ ~Chosen.saved /\ ~Chosen.plan
    BY DEF Chosen, RowState, Calls
  <1>4. RowShape(Chosen)
    BY <1>3 DEF RowShape, Settled, Calls
  <1>. HIDE DEF NoTask, NoReq, Chosen
  <1>5. /\ kind \in {"local", "s3"} /\ original \in {Nobody, Stranger}
        /\ tasks = [t \in Task |-> NoTask] /\ routines = [t \in Task |-> 0]
        /\ reqs = [q \in Request |-> NoReq] /\ stored = {} /\ late = {}
        /\ rows = [r \in Row |-> Chosen] /\ owner = [t \in Task |-> "none"] /\ disturbances = 0
    BY DEF Init, ServerInit
  <1>6. ServerTypes
    <2>1. original.by \notin Task
      BY <1>5 DEF Nobody, Stranger
    <2>. QED
      BY <1>1, <1>5, <2>1 DEF ServerTypes
  <1>7. \A t \in Task : TaskSound(t) /\ Bound(t)
    BY <1>1, <1>5 DEF TaskSound, Bound
  <1>8. (\A q \in Request : ReqSound(reqs[q])) /\ RequestsApart /\ DOMAIN reqs = Request
    BY <1>2, <1>5 DEF ReqSound, RequestsApart
  <1>9. DOMAIN rows = Row /\ \A r \in Row : RowShape(rows[r]) /\ RowSaved(rows[r])
    BY <1>3, <1>4, <1>5 DEF RowSaved
  <1>10. owner \in [Task -> Row \cup {"none"}] /\ disturbances \in 0..MaxDisturbances
    BY <1>5
  <1>. QED
    BY <1>6, <1>7, <1>8, <1>9, <1>10 DEF UploadIInv, RoutinesBounded

LEMMA UploadStep == UploadIInv /\ [Next]_vars => UploadIInv'
  <1>. SUFFICES ASSUME UploadIInv, [Next]_vars
                PROVE  UploadIInv'
    OBVIOUS
  <1>1. CASE UNCHANGED vars
    <2>1. /\ UNCHANGED <<kind, original, tasks, routines, reqs, stored, late>>
          /\ UNCHANGED <<rows, owner, disturbances>>
      BY <1>1 DEF vars, serverVars
    <2>2. /\ ServerTypes' /\ TasksAdvance /\ DOMAIN reqs' = Request
          /\ \A q \in Request : Fades(q) /\ WritersStay(q)
      BY <2>1, TasksRest DEF UploadIInv, ServerTypes, Fades, WritersStay
    <2>3. \A t \in Task : TaskSound(t)' /\ Bound(t)'
      BY <2>1, <2>2, FadingLooks, OtherTask
    <2>4. owner' \in [Task -> Row \cup {"none"}] /\ disturbances' \in 0..MaxDisturbances
      BY <2>1 DEF UploadIInv
    <2>. QED
      BY <2>1, <2>2, <2>3, <2>4, RowMoves
  <1>2. ASSUME NEW r \in Row, Start(r) \/ Stop(r) \/ RowGoesOn(r)
        PROVE  UploadIInv'
    BY <1>2, StartKeepsRow, StopKeeps, SendKeeps, SendFailsKeeps, PrepareRowKeeps, PrepareFailsKeeps,
       StatusFirstKeeps, PollKeeps, PollEndsKeeps, StatusFailsKeeps DEF RowGoesOn
  <1>3. ASSUME NEW q \in Request, ServerGoesOn(q) \/ GiveUp(q)
        PROVE  UploadIInv'
    BY <1>3, HandleKeeps, AnswerExpiredKeeps, AnswerErrorKeeps, TransferFailsKeeps, AnswerTaskKeeps,
       GiveUpKeeps DEF ServerGoesOn
  <1>4. ASSUME NEW t \in Task, RoutineEnds(t), UNCHANGED <<rows, owner, disturbances>>
        PROVE  UploadIInv'
    BY <1>4, RoutineEndsKeeps
  <1>. QED
    BY <1>1, <1>2, <1>3, <1>4, RestartKeeps, ElsewhereKeeps DEF Next

\* The inductive invariant of uploads: what a handler knows of the task it goes on
\* with after the lock was free, what a page knows of its task, and how many
\* goroutines a task can have at most.
THEOREM UploadsAlwaysSound == Spec => []UploadIInv
  <1>1. Init => UploadIInv
    BY UploadInit
  <1>2. UploadIInv /\ [Next]_vars => UploadIInv'
    BY UploadStep
  <1>. QED
    BY <1>1, <1>2, PTL DEF Spec

\* The tables of requests and rows are functions.
Tables == /\ reqs = [q \in Request |-> reqs[q]]
          /\ rows = [r \in Row |-> rows[r]]

LEMMA TablesStay ==
  ASSUME UploadIInv, Tables, [Next]_vars
  PROVE  Tables'
  <1>1. DOMAIN reqs = Request /\ DOMAIN rows = Row
    BY DEF UploadIInv
  <1>2. \/ reqs' = reqs
        \/ \E q, m : reqs' = [reqs EXCEPT ![q] = m]
        \/ \E Q : reqs' = Abandoned(Q)
        \/ reqs' = [q \in Request |-> reqs'[q]]
    <2>1. ASSUME NEW q \in Request, Handle(q)
          PROVE  \E m : reqs' = [reqs EXCEPT ![q] = m]
      BY <2>1 DEF Handle, Claim, Link, LinkExists, Linked, LookAtTask, StatObject, ActOnFinding,
                  LookBeforeRetry, RetryStarts, Land, To, Finds, Replies
    <2>2. ASSUME NEW q \in Request, AnswerExpired(q) \/ AnswerError(q) \/ TransferFails(q) \/ AnswerTask(q)
          PROVE  \E m : reqs' = [reqs EXCEPT ![q] = m]
      BY <2>2 DEF AnswerExpired, AnswerError, TransferFails, AnswerTask, Answer
    <2>3. ASSUME NEW r \in Row, Start(r) \/ RowGoesOn(r)
          PROVE  reqs' = reqs \/ \E q, m : reqs' = [reqs EXCEPT ![q] = m]
      BY <2>3 DEF Start, RowGoesOn, Send, SendFails, PrepareRow, PrepareFails, StatusFirst, Poll, PollEnds,
                  StatusFails, serverVars
    <2>4. ASSUME NEW r \in Row, Stop(r)
          PROVE  \E Q : reqs' = Abandoned(Q)
      BY <2>4 DEF Stop, StoppedReqs
    <2>5. ASSUME NEW q \in Request, GiveUp(q)
          PROVE  \E Q : reqs' = Abandoned(Q)
      BY <2>5 DEF GiveUp
    <2>6. Restart => reqs' = [q \in Request |-> reqs'[q]]
      BY DEF Restart
    <2>7. UNCHANGED vars \/ Elsewhere \/ (\E t \in Task : RoutineEnds(t)) => reqs' = reqs
      BY DEF vars, serverVars, Elsewhere, RoutineEnds
    <2>. QED
      BY <2>1, <2>2, <2>3, <2>4, <2>5, <2>6, <2>7 DEF Next, ServerGoesOn
  <1>3. \/ rows' = rows
        \/ \E r, row : rows' = [rows EXCEPT ![r] = row]
        \/ rows' = [r \in Row |-> rows'[r]]
    <2>1. ASSUME NEW q \in Request, ServerGoesOn(q) \/ GiveUp(q)
          PROVE  rows' = rows \/ \E r, row : rows' = [rows EXCEPT ![r] = row]
      BY <2>1 DEF ServerGoesOn, AnswerExpired, AnswerError, TransferFails, AnswerTask, Answer, GiveUp, SetRow
    <2>2. ASSUME NEW r \in Row, Start(r) \/ Stop(r) \/ RowGoesOn(r)
          PROVE  rows' = rows \/ \E row : rows' = [rows EXCEPT ![r] = row]
      BY <2>2 DEF Start, Stop, RowGoesOn, Send, SendFails, PrepareRow, PrepareFails, StatusFirst, Poll,
                  PollEnds, StatusFails, SetRow
    <2>3. Restart => rows' = [r \in Row |-> rows'[r]]
      BY DEF Restart
    <2>4. UNCHANGED vars \/ Elsewhere => rows' = rows
      BY DEF vars, Elsewhere
    <2>. QED
      BY <2>1, <2>2, <2>3, <2>4 DEF Next
  <1>4. reqs' = [q \in Request |-> reqs'[q]]
    BY <1>1, <1>2 DEF Tables, Abandoned
  <1>5. rows' = [r \in Row |-> rows'[r]]
    BY <1>1, <1>3 DEF Tables
  <1>. QED
    BY <1>4, <1>5 DEF Tables

\* Every task of upload.go that is shown as being processed has a goroutine that
\* will say how it ended; a task never has more goroutines than there are requests
\* at once.
THEOREM ProcessingIsAlwaysWorkedOn == Spec => []UploadInv
  <1>1. UploadIInv /\ Tables => UploadInv
    <2>. SUFFICES ASSUME UploadIInv, Tables
                  PROVE  UploadInv
      OBVIOUS
    <2>1. ASSUME NEW t \in Task
          PROVE  routines[t] \in 0..Cardinality(Request)
      <3>. DEFINE looking == Cardinality(Looking(t))
      <3>1. /\ routines[t] \in Nat /\ looking \in Nat /\ Cardinality(Request) \in Nat
            /\ TaskSound(t)
        BY TaskFields, LookingFinite
      <3>2. tasks[t].saved =>
              routines[t] + looking + (IF tasks[t].phase \in {"processing", "done"} THEN 0 ELSE 1)
                <= Cardinality(Request)
        BY DEF UploadIInv, RoutinesBounded, Bound
      <3>3. ~tasks[t].saved => routines[t] = 0
        BY <3>1 DEF TaskSound
      <3>. HIDE DEF looking
      <3>. QED
        BY <3>1, <3>2, <3>3
    <2>2. routines \in [Task -> 0..Cardinality(Request)]
      BY <2>1 DEF UploadIInv, ServerTypes
    <2>3. reqs \in [Request -> ReqState \cup {NoReq}]
      <3>1. reqs = [q \in Request |-> reqs[q]]
        BY DEF Tables
      <3>2. \A q \in Request : reqs[q] \in ReqState \cup {NoReq}
        BY RequestFields
      <3>. HIDE DEF NoReq, ReqState
      <3>. QED
        BY <3>1, <3>2
    <2>4. rows \in [Row -> RowState]
      <3>1. \A r \in Row : rows[r] \in RowState
        BY RowFacts
      <3>. QED
        BY <3>1 DEF Tables
    <2>5. ProcessingHasWork
      BY DEF UploadIInv, TaskSound, ProcessingHasWork
    <2>. QED
      BY <2>2, <2>3, <2>4, <2>5 DEF UploadIInv, ServerTypes, UploadInv, UploadTypeOK, RowTypeOK
  <1>2. Init => Tables
    BY DEF Init, ServerInit, Tables
  <1>3. UploadIInv /\ Tables /\ [Next]_vars => Tables'
    BY TablesStay
  <1>. QED
    BY <1>1, <1>2, <1>3, UploadsAlwaysSound, PTL DEF Spec

\* verifySaved, start and the page say "saved" only of an original that a transfer
\* of this very task put at the path.
THEOREM SavedIsAlwaysStored == Spec => []SavedIsStored
  <1>1. UploadIInv => SavedIsStored
    BY DEF UploadIInv, TaskSound, RowSaved, SavedIsStored
  <1>. QED
    BY <1>1, UploadsAlwaysSound, PTL

\* However a run of upload-batch.ts ends, it leaves its row in a decided phase.
THEOREM RestingRowsAreSettled == Spec => []RestingRowIsSettled
  <1>1. UploadIInv => RestingRowIsSettled
    BY DEF UploadIInv, RowShape, Settled, RestingRowIsSettled, Active
  <1>. QED
    BY <1>1, UploadsAlwaysSound, PTL
-----------------------------------------------------------------------------
(* A photo is not skipped for its own original. *)

\* What a page makes of such a task is not "skipped", nor that it may be sent again.
Fit(task) == task.phase # "skipped" /\ (task.phase = "error" /\ ~task.saved => ~task.again)

\* The task was prepared for the row, and is no new one any more.
PreparedFor(t, r) == owner[t] = r /\ tasks[t].phase # "none"

\* The original at the path is the row's, or is being written, by the transfer t.
Held(r, t) == /\ r \notin late /\ owner[t] = r
              /\ original.by = t \/ (kind = "local" /\ tasks[t].phase = "uploading")

Owned == /\ \A q \in Request : reqs[q] # NoReq => PreparedFor(reqs[q].task, reqs[q].row)
         /\ \A r \in Row : rows[r].task \in Task => PreparedFor(rows[r].task, r)
         /\ \A t \in stored : tasks[t].phase # "none"

\* In the local directory, a task that has put its original there is known to have.
Placed(task) == task.saved \/ task.phase \in {"gone", "uploading"}
LocalSound == kind = "local" => /\ \A t \in stored : Placed(tasks[t])
                                /\ \A q \in Request : reqs[q].pc = "write" => reqs[q].task \notin stored

\* A row that believes its original to be absent does not wait for it.
RowKnows(row) == /\ row.step = "transfer" => ~row.absent
                 /\ Active(row) => ~(row.absent /\ row.plan)
                 /\ row.saved => ~row.absent

\* A row that sends its task to a storage, or would if it were started.
MayTransfer(row) == \/ row.step = "transfer"
                    \/ ~Active(row) /\ row.absent /\ row.plan /\ ~row.blocked
FitToTransfer ==
  kind = "s3" => \A r \in Row \ late : MayTransfer(rows[r]) => Fit(tasks[rows[r].task])

\* A row whose original is there keeps its task, and does not prepare another one.
HoldsOn(row, t) == /\ row.task = t /\ row.step # "prepare"
                   /\ row.absent => row.blocked /\ ~Active(row)
HeldSound == \A r \in Row, t \in Task : Held(r, t) => HoldsOn(rows[r], t) /\ Fit(tasks[t])

\* A verification is about to tell its page that the original is not there.
Amiss(m) == m.live /\ m.pc \in {"act", "reply"} /\ m.found \in {"absent", "foreign"}
AmissSound == \A q \in Request : Amiss(reqs[q]) => ~Held(reqs[q].row, reqs[q].task)

OwnSound == /\ Owned /\ LocalSound /\ \A r \in Row : RowKnows(rows[r])
            /\ FitToTransfer /\ HeldSound /\ AmissSound

\* What OwnIsNotSkipped says of a step.
NotSkippedForOwn ==
  \A r \in Row : rows[r].phase # "skipped" /\ rows'[r].phase = "skipped" =>
    \A u \in Task : original.by = u => owner[u] # r \/ r \in late
-----------------------------------------------------------------------------
(* Rows: what an answer makes of them. *)

\* The row goes on as new, by what it is told of its task.
GoodRow(row, new, task) ==
  /\ new.task = row.task /\ RowKnows(new)
  /\ MayTransfer(new) => MayTransfer(row) \/ Fit(task)
  /\ Fit(task) => \A t \in Task : HoldsOn(row, t) =>
       HoldsOn(new, t) /\ (new.phase = "skipped" => row.phase = "skipped")

LEMMA SameRow ==
  ASSUME NEW row, RowKnows(row), NEW task
  PROVE  GoodRow(row, row, task)
  BY DEF GoodRow

LEMMA RowBooleans ==
  ASSUME NEW row, RowShape(row)
  PROVE  /\ row \in RowState /\ row.saved \in BOOLEAN /\ row.absent \in BOOLEAN /\ row.plan \in BOOLEAN
         /\ row.blocked \in BOOLEAN /\ row.recovering \in BOOLEAN
         /\ row.task \in Task \cup {"none"} /\ "none" \notin Task
         /\ row.task = "none" => ~row.plan /\ ~row.saved
  <1>1. "none" \notin Task
    BY UploadConstants
  <1>2. row \in RowState /\ (row.plan \/ row.saved => row.task \in Task)
    BY DEF RowShape
  <1>. QED
    BY <1>1, <1>2 DEF RowState

\* Most answers leave an active row at rest, or asking about its photo.
LEMMA GoodWhen ==
  ASSUME NEW row, RowShape(row), RowKnows(row), Active(row), NEW task, NEW new \in RowState,
         new.task = row.task, new.step \notin {"transfer", "prepare"},
         new.saved => ~new.absent, ~(new.absent /\ new.plan),
         Fit(task) => /\ new.absent => row.absent \/ row.task = "none" \/ (new.blocked /\ new.step = "idle")
                      /\ new.phase = "skipped" => row.phase = "skipped"
  PROVE  GoodRow(row, new, task)
  <1>1. RowKnows(new) /\ ~MayTransfer(new)
    BY DEF RowKnows, MayTransfer
  <1>2. ASSUME NEW t \in Task, HoldsOn(row, t), Fit(task)
        PROVE  HoldsOn(new, t)
    <2>1. ~row.absent /\ row.task = t /\ t # "none"
      BY <1>2, RowBooleans DEF HoldsOn
    <2>2. new.absent => new.blocked /\ ~Active(new)
      BY <1>2, <2>1 DEF Active
    <2>. QED
      BY <2>1, <2>2 DEF HoldsOn
  <1>. QED
    BY <1>1, <1>2 DEF GoodRow

LEMMA UnsureGood ==
  ASSUME NEW row, RowShape(row), RowKnows(row), Active(row), NEW task
  PROVE  GoodRow(row, Unsure(row), task)
  <1>. DEFINE rest == Rest(row)
              new == [rest EXCEPT !.phase = IF row.saved THEN "waiting" ELSE "uncertain", !.blocked = FALSE]
  <1>1. /\ rest \in RowState /\ rest.step = "idle" /\ rest.saved = row.saved /\ rest.task = row.task
        /\ rest.plan = row.plan /\ rest.absent = row.absent
    BY RowBooleans, RestFields
  <1>. HIDE DEF rest
  <1>2. /\ new \in RowState /\ new.step = "idle" /\ new.saved = row.saved /\ new.task = row.task
        /\ new.plan = row.plan /\ new.absent = row.absent /\ new.phase \in {"waiting", "uncertain"}
    BY <1>1 DEF RowState
  <1>3. Unsure(row) = new
    BY DEF Unsure, rest
  <1>. HIDE DEF new
  <1>4. (row.saved => ~row.absent) /\ ~(row.absent /\ row.plan)
    BY DEF RowKnows
  <1>. QED
    BY <1>2, <1>3, <1>4, GoodWhen

LEMMA ExpiredGood ==
  ASSUME NEW row, RowShape(row), RowKnows(row), Active(row), NEW task
  PROVE  GoodRow(row, Expired(row), task)
  <1>. DEFINE rest == Rest(row)
              new == [rest EXCEPT !.phase = "expired", !.blocked = TRUE]
  <1>1. /\ rest \in RowState /\ rest.step = "idle" /\ rest.saved = row.saved /\ rest.task = row.task
        /\ rest.plan = row.plan /\ rest.absent = row.absent
    BY RowBooleans, RestFields
  <1>. HIDE DEF rest
  <1>2. /\ new \in RowState /\ new.step = "idle" /\ new.saved = row.saved /\ new.task = row.task
        /\ new.plan = row.plan /\ new.absent = row.absent /\ new.phase = "expired"
    BY <1>1 DEF RowState
  <1>3. Expired(row) = new
    BY DEF Expired, rest
  <1>. HIDE DEF new
  <1>4. (row.saved => ~row.absent) /\ ~(row.absent /\ row.plan)
    BY DEF RowKnows
  <1>. QED
    BY <1>2, <1>3, <1>4, GoodWhen

\* Recover is the first step of a start, too.
LEMMA RecoverKeeps ==
  ASSUME NEW row, RowShape(row)
  PROVE  /\ Recover(row) \in RowState /\ Recover(row).step \in {"status", "verify"}
         /\ Recover(row).saved = row.saved /\ Recover(row).task = row.task /\ Recover(row).plan = row.plan
         /\ Recover(row).absent = row.absent /\ Recover(row).phase = row.phase
  <1>1. row \in RowState
    BY RowBooleans
  <1>. QED
    BY <1>1 DEF Recover, RowState, Calls

LEMMA FailedGood ==
  ASSUME NEW row, RowShape(row), RowKnows(row), Active(row), NEW task
  PROVE  GoodRow(row, Failed(row), task)
  <1>1. (row.saved => ~row.absent) /\ ~(row.absent /\ row.plan)
    BY DEF RowKnows
  <1>2. CASE row.task = "none"
    <2>. DEFINE rest == Rest(row)
                new == [rest EXCEPT !.phase = "error", !.absent = TRUE]
    <2>1. /\ rest \in RowState /\ rest.step = "idle" /\ rest.saved = row.saved /\ rest.task = row.task
          /\ rest.plan = row.plan
      BY RowBooleans, RestFields
    <2>. HIDE DEF rest
    <2>2. /\ new \in RowState /\ new.step = "idle" /\ new.saved = row.saved /\ new.task = row.task
          /\ new.plan = row.plan /\ new.phase = "error"
      BY <2>1 DEF RowState
    <2>3. Failed(row) = new
      BY <1>2 DEF Failed, rest
    <2>. HIDE DEF new
    <2>4. ~row.saved /\ ~row.plan
      BY <1>2, RowBooleans
    <2>. QED
      BY <1>2, <2>2, <2>3, <2>4, GoodWhen
  <1>3. CASE row.task # "none"
    <2>1. GoodRow(row, Recover(row), task)
      BY <1>1, RecoverKeeps, GoodWhen
    <2>. QED
      BY <1>3, <2>1, UnsureGood DEF Failed
  <1>. QED
    BY <1>2, <1>3

\* What the page shows of a task, and keeps.
LEMMA ShownTask ==
  ASSUME NEW row, RowShape(row), RowKnows(row), NEW task \in TaskState
  PROVE  LET new == ShowTask(row, task) IN
         /\ new \in RowState /\ new.task = row.task /\ new.step = row.step
         /\ new.saved = (row.saved \/ task.saved) /\ new.plan \in BOOLEAN /\ new.absent \in BOOLEAN
         /\ new.saved => ~new.absent
         /\ new.plan => row.plan
         /\ \/ task.phase = "skipped" /\ new.blocked /\ (new.absent => row.absent)
            \/ task.phase = "error" /\ ~task.saved /\ new.phase = "error" /\ ~new.plan
                 /\ new.blocked = ~task.again
            \/ /\ task.phase = "error" => task.saved \/ row.saved
               /\ new.phase \in {row.phase, "done", "processing", "error"}
               /\ new.absent => row.absent
  <1>. DEFINE set == SetTask(row, task)
              shown == ShowTask(row, task)
  <1>1. /\ row \in RowState /\ row.saved \in BOOLEAN /\ row.absent \in BOOLEAN /\ row.plan \in BOOLEAN
        /\ task.saved \in BOOLEAN /\ task.retryable \in BOOLEAN /\ task.again \in BOOLEAN
        /\ row.saved => ~row.absent
    BY RowBooleans DEF TaskState, RowKnows
  <1>2. /\ set \in RowState /\ set.saved = (row.saved \/ task.saved) /\ set.task = row.task
        /\ set.plan = row.plan /\ set.step = row.step /\ set.phase = row.phase
    BY <1>1, SetTaskFields
  <1>3. set.absent \in BOOLEAN /\ (set.absent => row.absent) /\ (set.saved => ~set.absent)
    <2>1. CASE task.saved
      <3>1. set = [row EXCEPT !.saved = TRUE, !.absent = FALSE]
        BY <2>1 DEF SetTask
      <3>. QED
        BY <1>1, <3>1 DEF RowState
    <2>2. CASE ~task.saved
      <3>1. set = row
        BY <2>2 DEF SetTask
      <3>. QED
        BY <1>1, <2>2, <1>2, <3>1
    <2>. QED
      BY <2>1, <2>2
  <1>. HIDE DEF set
  <1>4. CASE task.phase = "skipped"
    <2>1. shown = [set EXCEPT !.phase = "skipped", !.blocked = TRUE]
      BY <1>4 DEF ShowTask, set
    <2>. HIDE DEF shown
    <2>2. /\ shown \in RowState /\ shown.blocked /\ shown.task = set.task /\ shown.step = set.step
          /\ shown.saved = set.saved /\ shown.plan = set.plan /\ shown.absent = set.absent
      BY <1>2, <2>1 DEF RowState
    <2>. QED
      BY <1>1, <1>2, <1>3, <1>4, <2>2 DEF shown
  <1>5. CASE task.phase = "error" /\ ~set.saved
    <2>1. PICK blocked \in BOOLEAN : blocked = ~task.again
      OBVIOUS
    <2>2. shown = [set EXCEPT !.phase = "error", !.blocked = blocked, !.absent = TRUE, !.plan = FALSE]
      BY <1>5, <2>1 DEF ShowTask, set
    <2>. HIDE DEF shown
    <2>3. /\ shown \in RowState /\ shown.blocked = blocked /\ shown.task = set.task /\ shown.step = set.step
          /\ shown.saved = set.saved /\ ~shown.plan /\ shown.absent /\ shown.phase = "error"
          /\ shown.plan \in BOOLEAN /\ shown.absent \in BOOLEAN
      BY <1>2, <2>2 DEF RowState
    <2>. QED
      BY <1>1, <1>2, <1>3, <1>5, <2>1, <2>3 DEF shown
  <1>6. CASE task.phase # "skipped" /\ ~(task.phase = "error" /\ ~set.saved)
    <2>1. \E phase \in {row.phase, "done", "processing", "error"}, blocked \in BOOLEAN :
             shown = [set EXCEPT !.phase = phase, !.blocked = blocked]
      <3>1. set.blocked \in BOOLEAN
        BY <1>2 DEF RowState
      <3>2. set = [set EXCEPT !.phase = row.phase, !.blocked = set.blocked]
        BY <1>2 DEF RowState
      <3>3. PICK kept \in BOOLEAN : kept = ~task.retryable
        OBVIOUS
      <3>4. \/ shown = [set EXCEPT !.phase = "done", !.blocked = TRUE]
            \/ shown = [set EXCEPT !.phase = "processing", !.blocked = FALSE]
            \/ shown = [set EXCEPT !.phase = "error", !.blocked = kept]
            \/ shown = set
        BY <1>6, <3>3 DEF ShowTask, set
      <3>. HIDE DEF shown
      <3>. QED
        BY <3>1, <3>2, <3>4
    <2>. HIDE DEF shown
    <2>2. PICK phase \in {row.phase, "done", "processing", "error"}, blocked \in BOOLEAN :
             shown = [set EXCEPT !.phase = phase, !.blocked = blocked]
      BY <2>1
    <2>3. phase \in {"pending", "uploading", "processing", "done", "skipped", "error", "cancelled",
                     "uncertain", "waiting", "expired"}
      BY <1>1 DEF RowState
    <2>4. /\ shown \in RowState /\ shown.phase = phase /\ shown.task = set.task /\ shown.step = set.step
          /\ shown.saved = set.saved /\ shown.plan = set.plan /\ shown.absent = set.absent
      BY <1>2, <2>2, <2>3 DEF RowState
    <2>. QED
      BY <1>1, <1>2, <1>3, <1>6, <2>4 DEF shown
  <1>. QED
    BY <1>4, <1>5, <1>6

\* A page that is told of its task: asks again, or rests.
LEMMA FinishGood ==
  ASSUME NEW row, RowShape(row), RowKnows(row), Active(row), NEW task \in TaskState
  PROVE  GoodRow(row, Finish(row, task), task)
  <1>. DEFINE shown == ShowTask(row, task)
              new == Finish(row, task)
  <1>1. /\ shown \in RowState /\ shown.task = row.task /\ shown.plan \in BOOLEAN /\ shown.absent \in BOOLEAN
        /\ shown.saved => ~shown.absent
        /\ shown.plan => row.plan
        /\ \/ task.phase = "skipped" /\ shown.blocked /\ (shown.absent => row.absent)
           \/ task.phase = "error" /\ ~task.saved /\ shown.phase = "error" /\ ~shown.plan
                /\ shown.blocked = ~task.again
           \/ /\ shown.phase \in {row.phase, "done", "processing", "error"}
              /\ shown.absent => row.absent
    BY ShownTask
  <1>2. ~(row.absent /\ row.plan)
    BY DEF RowKnows
  <1>3. new = IF task.phase = "processing" THEN [shown EXCEPT !.step = "poll"] ELSE Rest(shown)
    BY DEF Finish
  <1>. HIDE DEF shown, new
  <1>4. /\ new \in RowState /\ new.task = shown.task /\ new.saved = shown.saved /\ new.plan = shown.plan
        /\ new.absent = shown.absent /\ new.blocked = shown.blocked /\ new.phase = shown.phase
        /\ new.step = IF task.phase = "processing" THEN "poll" ELSE "idle"
    <2>1. CASE task.phase = "processing"
      BY <1>1, <1>3, <2>1 DEF RowState
    <2>2. CASE task.phase # "processing"
      BY <1>1, <1>3, <2>2, RestFields
    <2>. QED
      BY <2>1, <2>2
  <1>5. ~(new.absent /\ new.plan)
    BY <1>1, <1>2, <1>4
  <1>6. Fit(task) => /\ new.absent => row.absent \/ (new.blocked /\ new.step = "idle")
                     /\ new.phase = "skipped" => row.phase = "skipped"
    BY <1>1, <1>4 DEF Fit
  <1>7. new.saved => ~new.absent
    BY <1>1, <1>4
  <1>8. new.step \notin {"transfer", "prepare"} /\ new.task = row.task
    BY <1>1, <1>4
  <1>9. GoodRow(row, new, task)
    BY <1>4, <1>5, <1>6, <1>7, <1>8, GoodWhen
  <1>. QED
    BY <1>9 DEF new

\* A stop.
LEMMA StoppedGood ==
  ASSUME NEW row, RowShape(row), RowKnows(row), Active(row), NEW task
  PROVE  GoodRow(row, Rest(Stopped(row)), task)
  <1>. DEFINE unsure == Unsure(row)
              new == Rest(Stopped(row))
  <1>1. row \in RowState /\ (row.saved => ~row.absent) /\ ~(row.absent /\ row.plan)
    BY RowBooleans DEF RowKnows
  <1>2. /\ unsure \in RowState /\ unsure.saved = row.saved /\ unsure.task = row.task
        /\ unsure.plan = row.plan /\ unsure.absent = row.absent /\ unsure.phase \in {"waiting", "uncertain"}
    <2>. DEFINE rest == Rest(row)
    <2>1. /\ rest \in RowState /\ rest.saved = row.saved /\ rest.task = row.task /\ rest.plan = row.plan
          /\ rest.absent = row.absent
      BY <1>1, RestFields
    <2>2. unsure = [rest EXCEPT !.phase = IF row.saved THEN "waiting" ELSE "uncertain", !.blocked = FALSE]
      BY DEF Unsure
    <2>. HIDE DEF rest, unsure
    <2>. QED
      BY <2>1, <2>2 DEF RowState
  <1>3. /\ Stopped(row) \in RowState /\ Stopped(row).saved = row.saved /\ Stopped(row).task = row.task
        /\ Stopped(row).plan = row.plan /\ Stopped(row).absent = row.absent
        /\ Stopped(row).phase \in {row.phase, "waiting", "uncertain", "cancelled"}
    <2>1. \/ Stopped(row) = row
          \/ Stopped(row) = [row EXCEPT !.phase = "waiting"]
          \/ Stopped(row) = [row EXCEPT !.phase = "cancelled"]
          \/ Stopped(row) = unsure
      BY DEF Stopped
    <2>. HIDE DEF unsure
    <2>. QED
      BY <1>1, <1>2, <2>1 DEF RowState
  <1>4. /\ new \in RowState /\ new.step = "idle" /\ new.phase \in {row.phase, "waiting", "uncertain", "cancelled"}
        /\ new.saved = row.saved /\ new.task = row.task /\ new.plan = row.plan /\ new.absent = row.absent
    BY <1>3, RestFields
  <1>. HIDE DEF new
  <1>5. GoodRow(row, new, task)
    BY <1>1, <1>4, GoodWhen
  <1>. QED
    BY <1>5 DEF new

\* A start: a row that is sent its task again knew that it could be.
LEMMA StartGood ==
  ASSUME NEW row, RowShape(row), RowKnows(row), ~Active(row), ~row.blocked, NEW old \in BOOLEAN, NEW task
  PROVE  GoodRow(row, FirstStep(row, old), task)
  <1>. DEFINE new == FirstStep(row, old)
  <1>1. row \in RowState /\ (row.saved => ~row.absent) /\ row.step = "idle"
    BY RowBooleans DEF RowKnows, Active
  <1>2. ASSUME NEW t \in Task, HoldsOn(row, t)
        PROVE  row.task = t /\ t # "none" /\ ~row.absent
    BY <1>2, RowBooleans DEF HoldsOn
  <1>3. CASE row.saved
    <2>1. new = [row EXCEPT !.step = "status", !.failed = row.phase = "error"]
      BY <1>3 DEF FirstStep
    <2>. HIDE DEF new
    <2>2. /\ new.step = "status" /\ new.saved = row.saved /\ new.task = row.task /\ new.absent = row.absent
          /\ new.phase = row.phase
      BY <1>1, <2>1 DEF RowState
    <2>. QED
      BY <1>1, <1>2, <1>3, <2>2 DEF GoodRow, RowKnows, MayTransfer, HoldsOn, Active, new
  <1>4. CASE ~row.saved /\ row.task # "none" /\ ~row.absent
    <2>1. new = Recover(row)
      BY <1>4 DEF FirstStep
    <2>. HIDE DEF new
    <2>2. /\ new.step \in {"status", "verify"} /\ new.saved = row.saved /\ new.task = row.task
          /\ new.absent = row.absent /\ new.phase = row.phase
      BY <2>1, RecoverKeeps
    <2>. QED
      BY <1>1, <1>2, <1>4, <2>2 DEF GoodRow, RowKnows, MayTransfer, HoldsOn, Active, new
  <1>5. CASE /\ ~row.saved /\ ~(row.task # "none" /\ ~row.absent)
             /\ ~row.plan \/ (kind = "s3" /\ old)
    <2>1. new = [row EXCEPT !.step = "prepare", !.phase = "uploading", !.plan = FALSE]
      BY <1>5 DEF FirstStep
    <2>. HIDE DEF new
    <2>2. /\ new.step = "prepare" /\ new.saved = row.saved /\ new.task = row.task /\ ~new.plan
      BY <1>1, <2>1 DEF RowState
    <2>. QED
      BY <1>1, <1>2, <1>5, <2>2 DEF GoodRow, RowKnows, MayTransfer, HoldsOn, Active, new
  <1>6. CASE /\ ~row.saved /\ ~(row.task # "none" /\ ~row.absent)
             /\ ~(~row.plan \/ (kind = "s3" /\ old))
    <2>1. new = Transferring(row)
      BY <1>6 DEF FirstStep
    <2>. HIDE DEF new
    <2>2. /\ new.step = "transfer" /\ new.saved = row.saved /\ new.task = row.task /\ ~new.absent
      BY <1>1, <2>1 DEF Transferring, RowState
    <2>3. MayTransfer(row)
      BY <1>6, RowBooleans DEF MayTransfer
    <2>. QED
      BY <1>1, <1>2, <1>6, <2>2, <2>3 DEF GoodRow, RowKnows, HoldsOn, Active, new
  <1>. QED
    BY <1>3, <1>4, <1>5, <1>6

\* A verification that does not miss the original leaves a row like other answers.
LEMMA VerifiedGood ==
  ASSUME NEW row, RowShape(row), RowKnows(row), row.step = "verify", NEW task \in TaskState, NEW state
  PROVE  LET new == Verified(row, state, task) IN
         /\ new.task = row.task /\ RowKnows(new) /\ (MayTransfer(new) => Fit(task))
         /\ state # "absent" => GoodRow(row, new, task)
  <1>. DEFINE set == SetTask(row, task)
              new == Verified(row, state, task)
  <1>1. /\ row \in RowState /\ row.task \in Task /\ Active(row) /\ ~MayTransfer(row)
        /\ row.saved \in BOOLEAN /\ row.absent \in BOOLEAN /\ row.plan \in BOOLEAN /\ task.saved \in BOOLEAN
        /\ (row.saved => ~row.absent) /\ ~(row.absent /\ row.plan)
    BY RowBooleans DEF RowShape, Calls, Active, MayTransfer, RowKnows, TaskState
  <1>2. /\ set \in RowState /\ set.saved = (row.saved \/ task.saved) /\ set.task = row.task
        /\ set.plan = row.plan /\ set.step = "verify" /\ set.phase = row.phase
    BY <1>1, SetTaskFields
  <1>3. set.absent \in BOOLEAN /\ (set.absent => row.absent) /\ (set.saved => ~set.absent)
    <2>1. CASE task.saved
      <3>1. set = [row EXCEPT !.saved = TRUE, !.absent = FALSE]
        BY <2>1 DEF SetTask
      <3>. HIDE DEF set
      <3>. QED
        BY <1>1, <3>1 DEF RowState
    <2>2. CASE ~task.saved
      <3>1. set = row
        BY <2>2 DEF SetTask
      <3>. HIDE DEF set
      <3>. QED
        BY <1>1, <1>2, <2>2, <3>1
    <2>. QED
      BY <2>1, <2>2
  <1>. HIDE DEF set, new
  <1>4. RowShape(set) /\ RowKnows(set) /\ Active(set) /\ ~MayTransfer(set)
    BY <1>1, <1>2, <1>3 DEF RowShape, RowKnows, Active, MayTransfer, Calls
  <1>5. ASSUME NEW next, GoodRow(set, next, task)
        PROVE  GoodRow(row, next, task)
    <2>1. \A t \in Task : HoldsOn(row, t) => HoldsOn(set, t)
      BY <1>1, <1>2, <1>3 DEF HoldsOn, Active
    <2>. QED
      BY <1>2, <1>4, <1>5, <2>1 DEF GoodRow
  <1>6. ASSUME GoodRow(set, new, task)
        PROVE  /\ new.task = row.task /\ RowKnows(new) /\ (MayTransfer(new) => Fit(task))
               /\ GoodRow(row, new, task)
    BY <1>1, <1>5, <1>6 DEF GoodRow
  <1>7. CASE set.saved
    <2>1. new = Finish(set, task)
      BY <1>7 DEF Verified, new, set
    <2>2. GoodRow(set, new, task)
      BY <1>4, <2>1, FinishGood
    <2>. QED
      BY <1>6, <2>2 DEF new
  <1>8. CASE ~set.saved /\ state \in {"skipped", "rejected"}
    <2>. DEFINE shown == ShowTask(set, task)
    <2>1. new = Rest(shown)
      BY <1>8 DEF Verified, new, set
    <2>2. /\ shown \in RowState /\ shown.task = set.task /\ shown.plan \in BOOLEAN /\ shown.absent \in BOOLEAN
          /\ shown.saved => ~shown.absent
          /\ shown.plan => set.plan
          /\ \/ task.phase = "skipped" /\ shown.blocked /\ (shown.absent => set.absent)
             \/ task.phase = "error" /\ ~task.saved /\ shown.phase = "error" /\ ~shown.plan
                  /\ shown.blocked = ~task.again
             \/ /\ shown.phase \in {set.phase, "done", "processing", "error"}
                /\ shown.absent => set.absent
      BY <1>4, ShownTask
    <2>. HIDE DEF shown
    <2>3. /\ new \in RowState /\ new.step = "idle" /\ new.task = shown.task /\ new.saved = shown.saved
          /\ new.plan = shown.plan /\ new.absent = shown.absent /\ new.blocked = shown.blocked
          /\ new.phase = shown.phase
      BY <2>1, <2>2, RestFields
    <2>4. Fit(task) => /\ new.absent => set.absent \/ (new.blocked /\ new.step = "idle")
                       /\ new.phase = "skipped" => set.phase = "skipped"
      BY <2>2, <2>3 DEF Fit
    <2>5. ~(new.absent /\ new.plan) /\ (new.saved => ~new.absent)
      BY <1>1, <1>2, <1>3, <2>2, <2>3
    <2>6. GoodRow(set, new, task)
      BY <1>4, <2>2, <2>3, <2>4, <2>5, GoodWhen
    <2>. QED
      BY <1>6, <2>6 DEF new
  <1>9. CASE ~set.saved /\ state = "absent"
    <2>. DEFINE rest == Rest(set)
    <2>1. /\ rest \in RowState /\ rest.step = "idle" /\ rest.saved = set.saved /\ rest.task = set.task
      BY <1>2, RestFields
    <2>2. PICK blocked \in BOOLEAN, plan \in BOOLEAN :
             blocked = ~task.again /\ plan = (set.plan /\ task.phase = "waiting")
      OBVIOUS
    <2>3. new = [rest EXCEPT !.absent = TRUE, !.phase = "error", !.blocked = blocked, !.plan = plan]
      BY <1>9, <2>2 DEF Verified, new, set
    <2>. HIDE DEF rest
    <2>4. /\ new.step = "idle" /\ new.saved = set.saved /\ new.task = set.task /\ new.plan = plan
      BY <2>1, <2>3 DEF RowState
    <2>5. MayTransfer(new) => Fit(task)
      BY <2>2, <2>4 DEF MayTransfer, Fit
    <2>6. RowKnows(new)
      BY <1>9, <2>4 DEF RowKnows, Active
    <2>. QED
      BY <1>2, <1>9, <2>4, <2>5, <2>6 DEF new
  <1>10. CASE ~set.saved /\ state \notin {"skipped", "rejected", "absent"}
    <2>1. new = Unsure(set)
      BY <1>10 DEF Verified, new, set
    <2>2. GoodRow(set, new, task)
      BY <1>4, <2>1, UnsureGood
    <2>. QED
      BY <1>6, <2>2 DEF new
  <1>. QED
    BY <1>7, <1>8, <1>9, <1>10

\* A row that gets a new task.
LEMMA PreparedGood ==
  ASSUME NEW row0 \in RowState, ~row0.saved,
         NEW task \in TaskState, task.saved = FALSE, task.phase \in {"waiting", "skipped", "error"}
  PROVE  LET new == IF task.phase = "waiting" THEN Transferring(row0) ELSE Finish(row0, task) IN
         new.task = row0.task /\ RowKnows(new) /\ (MayTransfer(new) => Fit(task))
  <1>. DEFINE new == IF task.phase = "waiting" THEN Transferring(row0) ELSE Finish(row0, task)
  <1>1. CASE task.phase = "waiting"
    <2>1. new.task = row0.task /\ ~new.saved /\ new.step = "transfer" /\ ~new.absent
      BY <1>1 DEF Transferring, RowState
    <2>. QED
      BY <1>1, <2>1 DEF RowKnows, Fit
  <1>2. CASE task.phase # "waiting"
    <2>. DEFINE shown == ShowTask(row0, task)
    <2>1. SetTask(row0, task) = row0
      BY DEF SetTask
    <2>2. new = Rest(shown)
      BY <1>2 DEF Finish
    <2>3. \/ shown = [row0 EXCEPT !.phase = "skipped", !.blocked = TRUE]
          \/ \E blocked \in BOOLEAN :
               shown = [row0 EXCEPT !.phase = "error", !.blocked = blocked, !.absent = TRUE, !.plan = FALSE]
      <3>1. PICK blocked \in BOOLEAN : blocked = ~task.again
        OBVIOUS
      <3>. QED
        BY <1>2, <2>1, <3>1 DEF ShowTask
    <2>. HIDE DEF shown
    <2>4. /\ shown \in RowState /\ shown.task = row0.task /\ ~shown.saved /\ (shown.blocked \/ ~shown.plan)
      <3>1. CASE shown = [row0 EXCEPT !.phase = "skipped", !.blocked = TRUE]
        BY <3>1 DEF RowState
      <3>2. ASSUME NEW blocked \in BOOLEAN,
                   shown = [row0 EXCEPT !.phase = "error", !.blocked = blocked, !.absent = TRUE, !.plan = FALSE]
            PROVE  shown \in RowState /\ shown.task = row0.task /\ ~shown.saved /\ ~shown.plan
        BY <3>2 DEF RowState
      <3>. QED
        BY <2>3, <3>1, <3>2
    <2>5. /\ new.task = row0.task /\ new.step = "idle" /\ ~new.saved /\ (new.blocked \/ ~new.plan)
      BY <2>2, <2>4, RestFields
    <2>. QED
      BY <2>5 DEF RowKnows, MayTransfer, Active
  <1>. QED
    BY <1>1, <1>2
-----------------------------------------------------------------------------
(* Steps that bring no original to the path and begin no task. *)

\* What such a step does to tasks and requests.
TasksCalm == \A t \in Task : /\ tasks[t].phase # "none" => tasks'[t].phase # "none"
                             /\ tasks'[t].phase = "uploading" => tasks[t].phase = "uploading"
                             /\ kind = "local" /\ t \in stored /\ Placed(tasks[t]) => Placed(tasks'[t])

ReqCalm(q) == \/ reqs'[q] = NoReq
              \/ /\ reqs[q] # NoReq
                 /\ reqs'[q].task = reqs[q].task /\ reqs'[q].row = reqs[q].row
                 /\ Amiss(reqs'[q]) => Amiss(reqs[q])
                 /\ reqs'[q].pc = "write" => reqs[q].pc = "write"

Calm == /\ UNCHANGED <<kind, stored, owner>> /\ late \subseteq late'
        /\ original' = original \/ original'.by \notin Task
        /\ TasksCalm /\ \A q \in Request : ReqCalm(q)

\* What it leaves to the tasks of rows that hold an original or may send one.
FitStays ==
  \A r \in Row \ late', t \in Task :
    /\ Held(r, t)' \/ (kind = "s3" /\ rows[r].task = t /\ MayTransfer(rows'[r]))
    /\ Fit(tasks[t])
    => Fit(tasks'[t])

RowFollows(r) ==
  /\ rows'[r].task = rows[r].task /\ RowKnows(rows'[r])
  /\ MayTransfer(rows'[r]) => MayTransfer(rows[r]) \/ Fit(tasks[rows[r].task])
  /\ \A t \in Task : Held(r, t) =>
       HoldsOn(rows'[r], t) /\ (rows'[r].phase = "skipped" => rows[r].phase = "skipped")

LEMMA TransferTask ==
  ASSUME NEW row, RowShape(row), MayTransfer(row)
  PROVE  row.task \in Task
  BY DEF RowShape, MayTransfer, Calls

LEMMA GoodFollows ==
  ASSUME OwnSound, NEW r \in Row, GoodRow(rows[r], rows'[r], tasks[rows[r].task])
  PROVE  RowFollows(r)
  <1>1. ASSUME NEW t \in Task, Held(r, t)
        PROVE  HoldsOn(rows'[r], t) /\ (rows'[r].phase = "skipped" => rows[r].phase = "skipped")
    <2>1. HoldsOn(rows[r], t) /\ Fit(tasks[t])
      BY <1>1 DEF OwnSound, HeldSound
    <2>2. t = rows[r].task
      BY <2>1 DEF HoldsOn
    <2>. QED
      BY <2>1, <2>2 DEF GoodRow
  <1>. QED
    BY <1>1 DEF GoodRow, RowFollows

LEMMA RowStaysGood ==
  ASSUME OwnSound, NEW r \in Row, rows'[r] = rows[r]
  PROVE  RowFollows(r)
  <1>1. GoodRow(rows[r], rows'[r], tasks[rows[r].task])
    BY SameRow DEF OwnSound
  <1>. QED
    BY <1>1, GoodFollows

\* Without a new original, nothing is held that was not.
LEMMA HeldBefore ==
  ASSUME Calm, NEW r, NEW t \in Task, Held(r, t)'
  PROVE  Held(r, t)
  BY DEF Calm, TasksCalm, Held

LEMMA CalmKeeps ==
  ASSUME UploadIInv, UploadIInv', OwnSound, Calm, FitStays, \A r \in Row : RowFollows(r)
  PROVE  OwnSound' /\ NotSkippedForOwn
  <1>1. Owned'
    <2>1. ASSUME NEW q \in Request, reqs'[q] # NoReq
          PROVE  PreparedFor(reqs[q].task, reqs[q].row)'
      <3>1. reqs[q] # NoReq /\ reqs'[q].task = reqs[q].task /\ reqs'[q].row = reqs[q].row
        BY <2>1 DEF Calm, ReqCalm
      <3>2. reqs[q].task \in Task
        BY <3>1, RequestFields DEF ReqState
      <3>. QED
        BY <3>1, <3>2 DEF OwnSound, Owned, PreparedFor, Calm, TasksCalm
    <2>2. ASSUME NEW r \in Row, rows'[r].task \in Task
          PROVE  PreparedFor(rows[r].task, r)'
      BY <2>2 DEF RowFollows, OwnSound, Owned, PreparedFor, Calm, TasksCalm
    <2>3. ASSUME NEW t \in stored'
          PROVE  tasks'[t].phase # "none"
      BY DEF OwnSound, Owned, Calm, TasksCalm, UploadIInv, ServerTypes
    <2>. QED
      BY <2>1, <2>2, <2>3 DEF Owned
  <1>2. LocalSound'
    <2>1. ASSUME kind = "local", NEW t \in stored
          PROVE  Placed(tasks'[t])
      BY <2>1 DEF OwnSound, LocalSound, Calm, TasksCalm, UploadIInv, ServerTypes
    <2>2. ASSUME kind = "local", NEW q \in Request, reqs'[q].pc = "write"
          PROVE  reqs'[q].task \notin stored
      <3>1. reqs'[q] # NoReq
        BY <2>2 DEF NoReq
      <3>. QED
        BY <2>2, <3>1 DEF OwnSound, LocalSound, Calm, ReqCalm
    <2>. QED
      BY <2>1, <2>2 DEF LocalSound, Calm
  <1>3. FitToTransfer'
    <2>. SUFFICES ASSUME kind = "s3", NEW r \in Row \ late', MayTransfer(rows'[r])
                  PROVE  Fit(tasks'[rows'[r].task])
      BY DEF FitToTransfer, Calm
    <2>1. r \notin late /\ rows'[r].task = rows[r].task
      BY DEF Calm, RowFollows
    <2>2. rows[r].task \in Task
      <3>1. RowShape(rows'[r])
        BY DEF UploadIInv, RowShape
      <3>. QED
        BY <2>1, <3>1, TransferTask
    <2>3. Fit(tasks[rows[r].task])
      BY <2>1 DEF OwnSound, FitToTransfer, RowFollows
    <2>. QED
      BY <2>1, <2>2, <2>3 DEF FitStays
  <1>4. HeldSound'
    <2>. SUFFICES ASSUME NEW r \in Row, NEW t \in Task, Held(r, t)'
                  PROVE  HoldsOn(rows'[r], t) /\ Fit(tasks'[t])
      BY DEF HeldSound
    <2>1. Held(r, t) /\ r \notin late'
      BY HeldBefore DEF Held
    <2>2. Fit(tasks[t])
      BY <2>1 DEF OwnSound, HeldSound
    <2>. QED
      BY <2>1, <2>2 DEF FitStays, RowFollows
  <1>5. AmissSound'
    <2>. SUFFICES ASSUME NEW q \in Request, Amiss(reqs'[q]), Held(reqs[q].row, reqs[q].task)'
                  PROVE  FALSE
      BY DEF AmissSound
    <2>1. reqs'[q] # NoReq
      BY DEF Amiss, NoReq
    <2>2. /\ reqs[q] # NoReq /\ Amiss(reqs[q])
          /\ reqs'[q].task = reqs[q].task /\ reqs'[q].row = reqs[q].row
      BY <2>1 DEF Calm, ReqCalm
    <2>3. reqs[q].task \in Task
      BY <2>2, RequestFields DEF ReqState
    <2>4. Held(reqs[q].row, reqs[q].task)
      BY <2>2, <2>3, HeldBefore
    <2>. QED
      BY <2>2, <2>4 DEF OwnSound, AmissSound
  <1>6. NotSkippedForOwn
    BY DEF NotSkippedForOwn, RowFollows, Held
  <1>. QED
    BY <1>1, <1>2, <1>3, <1>4, <1>5, <1>6 DEF OwnSound, RowFollows
-----------------------------------------------------------------------------
(* The pages' steps. *)

LEMMA FadesCalm ==
  ASSUME UploadIInv, NEW q \in Request, Fades(q)
  PROVE  ReqCalm(q)
  <1>1. CASE reqs'[q] = NoReq \/ reqs'[q] = reqs[q]
    BY <1>1 DEF ReqCalm
  <1>2. CASE reqs[q] # NoReq /\ reqs'[q] = [reqs[q] EXCEPT !.live = FALSE]
    <2>1. reqs[q] \in ReqState
      BY <1>2, RequestFields
    <2>2. /\ reqs'[q].task = reqs[q].task /\ reqs'[q].row = reqs[q].row /\ reqs'[q].live = FALSE
          /\ reqs'[q].pc = reqs[q].pc
      BY <1>2, <2>1 DEF ReqState
    <2>. QED
      BY <1>2, <2>2 DEF ReqCalm, Amiss
  <1>. QED
    BY <1>1, <1>2 DEF Fades

LEMMA TasksRestCalm ==
  ASSUME UNCHANGED tasks
  PROVE  TasksCalm /\ FitStays
  BY DEF TasksCalm, FitStays

\* One row goes on, or none, and nothing begins.
LEMMA RowStepSound ==
  ASSUME UploadIInv, UploadIInv', OwnSound, NEW r \in Row, RowFollows(r),
         \A s \in Row : s # r => rows'[s] = rows[s],
         UNCHANGED <<kind, original, stored, late, owner>>, TasksCalm, FitStays,
         \A q \in Request : Fades(q)
  PROVE  OwnSound' /\ NotSkippedForOwn
  <1>1. Calm
    BY FadesCalm DEF Calm
  <1>2. \A s \in Row : RowFollows(s)
    BY RowStaysGood
  <1>. QED
    BY <1>1, <1>2, CalmKeeps

LEMMA PageStepSound ==
  ASSUME UploadIInv, UploadIInv', OwnSound, NEW r \in Row, NEW row, SetRow(r, row),
         GoodRow(rows[r], row, tasks[rows[r].task]), UNCHANGED <<serverVars, owner>>
  PROVE  OwnSound' /\ NotSkippedForOwn
  <1>1. rows'[r] = row /\ \A s \in Row : s # r => rows'[s] = rows[s]
    BY DEF SetRow, UploadIInv
  <1>2. RowFollows(r)
    BY <1>1, GoodFollows
  <1>3. UNCHANGED <<kind, original, tasks, stored, late, owner>> /\ \A q \in Request : Fades(q)
    BY DEF serverVars, Fades
  <1>. QED
    BY <1>1, <1>2, <1>3, TasksRestCalm, RowStepSound

LEMMA StartOwn ==
  ASSUME UploadIInv, UploadIInv', OwnSound, NEW r \in Row, Start(r)
  PROVE  OwnSound' /\ NotSkippedForOwn
  <1>1. PICK old \in BOOLEAN : SetRow(r, FirstStep(rows[r], old))
    BY DEF Start
  <1>2. GoodRow(rows[r], FirstStep(rows[r], old), tasks[rows[r].task])
    BY RowFacts, StartGood DEF Start, OwnSound
  <1>. QED
    BY <1>1, <1>2, PageStepSound DEF Start

LEMMA SendFailsOwn ==
  ASSUME UploadIInv, UploadIInv', OwnSound, NEW r \in Row, SendFails(r)
  PROVE  OwnSound' /\ NotSkippedForOwn
  <1>1. Active(rows[r])
    BY DEF SendFails, Active, Calls
  <1>2. GoodRow(rows[r], Failed(rows[r]), tasks[rows[r].task])
    BY <1>1, RowFacts, FailedGood DEF OwnSound
  <1>. QED
    BY <1>2, PageStepSound DEF SendFails

LEMMA StatusFirstOwn ==
  ASSUME UploadIInv, UploadIInv', OwnSound, NEW r \in Row, StatusFirst(r)
  PROVE  OwnSound' /\ NotSkippedForOwn
  <1>. DEFINE task == tasks[rows[r].task]
              again == [rows[r] EXCEPT !.step = "retry"]
  <1>1. rows[r].step = "status" /\ Active(rows[r]) /\ RowShape(rows[r]) /\ RowKnows(rows[r])
    BY RowFacts DEF StatusFirst, Active, OwnSound
  <1>2. rows[r] \in RowState /\ task \in TaskState
    BY <1>1, RowFacts, TaskFields DEF RowShape
  <1>3. GoodRow(rows[r], again, task)
    <2>1. /\ again \in RowState /\ again.step = "retry" /\ again.task = rows[r].task
          /\ again.saved = rows[r].saved /\ again.absent = rows[r].absent /\ again.plan = rows[r].plan
          /\ again.phase = rows[r].phase
      BY <1>2 DEF RowState, Calls
    <2>. HIDE DEF again, task
    <2>2. (rows[r].saved => ~rows[r].absent) /\ ~(rows[r].absent /\ rows[r].plan)
      BY <1>1 DEF RowKnows
    <2>. QED
      BY <1>1, <2>1, <2>2, GoodWhen
  <1>4. GoodRow(rows[r], Finish(rows[r], task), task)
    BY <1>1, <1>2, FinishGood
  <1>5. PICK row \in {again, Finish(rows[r], task)} : SetRow(r, row)
    BY DEF StatusFirst
  <1>. QED
    BY <1>3, <1>4, <1>5, PageStepSound DEF StatusFirst

LEMMA PollOwn ==
  ASSUME UploadIInv, UploadIInv', OwnSound, NEW r \in Row, Poll(r)
  PROVE  OwnSound' /\ NotSkippedForOwn
  <1>1. Active(rows[r]) /\ RowShape(rows[r]) /\ RowKnows(rows[r])
    BY RowFacts DEF Poll, Active, OwnSound
  <1>2. tasks[rows[r].task] \in TaskState
    BY <1>1, TaskFields DEF RowShape, Poll
  <1>3. GoodRow(rows[r], Finish(rows[r], tasks[rows[r].task]), tasks[rows[r].task])
    BY <1>1, <1>2, FinishGood
  <1>. QED
    BY <1>3, PageStepSound DEF Poll

LEMMA PollEndsOwn ==
  ASSUME UploadIInv, UploadIInv', OwnSound, NEW r \in Row, PollEnds(r)
  PROVE  OwnSound' /\ NotSkippedForOwn
  <1>. DEFINE rest == Rest(rows[r])
              row == [rest EXCEPT !.phase = "waiting"]
  <1>1. Active(rows[r]) /\ RowShape(rows[r]) /\ RowKnows(rows[r])
    BY RowFacts DEF PollEnds, Active, OwnSound
  <1>2. /\ rest \in RowState /\ rest.step = "idle" /\ rest.task = rows[r].task /\ rest.saved = rows[r].saved
        /\ rest.absent = rows[r].absent /\ rest.plan = rows[r].plan
    BY RowFacts, RestFields
  <1>. HIDE DEF rest
  <1>3. /\ row \in RowState /\ row.step = "idle" /\ row.task = rows[r].task /\ row.saved = rows[r].saved
        /\ row.absent = rows[r].absent /\ row.plan = rows[r].plan /\ row.phase = "waiting"
    BY <1>2 DEF RowState
  <1>4. SetRow(r, row)
    BY DEF PollEnds, rest
  <1>. HIDE DEF row
  <1>5. (rows[r].saved => ~rows[r].absent) /\ ~(rows[r].absent /\ rows[r].plan)
    BY <1>1 DEF RowKnows
  <1>6. GoodRow(rows[r], row, tasks[rows[r].task])
    BY <1>1, <1>3, <1>5, GoodWhen
  <1>. QED
    BY <1>4, <1>6, PageStepSound DEF PollEnds

LEMMA StatusFailsOwn ==
  ASSUME UploadIInv, UploadIInv', OwnSound, NEW r \in Row, StatusFails(r)
  PROVE  OwnSound' /\ NotSkippedForOwn
  <1>1. Active(rows[r])
    BY DEF StatusFails, Active
  <1>2. PICK row \in {Expired(rows[r]), Failed(rows[r])} : SetRow(r, row)
    BY DEF StatusFails
  <1>3. GoodRow(rows[r], row, tasks[rows[r].task])
    BY <1>1, <1>2, RowFacts, FailedGood, ExpiredGood DEF OwnSound
  <1>. QED
    BY <1>2, <1>3, PageStepSound DEF StatusFails

LEMMA StopOwn ==
  ASSUME UploadIInv, UploadIInv', OwnSound, NEW r \in Row, Stop(r)
  PROVE  OwnSound' /\ NotSkippedForOwn
  <1>1. GoodRow(rows[r], Rest(Stopped(rows[r])), tasks[rows[r].task])
    BY RowFacts, StoppedGood DEF Stop, OwnSound
  <1>2. rows'[r] = Rest(Stopped(rows[r])) /\ \A s \in Row : s # r => rows'[s] = rows[s]
    BY DEF Stop, SetRow, UploadIInv
  <1>3. \A q \in Request : Fades(q)
    BY AbandonedFades DEF Stop, StoppedReqs
  <1>. QED
    BY <1>1, <1>2, <1>3, GoodFollows, TasksRestCalm, RowStepSound DEF Stop

\* A row that waits for a request is active.
LEMMA WaitingRow ==
  ASSUME UploadIInv, OwnSound, NEW q \in Request, reqs[q].live
  PROVE  /\ reqs[q] \in ReqState /\ reqs[q].row \in Row /\ Active(rows[reqs[q].row])
         /\ RowShape(rows[reqs[q].row]) /\ RowKnows(rows[reqs[q].row])
         /\ rows[reqs[q].row].task = reqs[q].task /\ rows[reqs[q].row].step = reqs[q].op
  BY RequestFields, RowFacts DEF ReqState, Ops, Active, OwnSound

LEMMA GiveUpOwn ==
  ASSUME UploadIInv, UploadIInv', OwnSound, NEW q \in Request, GiveUp(q)
  PROVE  OwnSound' /\ NotSkippedForOwn
  <1>1. PICK r \in Row : r = reqs[q].row
    BY RequestFields DEF GiveUp
  <1>2. GoodRow(rows[r], Failed(rows[r]), tasks[rows[r].task])
    BY <1>1, WaitingRow, FailedGood DEF GiveUp
  <1>3. rows'[r] = Failed(rows[r]) /\ \A s \in Row : s # r => rows'[s] = rows[s]
    BY <1>1 DEF GiveUp, SetRow, UploadIInv
  <1>4. \A p \in Request : Fades(p)
    BY AbandonedFades DEF GiveUp
  <1>. QED
    BY <1>2, <1>3, <1>4, GoodFollows, TasksRestCalm, RowStepSound DEF GiveUp

\* What the page does not see of a task that is prepared or taken out of the table.
SameTask(t) == /\ tasks'[t].phase = tasks[t].phase /\ tasks'[t].saved = tasks[t].saved
               /\ tasks'[t].again = tasks[t].again

LEMMA SameTaskFit ==
  ASSUME NEW t, SameTask(t)
  PROVE  (Fit(tasks[t]) <=> Fit(tasks'[t])) /\ (Placed(tasks[t]) <=> Placed(tasks'[t]))
  BY DEF SameTask, Fit, Placed

LEMMA PrepareFailsOwn ==
  ASSUME UploadIInv, UploadIInv', OwnSound, NEW r \in Row, PrepareFails(r)
  PROVE  OwnSound' /\ NotSkippedForOwn
  <1>. DEFINE failed == Failed(rows[r])
              blocked == [failed EXCEPT !.blocked = TRUE]
  <1>1. Active(rows[r]) /\ RowShape(rows[r]) /\ RowKnows(rows[r]) /\ rows[r] \in RowState
    BY RowFacts DEF PrepareFails, Active, OwnSound
  <1>2. GoodRow(rows[r], failed, tasks[rows[r].task])
    BY <1>1, FailedGood
  <1>3. ASSUME rows[r].task = "none"
        PROVE  GoodRow(rows[r], blocked, tasks[rows[r].task])
    <2>. DEFINE rest == Rest(rows[r])
    <2>1. /\ rest \in RowState /\ rest.step = "idle" /\ rest.task = rows[r].task /\ rest.saved = rows[r].saved
          /\ rest.plan = rows[r].plan
      BY <1>1, RestFields
    <2>2. failed = [rest EXCEPT !.phase = "error", !.absent = TRUE]
      BY <1>3 DEF Failed
    <2>. HIDE DEF rest, failed
    <2>3. /\ blocked \in RowState /\ blocked.step = "idle" /\ blocked.task = rows[r].task
          /\ blocked.saved = rows[r].saved /\ blocked.plan = rows[r].plan /\ blocked.phase = "error"
      BY <2>1, <2>2 DEF RowState
    <2>. HIDE DEF blocked
    <2>4. ~rows[r].saved /\ ~rows[r].plan
      BY <1>1, <1>3, RowBooleans
    <2>. QED
      BY <1>1, <1>3, <2>3, <2>4, GoodWhen
  <1>. HIDE DEF failed, blocked
  <1>4. PICK row : SetRow(r, row) /\ GoodRow(rows[r], row, tasks[rows[r].task])
    BY <1>2, <1>3 DEF PrepareFails, failed, blocked
  <1>5. rows'[r] = row /\ \A s \in Row : s # r => rows'[s] = rows[s]
    BY <1>4 DEF SetRow, UploadIInv
  <1>6. UNCHANGED <<kind, original, reqs, stored, late, owner>> /\ \A q \in Request : Fades(q)
    BY DEF PrepareFails, Fades
  <1>7. \A t \in Task : SameTask(t)
    <2>1. CASE UNCHANGED tasks
      BY <2>1 DEF SameTask
    <2>2. CASE PrepareTooMany
      <3>1. PICK room : MakeRoom(room) /\ tasks' = Keep(room)
        BY <2>2 DEF PrepareTooMany
      <3>. QED
        BY <3>1, KeptTask DEF SameTask
    <2>. QED
      BY <2>1, <2>2 DEF PrepareFails
  <1>8. TasksCalm /\ FitStays
    BY <1>7, SameTaskFit DEF TasksCalm, FitStays, SameTask
  <1>. QED
    BY <1>4, <1>5, <1>6, <1>8, GoodFollows, RowStepSound

LEMMA PrepareRowOwn ==
  ASSUME UploadIInv, UploadIInv', OwnSound, NEW r \in Row, PrepareRow(r)
  PROVE  OwnSound' /\ NotSkippedForOwn
  <1>1. PICK t \in Task : /\ t = (CHOOSE u \in Fresh : TRUE) /\ tasks[t].phase = "none"
    BY DEF PrepareRow, Fresh
  <1>. DEFINE row0 == [rows[r] EXCEPT !.task = t, !.plan = TRUE]
              next == IF tasks'[t].phase = "waiting" THEN Transferring(row0) ELSE Finish(row0, tasks'[t])
  <1>2. /\ Prepare(t) /\ owner' = [owner EXCEPT ![t] = r] /\ rows[r].step = "prepare"
        /\ SetRow(r, next) \/ SetRow(r, Failed(rows[r]))
        /\ UNCHANGED <<kind, original, routines, reqs, stored, late>>
    BY <1>1 DEF PrepareRow
  <1>3. PICK room \in SUBSET Task, new \in TaskState :
          /\ MakeRoom(room) /\ tasks' = [Keep(room) EXCEPT ![t] = new]
          /\ new.saved = FALSE /\ new.phase \in {"waiting", "skipped", "error"}
    BY <1>2, NewTask DEF Prepare
  <1>4. tasks'[t] = new /\ \A u \in Task : u # t => SameTask(u)
    <2>1. Keep(room) \in [Task -> TaskState] /\ \A u \in Task : u # t => tasks'[u] = Keep(room)[u]
      BY <1>1, <1>3, KeptTask
    <2>. QED
      BY <1>3, <2>1, KeptTask DEF SameTask
  <1>5. owner'[t] = r /\ \A u \in Task : u # t => owner'[u] = owner[u]
    BY <1>2 DEF UploadIInv
  <1>6. t \notin stored /\ original.by # t
    BY <1>1 DEF OwnSound, Owned, UploadIInv, ServerTypes
  <1>7. \A q \in Request : reqs[q] # NoReq => reqs[q].task \in Task /\ reqs[q].task # t
    <2>1. \A q \in Request : reqs[q] # NoReq => reqs[q].task \in Task
      BY RequestFields
    <2>2. \A q \in Request : reqs[q] # NoReq => PreparedFor(reqs[q].task, reqs[q].row)
      BY DEF OwnSound, Owned
    <2>. QED
      BY <1>1, <2>1, <2>2 DEF PreparedFor
  <1>8. \A s \in Row : rows[s].task # t
    BY <1>1 DEF OwnSound, Owned, PreparedFor
  <1>9. /\ RowKnows(rows'[r]) /\ \A s \in Row : s # r => rows'[s] = rows[s]
        /\ \/ rows'[r].task = t /\ (MayTransfer(rows'[r]) => Fit(tasks'[t]))
           \/ rows'[r].task = rows[r].task /\ (MayTransfer(rows'[r]) => Fit(tasks[rows[r].task]))
    <2>1. RowShape(rows[r]) /\ RowKnows(rows[r]) /\ Active(rows[r]) /\ ~MayTransfer(rows[r])
      BY <1>2, RowFacts DEF OwnSound, Active, MayTransfer
    <2>2. CASE SetRow(r, Failed(rows[r]))
      <3>1. rows'[r] = Failed(rows[r]) /\ \A s \in Row : s # r => rows'[s] = rows[s]
        BY <2>2 DEF SetRow, UploadIInv
      <3>2. GoodRow(rows[r], rows'[r], tasks[rows[r].task])
        BY <2>1, <3>1, FailedGood
      <3>. QED
        BY <2>1, <3>1, <3>2 DEF GoodRow
    <2>3. CASE SetRow(r, next)
      <3>1. rows'[r] = next /\ \A s \in Row : s # r => rows'[s] = rows[s]
        BY <2>3 DEF SetRow, UploadIInv
      <3>2. PICK row, first : row = next /\ first = row0
        OBVIOUS
      <3>3. /\ first = [rows[r] EXCEPT !.task = t, !.plan = TRUE]
            /\ row = IF new.phase = "waiting" THEN Transferring(first) ELSE Finish(first, new)
        BY <1>4, <3>2
      <3>. HIDE DEF next, row0
      <3>4. first \in RowState /\ first.task = t /\ ~first.saved
        BY <1>2, <2>1, <3>3, RowBooleans DEF RowShape, RowState
      <3>5. new.saved = FALSE /\ new.phase \in {"waiting", "skipped", "error"}
        BY <1>3
      <3>6. row.task = t /\ RowKnows(row) /\ (MayTransfer(row) => Fit(new))
        BY <3>3, <3>4, <3>5, PreparedGood
      <3>. QED
        BY <1>4, <3>1, <3>2, <3>6
    <2>. QED
      BY <1>2, <2>2, <2>3
  <1>. HIDE DEF row0, next
  <1>10. \A u \in Task : ~Held(r, u)
    BY <1>2 DEF OwnSound, HeldSound, HoldsOn
  <1>11. ASSUME NEW s, NEW u \in Task, Held(s, u)'
         PROVE  u # t /\ Held(s, u)
    <2>1. u # t
      BY <1>2, <1>3, <1>4, <1>6, <1>11 DEF Held
    <2>. QED
      BY <1>2, <1>4, <1>5, <1>11, <2>1 DEF Held, SameTask
  <1>12. Owned'
    <2>1. \A q \in Request : reqs'[q] # NoReq => PreparedFor(reqs[q].task, reqs[q].row)'
      BY <1>2, <1>4, <1>5, <1>7 DEF OwnSound, Owned, PreparedFor, SameTask
    <2>2. ASSUME NEW s \in Row, rows'[s].task \in Task
          PROVE  PreparedFor(rows[s].task, s)'
      <3>1. CASE rows'[s].task = rows[s].task
        BY <1>4, <1>5, <1>8, <2>2, <3>1 DEF OwnSound, Owned, PreparedFor, SameTask
      <3>2. CASE s = r /\ rows'[s].task = t
        BY <1>3, <1>4, <1>5, <3>2 DEF PreparedFor
      <3>. QED
        BY <1>9, <3>1, <3>2
    <2>3. \A u \in stored' : tasks'[u].phase # "none"
      BY <1>2, <1>4, <1>6 DEF OwnSound, Owned, SameTask, UploadIInv, ServerTypes
    <2>. QED
      BY <2>1, <2>2, <2>3 DEF Owned
  <1>13. LocalSound'
    <2>1. kind = "local" => \A u \in stored : Placed(tasks'[u])
      BY <1>4, <1>6, SameTaskFit DEF OwnSound, LocalSound, UploadIInv, ServerTypes
    <2>. QED
      BY <1>2, <2>1 DEF OwnSound, LocalSound
  <1>14. \A s \in Row : RowKnows(rows'[s])
    BY <1>9 DEF OwnSound
  <1>15. FitToTransfer'
    <2>. SUFFICES ASSUME kind = "s3", NEW s \in Row \ late, MayTransfer(rows'[s])
                  PROVE  Fit(tasks'[rows'[s].task])
      BY <1>2 DEF FitToTransfer
    <2>1. CASE rows'[s].task = t /\ s = r
      BY <1>9, <1>8, <2>1
    <2>2. CASE rows'[s].task = rows[s].task
      <3>1. rows[s].task \in Task /\ rows[s].task # t
        <4>1. RowShape(rows'[s])
          BY DEF UploadIInv, RowShape
        <4>. QED
          BY <1>8, <2>2, <4>1, TransferTask
      <3>2. Fit(tasks[rows[s].task])
        BY <1>8, <1>9, <2>2 DEF OwnSound, FitToTransfer
      <3>. QED
        BY <1>4, <2>2, <3>1, <3>2, SameTaskFit
    <2>. QED
      BY <1>9, <2>1, <2>2
  <1>16. HeldSound'
    <2>. SUFFICES ASSUME NEW s \in Row, NEW u \in Task, Held(s, u)'
                  PROVE  HoldsOn(rows'[s], u) /\ Fit(tasks'[u])
      BY DEF HeldSound
    <2>1. u # t /\ Held(s, u) /\ s # r
      BY <1>10, <1>11
    <2>2. HoldsOn(rows[s], u) /\ Fit(tasks[u])
      BY <2>1 DEF OwnSound, HeldSound
    <2>. QED
      BY <1>4, <1>9, <2>1, <2>2, SameTaskFit
  <1>17. AmissSound'
    <2>. SUFFICES ASSUME NEW q \in Request, Amiss(reqs[q]), Held(reqs[q].row, reqs[q].task)'
                  PROVE  FALSE
      BY <1>2 DEF AmissSound
    <2>1. reqs[q] # NoReq
      BY DEF Amiss, NoReq
    <2>2. Held(reqs[q].row, reqs[q].task)
      BY <1>2, <1>7, <1>11, <2>1
    <2>. QED
      BY <2>2 DEF OwnSound, AmissSound
  <1>18. NotSkippedForOwn
    BY <1>9, <1>10 DEF NotSkippedForOwn, Held
  <1>. QED
    BY <1>12, <1>13, <1>14, <1>15, <1>16, <1>17, <1>18 DEF OwnSound

\* A call that goes out says nothing yet.
LEMMA SendOwn ==
  ASSUME UploadIInv, UploadIInv', OwnSound, NEW r \in Row, Send(r)
  PROVE  OwnSound' /\ NotSkippedForOwn
  <1>1. PICK q \in Request : reqs' = [reqs EXCEPT ![q] = Called(r)]
    BY DEF Send, Called
  <1>2. /\ UNCHANGED <<kind, original, tasks, stored, late, rows, owner>>
        /\ rows[r].step \in Calls
    BY DEF Send
  <1>3. PICK m : m = Called(r)
    OBVIOUS
  <1>4. m.task = rows[r].task /\ m.row = r /\ m.pc = "sent" /\ rows[r].task \in Task
    BY <1>2, <1>3, RowFacts DEF Called, RowShape
  <1>5. reqs'[q] = m /\ \A p \in Request : p # q => reqs'[p] = reqs[p]
    BY <1>1, <1>3 DEF UploadIInv
  <1>6. Owned'
    <2>1. \A p \in Request : reqs'[p] # NoReq => PreparedFor(reqs[p].task, reqs[p].row)'
      BY <1>2, <1>4, <1>5 DEF OwnSound, Owned, PreparedFor
    <2>. QED
      BY <1>2, <2>1 DEF OwnSound, Owned, PreparedFor
  <1>7. LocalSound'
    BY <1>2, <1>4, <1>5 DEF OwnSound, LocalSound, Placed
  <1>8. /\ \A s \in Row : RowKnows(rows'[s])
        /\ FitToTransfer' /\ HeldSound' /\ NotSkippedForOwn
    BY <1>2 DEF OwnSound, FitToTransfer, HeldSound, Held, NotSkippedForOwn, Fit
  <1>9. AmissSound'
    BY <1>2, <1>4, <1>5 DEF OwnSound, AmissSound, Amiss, Held
  <1>. QED
    BY <1>6, <1>7, <1>8, <1>9 DEF OwnSound
-----------------------------------------------------------------------------
(* Answers. *)

\* Nobody's row is touched by the end of a request that nobody waits for.
LEMMA AnswerOwn ==
  ASSUME UploadIInv, UploadIInv', OwnSound, NEW q \in Request, reqs[q].pc # "none",
         NEW row, Answer(q, row), TasksCalm, FitStays,
         reqs[q].live /\ rows'[reqs[q].row] = row => RowFollows(reqs[q].row),
         UNCHANGED <<kind, original, stored, late, owner>>
  PROVE  OwnSound' /\ NotSkippedForOwn
  <1>1. PICK r \in Row : r = reqs[q].row
    BY HandledRequest
  <1>2. \A p \in Request : Fades(p)
    BY AnsweredFades DEF Answer
  <1>3. CASE reqs[q].live
    <2>1. rows'[r] = row /\ \A s \in Row : s # r => rows'[s] = rows[s]
      BY <1>1, <1>3 DEF Answer, UploadIInv
    <2>2. RowFollows(r)
      BY <1>1, <1>3, <2>1
    <2>. QED
      BY <1>2, <2>1, <2>2, RowStepSound
  <1>4. CASE ~reqs[q].live
    <2>1. rows' = rows
      BY <1>4 DEF Answer
    <2>2. RowFollows(r)
      BY <2>1, RowStaysGood
    <2>. QED
      BY <1>2, <2>1, <2>2, RowStepSound
  <1>. QED
    BY <1>3, <1>4

LEMMA AnswerGood ==
  ASSUME UploadIInv, OwnSound, NEW q \in Request, NEW row,
         reqs[q].live => GoodRow(rows[reqs[q].row], row, tasks[reqs[q].task])
  PROVE  reqs[q].live /\ rows'[reqs[q].row] = row => RowFollows(reqs[q].row)
  BY WaitingRow, GoodFollows

LEMMA AnswerExpiredOwn ==
  ASSUME UploadIInv, UploadIInv', OwnSound, NEW q \in Request, AnswerExpired(q)
  PROVE  OwnSound' /\ NotSkippedForOwn
  <1>1. PICK row \in {Failed(rows[reqs[q].row]), Expired(rows[reqs[q].row])} : Answer(q, row)
    BY DEF AnswerExpired, RowOf
  <1>2. reqs[q].live => GoodRow(rows[reqs[q].row], row, tasks[reqs[q].task])
    BY <1>1, WaitingRow, FailedGood, ExpiredGood
  <1>3. UNCHANGED <<kind, original, tasks, stored, late, owner>> /\ reqs[q].pc # "none"
    BY DEF AnswerExpired
  <1>. QED
    BY <1>1, <1>2, <1>3, TasksRestCalm, AnswerGood, AnswerOwn

LEMMA AnswerErrorOwn ==
  ASSUME UploadIInv, UploadIInv', OwnSound, NEW q \in Request, AnswerError(q)
  PROVE  OwnSound' /\ NotSkippedForOwn
  <1>1. PICK row : row = Failed(rows[reqs[q].row])
    OBVIOUS
  <1>2. Answer(q, row) /\ UNCHANGED <<kind, original, tasks, stored, late, owner>> /\ reqs[q].pc # "none"
    BY <1>1 DEF AnswerError, RowOf, At
  <1>3. reqs[q].live => GoodRow(rows[reqs[q].row], row, tasks[reqs[q].task])
    BY <1>1, WaitingRow, FailedGood
  <1>. QED
    BY <1>2, <1>3, TasksRestCalm, AnswerGood, AnswerOwn

\* A verification that missed the original is not one of a row that holds it.
LEMMA AnswerTaskOwn ==
  ASSUME UploadIInv, UploadIInv', OwnSound, NEW q \in Request, AnswerTask(q)
  PROVE  OwnSound' /\ NotSkippedForOwn
  <1>1. PICK t \in Task, r \in Row : t = reqs[q].task /\ r = reqs[q].row
    BY HandledRequest DEF AnswerTask
  <1>2. /\ UNCHANGED <<kind, original, tasks, stored, late, owner>>
        /\ reqs[q].pc = "reply" /\ tasks[t] \in TaskState
    BY TaskFields DEF AnswerTask
  <1>3. reqs[q].live => /\ RowShape(rows[r]) /\ RowKnows(rows[r]) /\ Active(rows[r]) /\ rows[r] \in RowState
                        /\ rows[r].task = t /\ rows[r].step = reqs[q].op
    BY <1>1, WaitingRow, RowBooleans
  <1>4. \/ reqs[q].op = "verify" /\ Answer(q, Verified(rows[r], Answered(q), tasks[t]))
        \/ reqs[q].op = "transfer" /\ Answer(q, [rows[r] EXCEPT !.step = "complete"])
        \/ Answer(q, Finish(rows[r], tasks[t]))
    BY <1>1 DEF AnswerTask, RowOf, TaskOf
  <1>5. CASE reqs[q].op = "verify" /\ Answer(q, Verified(rows[r], Answered(q), tasks[t]))
    <2>1. PICK row : row = Verified(rows[r], Answered(q), tasks[t])
      OBVIOUS
    <2>2. ASSUME reqs[q].live, rows'[r] = row
          PROVE  RowFollows(r)
      <3>1. /\ row.task = t /\ RowKnows(row) /\ (MayTransfer(row) => Fit(tasks[t]))
            /\ Answered(q) # "absent" => GoodRow(rows[r], row, tasks[t])
        BY <1>2, <1>3, <1>5, <2>1, <2>2, VerifiedGood
      <3>2. CASE Answered(q) # "absent"
        BY <1>3, <2>2, <3>1, <3>2, GoodFollows
      <3>3. CASE Answered(q) = "absent"
        <4>1. reqs[q].found = "absent"
          BY <3>3 DEF Answered
        <4>2. ~Held(r, t)
          BY <1>1, <1>2, <2>2, <4>1 DEF OwnSound, AmissSound, Amiss
        <4>3. \A u \in Task : ~Held(r, u)
          BY <1>3, <2>2, <4>2 DEF OwnSound, HeldSound, HoldsOn
        <4>. QED
          BY <1>3, <2>2, <3>1, <4>3 DEF RowFollows
      <3>. QED
        BY <3>2, <3>3
    <2>. QED
      BY <1>1, <1>2, <1>5, <2>1, <2>2, TasksRestCalm, AnswerOwn
  <1>6. CASE reqs[q].op = "transfer" /\ Answer(q, [rows[r] EXCEPT !.step = "complete"])
    <2>. DEFINE row == [rows[r] EXCEPT !.step = "complete"]
    <2>1. reqs[q].live => GoodRow(rows[r], row, tasks[t])
      <3>. SUFFICES ASSUME reqs[q].live
                    PROVE  GoodRow(rows[r], row, tasks[t])
        OBVIOUS
      <3>1. /\ row \in RowState /\ row.step = "complete" /\ row.task = rows[r].task
            /\ row.saved = rows[r].saved /\ row.absent = rows[r].absent /\ row.plan = rows[r].plan
            /\ row.phase = rows[r].phase
        BY <1>3 DEF RowState, Calls
      <3>. HIDE DEF row
      <3>2. (rows[r].saved => ~rows[r].absent) /\ ~(rows[r].absent /\ rows[r].plan)
        BY <1>3 DEF RowKnows
      <3>. QED
        BY <1>3, <3>1, <3>2, GoodWhen
    <2>2. Answer(q, row)
      BY <1>6
    <2>. HIDE DEF row
    <2>. QED
      BY <1>1, <1>2, <2>1, <2>2, TasksRestCalm, AnswerGood, AnswerOwn
  <1>7. CASE Answer(q, Finish(rows[r], tasks[t]))
    <2>1. reqs[q].live => GoodRow(rows[r], Finish(rows[r], tasks[t]), tasks[t])
      BY <1>2, <1>3, FinishGood
    <2>. QED
      BY <1>1, <1>2, <1>7, <2>1, TasksRestCalm, AnswerGood, AnswerOwn
  <1>. QED
    BY <1>4, <1>5, <1>6, <1>7

\* While q writes its task, it has not put an original at the path.
LEMMA WriterHasNothing ==
  ASSUME UploadIInv, OwnSound, NEW q \in Request, reqs[q].pc = "write"
  PROVE  /\ reqs[q].task \in Task /\ reqs[q].task \notin stored /\ original.by # reqs[q].task
         /\ kind = "local" /\ reqs[q] \in ReqState
         /\ tasks[reqs[q].task].phase = "uploading" /\ tasks[reqs[q].task] \in TaskState
  <1>1. PlaceSound(reqs[q]) /\ reqs[q].task \in Task /\ reqs[q] \in ReqState
        /\ tasks[reqs[q].task] \in TaskState
    BY HandledRequest
  <1>. QED
    BY <1>1 DEF PlaceSound, OwnSound, LocalSound, UploadIInv, ServerTypes

\* A transfer that fails, or finds a file of its name, ends a task that is not held
\* afterwards.
LEMMA WriterEnds ==
  ASSUME UploadIInv, OwnSound, NEW q \in Request, reqs[q].pc = "write", NEW new,
         tasks' = [tasks EXCEPT ![reqs[q].task] = new], new.phase \in {"error", "skipped"},
         UNCHANGED <<kind, original, stored, owner>>
  PROVE  TasksCalm /\ FitStays
  <1>1. PICK t \in Task : t = reqs[q].task
    BY WriterHasNothing
  <1>2. tasks'[t] = new /\ \A u \in Task : u # t => tasks'[u] = tasks[u]
    BY <1>1 DEF UploadIInv, ServerTypes
  <1>3. t \notin stored /\ original.by # t /\ kind = "local"
    BY <1>1, WriterHasNothing
  <1>. QED
    BY <1>2, <1>3 DEF TasksCalm, FitStays, Held

LEMMA TransferFailsOwn ==
  ASSUME UploadIInv, UploadIInv', OwnSound, NEW q \in Request, TransferFails(q)
  PROVE  OwnSound' /\ NotSkippedForOwn
  <1>1. reqs[q].pc = "write" /\ reqs[q].task \in Task
    BY WriterHasNothing DEF TransferFails, At
  <1>2. PICK again \in BOOLEAN :
           tasks' = [tasks EXCEPT ![reqs[q].task] = FailTransfer(tasks[reqs[q].task], again)]
    BY <1>1 DEF TransferFails
  <1>3. FailTransfer(tasks[reqs[q].task], again).phase = "error"
    BY <1>1, TaskFields DEF FailTransfer, TaskState
  <1>4. UNCHANGED <<kind, original, stored, late, owner>>
    BY DEF TransferFails
  <1>5. TasksCalm /\ FitStays
    BY <1>1, <1>2, <1>3, <1>4, WriterEnds
  <1>6. PICK row : row = Failed(rows[reqs[q].row])
    OBVIOUS
  <1>7. reqs[q].live => GoodRow(rows[reqs[q].row], row, tasks[reqs[q].task])
    BY <1>6, WaitingRow, FailedGood
  <1>8. Answer(q, row)
    BY <1>6 DEF TransferFails, RowOf
  <1>. QED
    BY <1>1, <1>4, <1>5, <1>7, <1>8, AnswerGood, AnswerOwn
-----------------------------------------------------------------------------
(* The server's steps. *)

\* A handler that goes on, and brings no original to the path.
LEMMA HandlerCalm ==
  ASSUME UploadIInv, UploadIInv', OwnSound, NEW q \in Request, reqs[q].pc # "none",
         NEW m, reqs' = [reqs EXCEPT ![q] = m],
         \/ m = NoReq
         \/ Continues(m, q) /\ m.pc # "write" /\ (Amiss(m) => Amiss(reqs[q])),
         UNCHANGED <<kind, original, stored, owner, rows>>, late \subseteq late', TasksCalm, FitStays
  PROVE  OwnSound' /\ NotSkippedForOwn
  <1>1. reqs'[q] = m /\ \A p \in Request : p # q => reqs'[p] = reqs[p]
    BY DEF UploadIInv
  <1>2. reqs[q] # NoReq
    BY DEF NoReq
  <1>3. \A p \in Request : ReqCalm(p)
    BY <1>1, <1>2 DEF ReqCalm, Continues
  <1>4. Calm
    BY <1>3 DEF Calm
  <1>5. \A r \in Row : RowFollows(r)
    BY RowStaysGood
  <1>. QED
    BY <1>4, <1>5, CalmKeeps

\* A task that is started is fit, and known to be saved.
LEMMA StartedCalm ==
  ASSUME UploadIInv, NEW t \in Task, Known(tasks[t]), StartTask(t)
  PROVE  TasksCalm /\ FitStays
  <1>1. CASE UNCHANGED tasks
    BY <1>1, TasksRestCalm
  <1>2. CASE ~(UNCHANGED tasks)
    <2>. DEFINE new == [tasks[t] EXCEPT !.saved = TRUE, !.phase = "processing", !.retryable = TRUE,
                                        !.again = FALSE, !.invalid = FALSE]
    <2>1. tasks' = [tasks EXCEPT ![t] = new]
      BY <1>2 DEF StartTask
    <2>2. new.saved /\ new.phase = "processing"
      BY TaskFields DEF TaskState
    <2>. HIDE DEF new
    <2>3. tasks'[t] = new /\ \A u \in Task : u # t => tasks'[u] = tasks[u]
      BY <2>1 DEF UploadIInv, ServerTypes
    <2>. QED
      BY <2>2, <2>3 DEF TasksCalm, FitStays, Fit, Placed
  <1>. QED
    BY <1>1, <1>2

LEMMA LinkExistsOwn ==
  ASSUME UploadIInv, UploadIInv', OwnSound, NEW q \in Request, LinkExists(q), UNCHANGED <<rows, owner>>
  PROVE  OwnSound' /\ NotSkippedForOwn
  <1>1. reqs[q].pc = "write" /\ reqs[q] \in ReqState /\ reqs[q].task \in Task
    BY WriterHasNothing DEF LinkExists, At
  <1>2. PICK m : /\ reqs' = [reqs EXCEPT ![q] = m]
                 /\ m = NoReq \/ (Continues(m, q) /\ m.pc = "reply" /\ m.found = "none")
    BY <1>1, RepliesWith DEF LinkExists, Findings
  <1>3. tasks' = [tasks EXCEPT ![reqs[q].task] = [tasks[reqs[q].task] EXCEPT !.phase = "skipped"]]
    BY DEF LinkExists
  <1>4. [tasks[reqs[q].task] EXCEPT !.phase = "skipped"].phase = "skipped"
    BY <1>1, TaskFields DEF TaskState
  <1>5. UNCHANGED <<kind, original, stored, late, owner>>
    BY DEF LinkExists
  <1>6. TasksCalm /\ FitStays
    BY <1>1, <1>3, <1>4, <1>5, WriterEnds
  <1>. QED
    BY <1>1, <1>2, <1>5, <1>6, HandlerCalm DEF Amiss

LEMMA StartsOwn ==
  ASSUME UploadIInv, UploadIInv', OwnSound, NEW q \in Request, Linked(q) \/ RetryStarts(q), UNCHANGED <<rows, owner>>
  PROVE  OwnSound' /\ NotSkippedForOwn
  <1>1. /\ reqs[q].pc \in {"linked", "start"} /\ StartTask(reqs[q].task) /\ Replies(q, "none")
        /\ UNCHANGED <<kind, original, stored, late>>
    BY DEF Linked, RetryStarts, At
  <1>2. reqs[q] \in ReqState /\ reqs[q].task \in Task /\ PlaceSound(reqs[q]) /\ TaskSound(reqs[q].task)
    BY <1>1, HandledRequest
  <1>3. Known(tasks[reqs[q].task])
    BY <1>1, <1>2 DEF PlaceSound, TaskSound, Known
  <1>4. PICK m : /\ reqs' = [reqs EXCEPT ![q] = m]
                 /\ m = NoReq \/ (Continues(m, q) /\ m.pc = "reply" /\ m.found = "none")
    BY <1>1, <1>2, RepliesWith DEF Findings
  <1>5. TasksCalm /\ FitStays
    BY <1>1, <1>2, <1>3, StartedCalm
  <1>. QED
    BY <1>1, <1>4, <1>5, HandlerCalm DEF Amiss

LEMMA LookBeforeRetryOwn ==
  ASSUME UploadIInv, UploadIInv', OwnSound, NEW q \in Request, LookBeforeRetry(q), UNCHANGED <<rows, owner>>
  PROVE  OwnSound' /\ NotSkippedForOwn
  <1>1. reqs[q].pc = "sent" /\ To(q, "start") /\ UNCHANGED <<kind, original, tasks, stored, late>>
    BY DEF LookBeforeRetry, At
  <1>2. PICK m : reqs' = [reqs EXCEPT ![q] = m] /\ Continues(m, q) /\ m.pc = "start"
    BY <1>1, HandledRequest, GoesTo
  <1>. QED
    BY <1>1, <1>2, TasksRestCalm, HandlerCalm DEF Amiss

\* A verification ends: the row of one that is still waited for does not hold what
\* the verification has missed.
LEMMA ActOnFindingOwn ==
  ASSUME UploadIInv, UploadIInv', OwnSound, NEW q \in Request, ActOnFinding(q), UNCHANGED <<rows, owner>>
  PROVE  OwnSound' /\ NotSkippedForOwn
  <1>1. PICK t \in Task, r \in Row : t = reqs[q].task /\ r = reqs[q].row
    BY HandledRequest DEF ActOnFinding
  <1>2. /\ reqs[q] \in ReqState /\ PlaceSound(reqs[q]) /\ reqs[q].pc = "act" /\ reqs[q].op \in {"verify", "complete"}
        /\ tasks[t] \in TaskState /\ kind = "s3" /\ Known(tasks[t])
    BY <1>1, HandledRequest DEF ActOnFinding, Verifies, PlaceSound, Direct
  <1>3. UNCHANGED <<kind, original, stored>> /\ late \subseteq late'
    BY DEF ActOnFinding, TakesEffect
  <1>4. CASE reqs[q].found = "absent" /\ Replies(q, "absent") /\ UNCHANGED tasks
    <2>1. PICK m : /\ reqs' = [reqs EXCEPT ![q] = m]
                   /\ m = NoReq \/ (Continues(m, q) /\ m.pc = "reply" /\ m.found = "absent")
      BY <1>2, <1>4, RepliesWith DEF Findings
    <2>2. m # NoReq => Continues(m, q) /\ m.pc = "reply" /\ (Amiss(m) => Amiss(reqs[q]))
      BY <1>2, <1>4, <2>1 DEF Amiss, Continues
    <2>. QED
      BY <1>2, <1>3, <1>4, <2>1, <2>2, TasksRestCalm, HandlerCalm
  <1>5. ASSUME NEW v \in {"skipped", "rejected", "saved"}, Replies(q, v), TasksCalm, FitStays
        PROVE  OwnSound' /\ NotSkippedForOwn
    <2>1. PICK m : /\ reqs' = [reqs EXCEPT ![q] = m]
                   /\ m = NoReq \/ (Continues(m, q) /\ m.pc = "reply" /\ m.found = v)
      BY <1>2, <1>5, RepliesWith DEF Findings
    <2>2. m # NoReq => Continues(m, q) /\ m.pc = "reply" /\ ~Amiss(m)
      BY <2>1 DEF Amiss
    <2>. QED
      BY <1>2, <1>3, <1>5, <2>1, <2>2, HandlerCalm
  <1>6. CASE /\ reqs[q].found = "foreign" /\ Replies(q, "skipped") /\ TakesEffect(q)
             /\ tasks' = [tasks EXCEPT ![t].phase = IF tasks[t].saved THEN @ ELSE "skipped"]
    <2>. DEFINE new == [tasks[t] EXCEPT !.phase = IF tasks[t].saved THEN @ ELSE "skipped"]
    <2>1. new.phase = (IF tasks[t].saved THEN tasks[t].phase ELSE "skipped")
      BY <1>2 DEF TaskState
    <2>2. tasks' = [tasks EXCEPT ![t] = new]
      BY <1>6
    <2>. HIDE DEF new
    <2>3. tasks'[t] = new /\ \A u \in Task : u # t => tasks'[u] = tasks[u]
      BY <2>2 DEF UploadIInv, ServerTypes
    <2>4. TasksCalm
      BY <1>2, <2>1, <2>3 DEF TasksCalm
    <2>5. ASSUME NEW s \in Row \ late'
          PROVE  ~Held(s, t)' /\ ~(rows[s].task = t /\ MayTransfer(rows[s]))
      <3>1. ASSUME owner[t] = s
            PROVE  /\ s = r /\ reqs[q].live /\ s \notin late
        <4>1. owner[t] = r
          BY <1>1, <1>2 DEF OwnSound, Owned, PreparedFor, NoReq
        <4>. QED
          BY <1>1, <1>3, <1>6, <3>1, <4>1 DEF TakesEffect
      <3>2. ~Held(s, t)'
        <4>. SUFFICES ASSUME Held(s, t)'
                      PROVE  FALSE
          OBVIOUS
        <4>1. owner[t] = s /\ original.by = t
          BY <1>2, <1>3 DEF Held
        <4>2. Held(s, t)
          BY <3>1, <4>1 DEF Held
        <4>3. Amiss(reqs[q])
          BY <1>2, <1>6, <3>1, <4>1 DEF Amiss
        <4>. QED
          BY <1>1, <3>1, <4>1, <4>2, <4>3 DEF OwnSound, AmissSound
      <3>3. ~(rows[s].task = t /\ MayTransfer(rows[s]))
        <4>. SUFFICES ASSUME rows[s].task = t, MayTransfer(rows[s])
                      PROVE  FALSE
          OBVIOUS
        <4>1. owner[t] = s
          BY DEF OwnSound, Owned, PreparedFor
        <4>2. rows[s].step = reqs[q].op
          BY <1>1, <3>1, <4>1, WaitingRow
        <4>. QED
          BY <1>2, <4>2 DEF MayTransfer, Active
      <3>. QED
        BY <3>2, <3>3
    <2>6. FitStays
      BY <2>3, <2>5 DEF FitStays
    <2>. QED
      BY <1>5, <1>6, <2>4, <2>6
  <1>7. CASE /\ reqs[q].found = "unfit" /\ Replies(q, "rejected")
             /\ tasks' = [tasks EXCEPT ![t] = FailTransfer(@, FALSE)]
    <2>. DEFINE new == FailTransfer(tasks[t], FALSE)
    <2>1. new.phase = "error" /\ ~new.again
      BY <1>2 DEF FailTransfer, TaskState
    <2>2. tasks' = [tasks EXCEPT ![t] = new]
      BY <1>2, <1>7
    <2>. HIDE DEF new
    <2>3. tasks'[t] = new /\ \A u \in Task : u # t => tasks'[u] = tasks[u]
      BY <2>2 DEF UploadIInv, ServerTypes
    <2>4. TasksCalm /\ FitStays
      BY <1>2, <2>1, <2>3 DEF TasksCalm, FitStays, Fit
    <2>. QED
      BY <1>5, <1>7, <2>4
  <1>8. CASE Replies(q, "saved") /\ StartTask(t)
    BY <1>2, <1>5, <1>8, StartedCalm
  <1>. QED
    BY <1>1, <1>4, <1>6, <1>7, <1>8 DEF ActOnFinding
\* A transfer takes effect, of which its row knows unless it has given it up.
LEMMA TransferOwn ==
  ASSUME UploadIInv, UploadIInv', OwnSound, NEW q \in Request, NEW t \in Task, t = reqs[q].task,
         At(q, "transfer", "sent"), TakesEffect(q), NEW m, reqs' = [reqs EXCEPT ![q] = m],
         m = NoReq \/ (Continues(m, q) /\ ~Amiss(m)), UNCHANGED <<kind, rows, owner>>,
         \A u \in Task : u # t => tasks'[u] = tasks[u],
         \/ kind = "local" /\ Fit(tasks'[t]) /\ tasks'[t].phase # "none"
         \/ kind = "s3" /\ UNCHANGED tasks,
         stored' \subseteq stored \cup {t}, LocalSound',
         \A s, u : s \in Row /\ u \in Task /\ Held(s, u)' => Held(s, u) \/ u = t
  PROVE  OwnSound' /\ NotSkippedForOwn
  <1>1. PICK r \in Row : r = reqs[q].row
    BY HandledRequest DEF At
  <1>2. PreparedFor(t, r) /\ late \subseteq late' /\ (r \notin late' => reqs[q].live)
    BY <1>1 DEF OwnSound, Owned, At, NoReq, TakesEffect
  <1>3. r \notin late' => rows[r].task = t /\ rows[r].step = "transfer" /\ RowKnows(rows[r])
    BY <1>1, <1>2, WaitingRow DEF At
  <1>4. /\ reqs'[q] = m /\ \A p \in Request : p # q => reqs'[p] = reqs[p]
        /\ m # NoReq => m.task = t /\ m.row = r
    BY <1>1 DEF UploadIInv, Continues
  <1>5. \A u \in Task : tasks[u].phase # "none" => tasks'[u].phase # "none"
    OBVIOUS
  <1>6. \A u \in Task : \A s : PreparedFor(u, s) => PreparedFor(u, s)'
    BY <1>5 DEF PreparedFor
  <1>7. Owned'
    <2>1. ASSUME NEW p \in Request, reqs'[p] # NoReq
          PROVE  PreparedFor(reqs[p].task, reqs[p].row)'
      <3>1. CASE p = q
        BY <1>2, <1>4, <1>6, <2>1, <3>1 DEF PreparedFor
      <3>2. CASE p # q
        <4>1. reqs'[p] = reqs[p] /\ reqs[p].task \in Task
          BY <1>4, <2>1, <3>2, RequestFields DEF ReqState
        <4>2. PreparedFor(reqs[p].task, reqs[p].row)
          BY <2>1, <4>1 DEF OwnSound, Owned
        <4>. QED
          BY <1>6, <4>1, <4>2 DEF PreparedFor
      <3>. QED
        BY <3>1, <3>2
    <2>2. ASSUME NEW s \in Row, rows[s].task \in Task
          PROVE  PreparedFor(rows[s].task, s)'
      <3>1. PreparedFor(rows[s].task, s)
        BY <2>2 DEF OwnSound, Owned
      <3>. QED
        BY <1>5, <2>2, <3>1 DEF PreparedFor
    <2>3. ASSUME NEW u \in stored'
          PROVE  tasks'[u].phase # "none"
      <3>1. u \in stored \/ u = t
        OBVIOUS
      <3>2. u \in Task /\ tasks[u].phase # "none"
        BY <1>2, <3>1 DEF OwnSound, Owned, PreparedFor, UploadIInv, ServerTypes
      <3>. QED
        BY <1>5, <3>2
    <2>. QED
      BY <2>1, <2>2, <2>3 DEF Owned
  <1>8. FitToTransfer'
    BY <1>2 DEF OwnSound, FitToTransfer
  <1>9. HeldSound'
    <2>. SUFFICES ASSUME NEW s \in Row, NEW u \in Task, Held(s, u)'
                  PROVE  HoldsOn(rows[s], u) /\ Fit(tasks'[u])
      BY DEF HeldSound
    <2>1. CASE u = t
      <3>1. s = r /\ r \notin late'
        BY <1>2, <2>1 DEF Held, PreparedFor
      <3>2. HoldsOn(rows[s], u)
        BY <1>3, <2>1, <3>1 DEF HoldsOn, RowKnows
      <3>3. Fit(tasks'[u])
        BY <1>2, <1>3, <2>1, <3>1 DEF OwnSound, FitToTransfer, MayTransfer
      <3>. QED
        BY <3>2, <3>3
    <2>2. CASE u # t
      BY <2>2 DEF OwnSound, HeldSound
    <2>. QED
      BY <2>1, <2>2
  <1>10. AmissSound'
    <2>. SUFFICES ASSUME NEW p \in Request, Amiss(reqs'[p]), Held(reqs[p].row, reqs[p].task)'
                  PROVE  FALSE
      BY DEF AmissSound
    <2>1. p # q /\ reqs'[p] = reqs[p] /\ reqs[p].live /\ reqs[p].task \in Task /\ reqs[p].row \in Row
      BY <1>4, RequestFields DEF Amiss, NoReq
    <2>2. CASE reqs[p].task = t
      <3>1. reqs[p].row = r /\ r \notin late'
        BY <1>2, <2>1, <2>2 DEF Held, PreparedFor
      <3>. QED
        BY <1>1, <1>2, <2>1, <3>1 DEF UploadIInv, RequestsApart
    <2>3. CASE reqs[p].task # t
      <3>1. Held(reqs[p].row, reqs[p].task)
        BY <2>1, <2>3
      <3>. QED
        BY <2>1, <3>1 DEF OwnSound, AmissSound
    <2>. QED
      BY <2>2, <2>3
  <1>11. NotSkippedForOwn
    BY DEF NotSkippedForOwn
  <1>. QED
    BY <1>7, <1>8, <1>9, <1>10, <1>11 DEF OwnSound

LEMMA ClaimOwn ==
  ASSUME UploadIInv, UploadIInv', OwnSound, NEW q \in Request, Claim(q), UNCHANGED <<rows, owner>>
  PROVE  OwnSound' /\ NotSkippedForOwn
  <1>1. PICK t \in Task : t = reqs[q].task
    BY HandledRequest DEF Claim, At
  <1>. DEFINE new == [tasks[t] EXCEPT !.phase = "uploading"]
  <1>2. /\ reqs[q] \in ReqState /\ At(q, "transfer", "sent") /\ TakesEffect(q) /\ kind = "local"
        /\ tasks[t] \in TaskState /\ TaskSound(t) /\ tasks[t].phase = "waiting"
        /\ UNCHANGED <<kind, original, stored>>
    BY <1>1, HandledRequest DEF Claim, At, TaskOf
  <1>3. PICK m : /\ reqs' = [reqs EXCEPT ![q] = m]
                 /\ Continues(m, q) /\ m.pc = "write" /\ m.found = reqs[q].found
    BY <1>2, GoesTo DEF Claim
  <1>4. new.phase = "uploading" /\ new.saved = tasks[t].saved
    BY <1>2 DEF TaskState
  <1>5. tasks' = [tasks EXCEPT ![t] = new]
    BY <1>1 DEF Claim
  <1>. HIDE DEF new
  <1>6. tasks'[t] = new /\ \A u \in Task : u # t => tasks'[u] = tasks[u]
    BY <1>5 DEF UploadIInv, ServerTypes
  <1>7. t \notin stored
    BY <1>2 DEF OwnSound, LocalSound, Placed, TaskSound
  <1>8. LocalSound'
    <2>1. \A u \in stored : Placed(tasks'[u])
      BY <1>2, <1>6, <1>7 DEF OwnSound, LocalSound, UploadIInv, ServerTypes
    <2>2. ASSUME NEW p \in Request, reqs'[p].pc = "write"
          PROVE  reqs'[p].task \notin stored
      <3>1. CASE p = q
        BY <1>1, <1>3, <1>7, <3>1 DEF UploadIInv, Continues
      <3>2. CASE p # q
        BY <1>2, <1>3, <2>2, <3>2 DEF OwnSound, LocalSound, UploadIInv
      <3>. QED
        BY <3>1, <3>2
    <2>. QED
      BY <1>2, <2>1, <2>2 DEF LocalSound
  <1>9. \A s, u : s \in Row /\ u \in Task /\ Held(s, u)' => Held(s, u) \/ u = t
    BY <1>2, <1>6 DEF Held, TakesEffect
  <1>10. Fit(tasks'[t]) /\ ~Amiss(m)
    BY <1>3, <1>4, <1>6 DEF Fit, Amiss
  <1>. QED
    BY <1>1, <1>2, <1>3, <1>4, <1>6, <1>8, <1>9, <1>10, TransferOwn

LEMMA LandOwn ==
  ASSUME UploadIInv, UploadIInv', OwnSound, NEW q \in Request, Land(q), UNCHANGED <<rows, owner>>
  PROVE  OwnSound' /\ NotSkippedForOwn
  <1>1. PICK t \in Task : t = reqs[q].task
    BY HandledRequest DEF Land, At
  <1>2. /\ reqs[q] \in ReqState /\ At(q, "transfer", "sent") /\ TakesEffect(q) /\ kind = "s3"
        /\ UNCHANGED <<kind, tasks>>
    BY <1>1, HandledRequest DEF Land, At
  <1>3. PICK m : /\ reqs' = [reqs EXCEPT ![q] = m]
                 /\ m = NoReq \/ (Continues(m, q) /\ m.pc = "reply" /\ m.found = "none")
    BY <1>2, RepliesWith DEF Land, Findings
  <1>4. /\ original' = original \/ original'.by = t
        /\ stored' \subseteq stored \cup {t}
    BY <1>1 DEF Land, PhotoOf
  <1>5. LocalSound'
    BY <1>2 DEF LocalSound
  <1>6. \A s, u : s \in Row /\ u \in Task /\ Held(s, u)' => Held(s, u) \/ u = t
    BY <1>2, <1>4 DEF Held, TakesEffect
  <1>7. m = NoReq \/ (Continues(m, q) /\ ~Amiss(m))
    BY <1>3 DEF Amiss
  <1>. QED
    BY <1>1, <1>2, <1>3, <1>4, <1>5, <1>6, <1>7, TransferOwn

\* The file of a task that is being written gets its name: the row held it before.
LEMMA LinkOwn ==
  ASSUME UploadIInv, UploadIInv', OwnSound, NEW q \in Request, Link(q), UNCHANGED <<rows, owner>>
  PROVE  OwnSound' /\ NotSkippedForOwn
  <1>1. PICK t \in Task : t = reqs[q].task
    BY WriterHasNothing DEF Link, At
  <1>2. /\ reqs[q].pc = "write" /\ kind = "local" /\ reqs[q] \in ReqState
        /\ tasks[t].phase = "uploading" /\ t \notin stored
    BY <1>1, WriterHasNothing DEF Link, At
  <1>3. /\ UNCHANGED <<kind, tasks, late>> /\ original'.by = t /\ stored' = stored \cup {t}
    BY <1>1 DEF Link, PhotoOf
  <1>4. PICK m : /\ reqs' = [reqs EXCEPT ![q] = m]
                 /\ Continues(m, q) /\ m.pc = "linked" /\ m.found = reqs[q].found
    BY <1>2, GoesTo DEF Link
  <1>5. /\ reqs'[q] = m /\ \A p \in Request : p # q => reqs'[p] = reqs[p]
        /\ m.task = reqs[q].task /\ m.row = reqs[q].row
    BY <1>4 DEF UploadIInv, Continues
  <1>6. Owned'
    <2>1. \A p \in Request : reqs'[p] # NoReq => PreparedFor(reqs[p].task, reqs[p].row)'
      BY <1>2, <1>3, <1>5 DEF OwnSound, Owned, PreparedFor, NoReq
    <2>2. \A u \in stored' : tasks'[u].phase # "none"
      BY <1>2, <1>3 DEF OwnSound, Owned
    <2>. QED
      BY <1>3, <2>1, <2>2 DEF OwnSound, Owned, PreparedFor
  <1>7. LocalSound'
    <2>1. \A u \in stored' : Placed(tasks'[u])
      BY <1>2, <1>3 DEF OwnSound, LocalSound, Placed
    <2>2. ASSUME NEW p \in Request, reqs'[p].pc = "write"
          PROVE  reqs'[p].task \notin stored'
      <3>1. p # q /\ reqs'[p] = reqs[p]
        BY <1>4, <1>5, <2>2
      <3>2. reqs[p].task # t
        BY <1>1, <1>2, <2>2, <3>1 DEF UploadIInv, RequestsApart
      <3>. QED
        BY <1>2, <1>3, <2>2, <3>1, <3>2 DEF OwnSound, LocalSound
    <2>. QED
      BY <2>1, <2>2 DEF LocalSound
  <1>8. FitToTransfer'
    BY <1>3 DEF OwnSound, FitToTransfer
  <1>9. ASSUME NEW s, NEW u \in Task, Held(s, u)'
        PROVE  Held(s, u)
    BY <1>2, <1>3, <1>9 DEF Held
  <1>10. HeldSound'
    BY <1>3, <1>9 DEF OwnSound, HeldSound
  <1>11. AmissSound'
    <2>. SUFFICES ASSUME NEW p \in Request, Amiss(reqs'[p]), Held(reqs[p].row, reqs[p].task)'
                  PROVE  FALSE
      BY DEF AmissSound
    <2>1. reqs'[p] = reqs[p]
      BY <1>4, <1>5 DEF Amiss
    <2>2. reqs[p].task \in Task
      BY <2>1, RequestFields DEF Amiss
    <2>. QED
      BY <1>9, <2>1, <2>2 DEF OwnSound, AmissSound
  <1>12. NotSkippedForOwn
    BY DEF NotSkippedForOwn
  <1>. QED
    BY <1>6, <1>7, <1>8, <1>10, <1>11, <1>12 DEF OwnSound

\* A verification that misses what nobody holds.
LEMMA MissesOwn ==
  ASSUME UploadIInv, UploadIInv', OwnSound, NEW q \in Request, NEW t \in Task, t = reqs[q].task,
         \A s : ~Held(s, t), NEW m, reqs' = [reqs EXCEPT ![q] = m], reqs[q].pc # "none",
         m = NoReq \/ (Continues(m, q) /\ m.pc # "write"),
         UNCHANGED <<kind, original, tasks, stored, late, owner, rows>>
  PROVE  OwnSound' /\ NotSkippedForOwn
  <1>1. /\ reqs'[q] = m /\ \A p \in Request : p # q => reqs'[p] = reqs[p]
        /\ m # NoReq => m.task = t /\ m.row = reqs[q].row
    BY DEF UploadIInv, Continues
  <1>2. Owned'
    <2>1. ASSUME NEW p \in Request, reqs'[p] # NoReq
          PROVE  PreparedFor(reqs[p].task, reqs[p].row)'
      <3>1. reqs[p] # NoReq /\ reqs'[p].task = reqs[p].task /\ reqs'[p].row = reqs[p].row
        <4>1. reqs[q] # NoReq
          BY DEF NoReq
        <4>. QED
          BY <1>1, <2>1, <4>1
      <3>. QED
        BY <3>1 DEF OwnSound, Owned, PreparedFor
    <2>. QED
      BY <2>1 DEF OwnSound, Owned, PreparedFor
  <1>3. LocalSound'
    <2>1. \A p \in Request : reqs'[p].pc = "write" => reqs'[p] = reqs[p]
      BY <1>1 DEF NoReq
    <2>. QED
      BY <2>1 DEF OwnSound, LocalSound
  <1>4. FitToTransfer' /\ HeldSound'
    BY DEF OwnSound, FitToTransfer, HeldSound, Held
  <1>5. AmissSound'
    <2>1. ASSUME NEW p \in Request, Amiss(reqs'[p])
          PROVE  ~Held(reqs'[p].row, reqs'[p].task)
      <3>1. reqs'[p] # NoReq
        BY <2>1 DEF Amiss, NoReq
      <3>. QED
        BY <1>1, <2>1, <3>1 DEF OwnSound, AmissSound
    <2>. QED
      BY <2>1 DEF AmissSound, Held
  <1>6. NotSkippedForOwn
    BY DEF NotSkippedForOwn
  <1>. QED
    BY <1>2, <1>3, <1>4, <1>5, <1>6 DEF OwnSound

\* A task alone tells that its original is not there only in the local directory.
LEMMA LookAtTaskOwn ==
  ASSUME UploadIInv, UploadIInv', OwnSound, NEW q \in Request, LookAtTask(q), UNCHANGED <<rows, owner>>
  PROVE  OwnSound' /\ NotSkippedForOwn
  <1>1. PICK t \in Task : t = reqs[q].task
    BY HandledRequest DEF LookAtTask
  <1>2. /\ reqs[q] \in ReqState /\ tasks[t] \in TaskState /\ TaskSound(t) /\ tasks[t].listed
        /\ reqs[q].pc = "sent" /\ UNCHANGED <<kind, original, tasks, stored, late>>
    BY <1>1, HandledRequest DEF LookAtTask, Listed
  <1>. DEFINE v == Verdict(tasks[t])
  <1>3. /\ v \in {"saved", "skipped", "rejected", "none", "pending", "absent"}
        /\ v = "absent" => kind = "local" /\ ~tasks[t].saved /\ tasks[t].phase # "uploading"
    BY <1>2 DEF Verdict, UploadIInv, ServerTypes
  <1>4. IF v = "none" THEN To(q, "stat") ELSE Replies(q, v)
    BY <1>1 DEF LookAtTask, TaskOf
  <1>. HIDE DEF v
  <1>5. CASE v = "none"
    <2>1. PICK m : reqs' = [reqs EXCEPT ![q] = m] /\ Continues(m, q) /\ m.pc = "stat"
      BY <1>2, <1>4, <1>5, GoesTo
    <2>. QED
      BY <1>2, <2>1, TasksRestCalm, HandlerCalm DEF Amiss
  <1>6. CASE v \in {"saved", "skipped", "rejected", "pending"}
    <2>1. PICK m : /\ reqs' = [reqs EXCEPT ![q] = m]
                   /\ m = NoReq \/ (Continues(m, q) /\ m.pc = "reply" /\ m.found = v)
      BY <1>2, <1>4, <1>6, RepliesWith DEF Findings
    <2>. QED
      BY <1>2, <1>6, <2>1, TasksRestCalm, HandlerCalm DEF Amiss
  <1>7. CASE v = "absent"
    <2>1. PICK m : /\ reqs' = [reqs EXCEPT ![q] = m]
                   /\ m = NoReq \/ (Continues(m, q) /\ m.pc = "reply" /\ m.found = "absent")
      BY <1>2, <1>4, <1>7, RepliesWith DEF Findings
    <2>2. \A s : ~Held(s, t)
      <3>1. t \notin stored
        BY <1>2, <1>3, <1>7 DEF OwnSound, LocalSound, Placed, TaskSound, Known
      <3>2. original.by # t
        BY <3>1 DEF UploadIInv, ServerTypes
      <3>. QED
        BY <1>3, <1>7, <3>2 DEF Held
    <2>. QED
      BY <1>1, <1>2, <2>1, <2>2, MissesOwn
  <1>. QED
    BY <1>3, <1>5, <1>6, <1>7

\* A Stat misses the original, or finds another's, when nobody holds the task's.
LEMMA StatObjectOwn ==
  ASSUME UploadIInv, UploadIInv', OwnSound, NEW q \in Request, StatObject(q), UNCHANGED <<rows, owner>>
  PROVE  OwnSound' /\ NotSkippedForOwn
  <1>1. PICK t \in Task : t = reqs[q].task
    BY HandledRequest DEF StatObject
  <1>2. /\ reqs[q] \in ReqState /\ PlaceSound(reqs[q]) /\ reqs[q].pc = "stat" /\ Finds(q, Found(t))
        /\ UNCHANGED <<kind, original, tasks, stored, late>>
    BY <1>1, HandledRequest DEF StatObject
  <1>3. kind = "s3"
    BY <1>2 DEF PlaceSound
  <1>. DEFINE v == Found(t)
              new == [reqs[q] EXCEPT !.pc = "act", !.found = v]
  <1>4. v \in {"absent", "own", "unfit", "foreign"} /\ (v \in {"absent", "foreign"} => original.by # t)
    BY UploadConstants DEF Found, Nobody
  <1>5. reqs' = [reqs EXCEPT ![q] = new]
    BY <1>2 DEF Finds, UploadIInv
  <1>. HIDE DEF v
  <1>6. Continues(new, q) /\ new.pc = "act" /\ new.found = v
    BY <1>2, <1>4 DEF ReqState, Continues, Findings
  <1>. HIDE DEF new
  <1>7. PICK m : m = new
    OBVIOUS
  <1>8. CASE v \in {"own", "unfit"}
    BY <1>2, <1>5, <1>6, <1>7, <1>8, TasksRestCalm, HandlerCalm DEF Amiss
  <1>9. CASE v \in {"absent", "foreign"}
    <2>1. \A s : ~Held(s, t)
      BY <1>3, <1>4, <1>9 DEF Held
    <2>. QED
      BY <1>1, <1>2, <1>5, <1>6, <1>7, <2>1, MissesOwn
  <1>. QED
    BY <1>4, <1>8, <1>9
LEMMA HandleOwn ==
  ASSUME UploadIInv, UploadIInv', OwnSound, NEW q \in Request, Handle(q), UNCHANGED <<rows, owner>>
  PROVE  OwnSound' /\ NotSkippedForOwn
  BY ClaimOwn, LinkOwn, LinkExistsOwn, StartsOwn, LookAtTaskOwn, StatObjectOwn, ActOnFindingOwn,
     LookBeforeRetryOwn, LandOwn DEF Handle

\* Only a saved task has a goroutine that ends.
LEMMA RoutineEndsOwn ==
  ASSUME UploadIInv, UploadIInv', OwnSound, NEW t \in Task, RoutineEnds(t), UNCHANGED <<rows, owner>>
  PROVE  OwnSound' /\ NotSkippedForOwn
  <1>1. tasks[t] \in TaskState /\ tasks[t].saved
    BY TaskFields DEF RoutineEnds, TaskSound
  <1>2. PICK new : /\ tasks' = [tasks EXCEPT ![t] = new] /\ new.saved /\ new.phase \in {"done", "error"}
    <2>. DEFINE done == [tasks[t] EXCEPT !.phase = "done"]
                failed(retryable) == [tasks[t] EXCEPT !.phase = "error", !.retryable = retryable]
    <2>1. \/ tasks' = [tasks EXCEPT ![t] = done]
          \/ \E retryable \in BOOLEAN : tasks' = [tasks EXCEPT ![t] = failed(retryable)]
      BY <1>1 DEF RoutineEnds, UploadIInv, ServerTypes
    <2>2. /\ done.saved /\ done.phase = "done"
          /\ \A retryable \in BOOLEAN : failed(retryable).saved /\ failed(retryable).phase = "error"
      BY <1>1 DEF TaskState
    <2>. HIDE DEF done, failed
    <2>. QED
      BY <2>1, <2>2
  <1>3. tasks'[t] = new /\ \A u \in Task : u # t => tasks'[u] = tasks[u]
    BY <1>2 DEF UploadIInv, ServerTypes
  <1>4. TasksCalm /\ FitStays
    BY <1>2, <1>3 DEF TasksCalm, FitStays, Fit, Placed
  <1>5. Calm
    BY <1>4 DEF Calm, ReqCalm, RoutineEnds
  <1>6. \A r \in Row : RowFollows(r)
    BY RowStaysGood
  <1>. QED
    BY <1>4, <1>5, <1>6, CalmKeeps

LEMMA ElsewhereOwn ==
  ASSUME UploadIInv, UploadIInv', OwnSound, Elsewhere
  PROVE  OwnSound' /\ NotSkippedForOwn
  <1>1. original'.by \notin Task /\ UNCHANGED <<kind, tasks, reqs, stored, late, rows, owner>>
    BY UploadConstants DEF Elsewhere, Nobody, Stranger
  <1>2. Calm /\ FitStays
    BY <1>1, TasksRestCalm DEF Calm, ReqCalm
  <1>3. \A r \in Row : RowFollows(r)
    BY <1>1, RowStaysGood
  <1>. QED
    BY <1>2, <1>3, CalmKeeps

\* Tasks that are lost are fit: a new process has nothing to say of them.
LEMMA RestartOwn ==
  ASSUME UploadIInv, UploadIInv', OwnSound, Restart
  PROVE  OwnSound' /\ NotSkippedForOwn
  <1>1. UNCHANGED <<kind, original, stored, late, owner>>
    BY DEF Restart
  <1>2. NoTask.phase = "none" /\ Gone.phase = "gone"
    BY DEF NoTask, Gone
  <1>3. \A t \in Task : tasks'[t].phase = IF tasks[t].phase = "none" THEN "none" ELSE "gone"
    <2>. HIDE DEF NoTask, Gone
    <2>. QED
      BY <1>2 DEF Restart
  <1>4. TasksCalm /\ FitStays
    <2>1. \A t \in Task : Fit(tasks'[t])
      BY <1>3 DEF Fit
    <2>2. \A t \in Task : tasks[t].phase = "none" => ~Placed(tasks[t])
      BY TaskFields DEF TaskSound, Placed
    <2>. QED
      BY <1>3, <2>1, <2>2 DEF TasksCalm, FitStays, Placed
  <1>5. \A q \in Request : reqs'[q] = NoReq \/ reqs'[q] = reqs[q]
    BY DEF Restart
  <1>6. Calm
    BY <1>1, <1>4, <1>5 DEF Calm, ReqCalm
  <1>7. ASSUME NEW r \in Row
        PROVE  RowFollows(r)
    <2>1. \/ rows'[r] = rows[r]
          \/ rows'[r] = Failed(rows[r]) /\ \E q \in Request : reqs[q].live /\ reqs[q].row = r
      BY DEF Restart
    <2>2. GoodRow(rows[r], rows'[r], tasks[rows[r].task])
      BY <2>1, WaitingRow, FailedGood, SameRow DEF OwnSound
    <2>. QED
      BY <2>2, GoodFollows
  <1>. QED
    BY <1>4, <1>6, <1>7, CalmKeeps
-----------------------------------------------------------------------------
LEMMA OwnInit == Init => OwnSound
  <1>. SUFFICES ASSUME Init
                PROVE  OwnSound
    OBVIOUS
  <1>1. /\ \A q \in Request : reqs[q] = NoReq
        /\ \A r \in Row : rows[r] = Chosen
        /\ stored = {} /\ original.by \notin Task
        /\ \A t \in Task : tasks[t] = NoTask
    BY UploadConstants DEF Init, ServerInit, Nobody, Stranger
  <1>2. /\ Chosen.task = "none" /\ Chosen.step = "idle" /\ ~Chosen.plan /\ ~Chosen.saved
    BY DEF Chosen
  <1>3. ~NoReq.live /\ NoReq.pc = "none" /\ NoTask.phase = "none"
    BY DEF NoReq, NoTask
  <1>. HIDE DEF NoReq, Chosen, NoTask
  <1>4. Owned /\ LocalSound
    BY <1>1, <1>2, <1>3, UploadConstants DEF Owned, LocalSound
  <1>5. (\A r \in Row : RowKnows(rows[r])) /\ FitToTransfer
    BY <1>1, <1>2 DEF RowKnows, FitToTransfer, MayTransfer, Active
  <1>6. \A r, t : t \in Task => ~Held(r, t)
    BY <1>1, <1>3 DEF Held
  <1>7. HeldSound /\ AmissSound
    BY <1>1, <1>3, <1>6 DEF HeldSound, AmissSound, Amiss
  <1>. QED
    BY <1>4, <1>5, <1>7 DEF OwnSound

LEMMA OwnStep == UploadIInv /\ UploadIInv' /\ OwnSound /\ [Next]_vars => OwnSound' /\ NotSkippedForOwn
  <1>. SUFFICES ASSUME UploadIInv, UploadIInv', OwnSound, [Next]_vars
                PROVE  OwnSound' /\ NotSkippedForOwn
    OBVIOUS
  <1>1. CASE UNCHANGED vars
    <2>1. Calm /\ FitStays
      BY <1>1, TasksRestCalm DEF vars, serverVars, Calm, ReqCalm
    <2>2. \A r \in Row : RowFollows(r)
      BY <1>1, RowStaysGood DEF vars
    <2>. QED
      BY <2>1, <2>2, CalmKeeps
  <1>2. ASSUME NEW r \in Row, Start(r) \/ Stop(r) \/ RowGoesOn(r)
        PROVE  OwnSound' /\ NotSkippedForOwn
    BY <1>2, StartOwn, StopOwn, SendOwn, SendFailsOwn, PrepareRowOwn, PrepareFailsOwn, StatusFirstOwn,
       PollOwn, PollEndsOwn, StatusFailsOwn DEF RowGoesOn
  <1>3. ASSUME NEW q \in Request, ServerGoesOn(q) \/ GiveUp(q)
        PROVE  OwnSound' /\ NotSkippedForOwn
    BY <1>3, HandleOwn, AnswerExpiredOwn, AnswerErrorOwn, TransferFailsOwn, AnswerTaskOwn, GiveUpOwn
       DEF ServerGoesOn
  <1>4. ASSUME NEW t \in Task, RoutineEnds(t), UNCHANGED <<rows, owner, disturbances>>
        PROVE  OwnSound' /\ NotSkippedForOwn
    BY <1>4, RoutineEndsOwn
  <1>. QED
    BY <1>1, <1>2, <1>3, <1>4, RestartOwn, ElsewhereOwn DEF Next

\* While an original is at its path, or is being written there, for a row that has
\* given up no request which took effect later, the row keeps its task, does not
\* prepare another one, and nobody is about to tell it that the original is absent.
THEOREM HeldOriginalsStayKnown == Spec => []OwnSound
  <1>1. Init => OwnSound
    BY OwnInit
  <1>2. UploadIInv /\ UploadIInv' /\ OwnSound /\ [Next]_vars => OwnSound'
    BY OwnStep
  <1>. QED
    BY <1>1, <1>2, UploadsAlwaysSound, PTL DEF Spec

\* A run of upload-batch.ts never ends in "skipped" because of the original that
\* the row itself put at the path, unless a transfer of the row, or a verdict of
\* its verification, took effect after the page had given the request up.
THEOREM OwnPhotosAreNotSkipped == Spec => OwnIsNotSkipped
  <1>1. UploadIInv /\ UploadIInv' /\ OwnSound /\ [Next]_vars =>
          [\A r \in Row : rows[r].phase # "skipped" /\ rows'[r].phase = "skipped" =>
             \A u \in Task : original.by = u => owner[u] # r \/ r \in late]_vars
    BY OwnStep DEF NotSkippedForOwn
  <1>. QED
    BY <1>1, UploadsAlwaysSound, HeldOriginalsStayKnown, PTL DEF Spec, OwnIsNotSkipped
=============================================================================
