------------------------ MODULE PhotoProcessingProofs ------------------------
(***************************************************************************)
(* Proofs about PhotoProcessing, for any number of tasks, photos, versions *)
(* and faults.  The verdict on a version holds whatever happens.  The      *)
(* index and its files are sound as long as no id is handed out while a    *)
(* task of another photo remembers it (OwnIds): SQLite does that, and the  *)
(* runs that violate UsableHasThumbnail and ProcessHoldsLock show what     *)
(* comes of it; nothing else can break them.  The last part is about       *)
(* LibraryScan: what a scan may clean up.                                  *)
(***************************************************************************)
EXTENDS LibraryScan, FiniteSetTheorems, WellFoundedInduction, TLAPS

\* A task beyond the first checks knows a version the source has had.
Seen   == {"lookup", "fetch", "read", "check", "reject", "pend", "save", "recheck", "publish",
           "old", "walls", "encode", "wallCheck", "replace", "oldWalls"}
\* It works on the files or the row of its id.
Filing == {"save", "recheck", "publish", "old", "walls", "encode", "wallCheck", "replace",
           "oldWalls", "delRow", "delWalls", "delFiles"}
\* A cleanup gets no further than to remove the photo.
Removing == {"lock", "compare", "absent", "delRow", "delWalls", "delFiles"}

\* What a task may conclude from the bytes it has read.
JudgeSound(task) ==
  /\ task.pc # "idle" /\ task.op # "none" /\ task.key \in Key /\ task.lock \in Key
  /\ task.pc \in Seen \/ task.op = "listed" => task.obj \in 1..ver[task.key]
  /\ task.pc = "check" => task.data \in task.obj..ver[task.key]
  /\ task.pc = "reject" => task.obj \in BadVersions
  /\ task.pc \in {"pend", "save", "recheck", "publish"} => task.obj \notin BadVersions
  /\ task.pc \in Filing \/ task.op = "remove" => task.id # 0
  /\ task.pc \in {"compare", "absent"} => task.op = "remove"
  /\ task.pc = "reread" => task.op = "thumb"
  /\ task.op = "remove" => task.pc \in Removing
  /\ task.pc \in {"fetch", "read", "check"} => (task.had => task.id # 0) /\ (task.cached => task.had)

TaskSound(t) == tasks[t] = Idle \/ JudgeSound(tasks[t])

\* A row is never ahead of its source, and is marked for its own bytes.
RowSound(k) ==
  LET row == rows[k] IN
  /\ row.version <= ver[k]
  /\ row.version = 0 => row.broken
  /\ ~row.broken => row.version \notin BadVersions
  /\ row.broken /\ row.version # 0 => row.version \in BadVersions \/ (k \in Rejected /\ row.version = 1)

VerdictInv == /\ TypeOK
              /\ \A t \in Task : TaskSound(t)
              /\ \A k \in Key : RowSound(k)
-----------------------------------------------------------------------------
\* The id of a new row is remembered by no task of another photo.
OwnIds == \A k \in Key : ~IsIndexed(k) /\ IsIndexed(k)' =>
            \A t \in Task : tasks[t].lock # k => tasks[t].id # rows'[k].id

\* Photos are kept apart by their locks and ids.
Apart ==
  /\ \A t \in Task : tasks[t].key = tasks[t].lock
  /\ \A t, u \in Task : Holds(t) /\ Holds(u) /\ tasks[t].lock = tasks[u].lock => t = u
  /\ \A j, k \in Key : rows[j].id = rows[k].id => j = k \/ rows[j].id = 0
  /\ \A t \in Task : \A k \in Key : rows[k].id = tasks[t].id => k = tasks[t].lock \/ tasks[t].id = 0
  /\ \A t, u \in Task : tasks[t].id = tasks[u].id => tasks[t].lock = tasks[u].lock \/ tasks[t].id = 0

\* What the holder of a lock knows stays true until it acts on it.
Progress(t) ==
  LET task == tasks[t]
      row == rows[task.key]
  IN
  /\ task.pc \in {"fetch", "read", "check"} =>
       /\ task.had = (row # NoRow) /\ task.id = row.id
       /\ task.cached => ~row.broken /\ row.version = task.obj
       /\ ~task.cached /\ ~row.broken /\ lost = 0 => row.version # task.obj
  /\ task.pc = "pend" => row = NoRow
  /\ task.pc \in {"reject", "save", "recheck", "publish"} => row.version <= task.obj
  /\ task.pc \in {"save", "recheck", "publish"} =>
       /\ row.id = task.id
       /\ ~row.broken /\ lost = 0 => row.version # task.obj
  /\ task.pc \in {"recheck", "publish"} /\ lost = 0 => Target(t) \in thumbs
  /\ task.pc \in {"old", "walls", "encode", "wallCheck", "replace", "oldWalls"} =>
       row = [id |-> task.id, version |-> task.obj, broken |-> FALSE]
  /\ task.pc \in {"wallCheck", "replace", "oldWalls"} /\ lost = 0 => Target(t) \in wallFiles
  /\ task.pc = "oldWalls" => wallRows[task.id] = task.obj
  /\ task.pc \in {"delWalls", "delFiles"} /\ row.id = task.id => row.broken
  /\ task.pc = "delFiles" => wallRows[task.id] = 0
  /\ task.pc \in {"gone", "delRow"} => task.key \notin Steady

\* What the index offers is on the disk, until files are lost.
FilesKept ==
  lost = 0 => /\ UsableHasThumbnail
              /\ \A i \in Ids : wallRows[i] # 0 => <<i, wallRows[i]>> \in wallFiles

SteadySound == \A k \in Steady : k \in present /\ ver[k] = 1

ProcInv == /\ VerdictInv
           /\ Apart
           /\ \A t \in Task : Progress(t)
           /\ FilesKept
           /\ SteadySound
-----------------------------------------------------------------------------
USE ProcessingConstants

\* A set of numbers up to n has a largest one.
LEMMA Largest ==
  ASSUME NEW n \in Nat, NEW S \in SUBSET (1..n), S # {}
  PROVE  \E i \in S : \A j \in S : j <= i
<1> DEFINE R == OpToRel(<, Nat)
           T == {n - i : i \in S}
<1>1. T \subseteq Nat
  OBVIOUS
<1>2. T # {}
  <2>1. PICK i : i \in S
    OBVIOUS
  <2>2. n - i \in T
    BY <2>1
  <2> QED BY <2>2
<1>3. \A x, y \in Nat : x < y => <<x, y>> \in R
  BY DEF OpToRel
<1>4. PICK m \in T : \A x \in T : <<x, m>> \notin R
  <2> HIDE DEF T
  <2> QED BY <1>1, <1>2, WFMin, NatLessThanWellFounded
<1> HIDE DEF R
<1>5. PICK i \in S : m = n - i
  OBVIOUS
<1>6. ASSUME NEW j \in S PROVE j <= i
  <2>1. n - j \in T /\ n - j \in Nat /\ m \in Nat
    BY <1>1
  <2>2. ~(n - j < m)
    BY <1>3, <1>4, <2>1
  <2>3. i \in Int /\ j \in Int
    OBVIOUS
  <2> QED BY <1>5, <2>1, <2>2, <2>3
<1> QED BY <1>6

\* A row is of its kind; no photo has the row without an id.
LEMMA RowFields ==
  ASSUME TypeOK, NEW k \in Key
  PROVE  /\ rows[k].id \in 0..MaxId /\ rows[k].version \in 0..MaxVersion /\ rows[k].broken \in BOOLEAN
         /\ rows[k].id = 0 <=> rows[k] = NoRow
         /\ rows[k] # NoRow => rows[k] \in Row
<1>1. CASE rows[k] = NoRow
  BY <1>1 DEF NoRow
<1>2. CASE rows[k] \in Row
  BY <1>2 DEF Row, Ids, NoRow
<1> QED BY <1>1, <1>2 DEF TypeOK

\* The id of a new row is larger than all that are in use.
LEMMA NewId ==
  ASSUME TypeOK
  PROVE  /\ NextId \in Nat \ {0}
         /\ \A k \in Key : rows[k].id # NextId
<1>1. UsedIds \in SUBSET (1..MaxId)
  <2> SUFFICES ASSUME NEW k \in Key, IsIndexed(k)
               PROVE  rows[k].id \in 1..MaxId
    BY DEF UsedIds
  <2> QED BY RowFields DEF IsIndexed
<1>2. CASE UsedIds = {}
  <2>1. NextId = 1
    BY <1>2 DEF NextId
  <2>2. \A k \in Key : rows[k] = NoRow
    BY <1>2 DEF UsedIds, IsIndexed
  <2> QED BY <2>1, <2>2 DEF NoRow
<1>3. CASE UsedIds # {}
  <2> DEFINE max == CHOOSE i \in UsedIds : \A j \in UsedIds : j <= i
  <2>1. \E i \in UsedIds : \A j \in UsedIds : j <= i
    BY <1>1, <1>3, Largest
  <2>2. max \in UsedIds /\ \A j \in UsedIds : j <= max
    BY <2>1
  <2>3. NextId = 1 + max
    BY <1>3 DEF NextId
  <2> HIDE DEF max
  <2>4. max \in 1..MaxId
    BY <1>1, <2>2
  <2>5. ASSUME NEW k \in Key PROVE rows[k].id # 1 + max
    <3>1. CASE rows[k] = NoRow
      BY <2>4, <3>1 DEF NoRow
    <3>2. CASE rows[k] # NoRow
      <4>1. rows[k].id \in UsedIds
        BY <3>2 DEF UsedIds, IsIndexed
      <4>2. rows[k].id <= max /\ rows[k].id \in 1..MaxId
        BY <1>1, <2>2, <4>1
      <4> QED BY <2>4, <4>2
    <3> QED BY <3>1, <3>2
  <2> QED BY <2>3, <2>4, <2>5
<1> QED BY <1>2, <1>3

\* store.upsert writes a row with an id of its own.
LEMMA Upserted ==
  ASSUME TypeOK, NEW k \in Key, NEW v \in 0..MaxVersion, NEW b \in BOOLEAN, Upsert(k, v, b)
  PROVE  /\ rows' \in [Key -> Row \cup {NoRow}]
         /\ UpsertId(k) \in Ids
         /\ rows'[k] = [id |-> UpsertId(k), version |-> v, broken |-> b]
         /\ rows'[k].id = UpsertId(k) /\ rows'[k].version = v
         /\ \A j \in Key : j # k => rows'[j] = rows[j]
<1> DEFINE row == [id |-> UpsertId(k), version |-> v, broken |-> b]
<1>1. UpsertId(k) \in Ids
  <2>1. UpsertId(k) <= MaxId
    BY DEF Upsert
  <2>2. UpsertId(k) \in Nat \ {0}
    BY RowFields, NewId DEF UpsertId, IsIndexed
  <2> QED BY <2>1, <2>2 DEF Ids
<1>2. row \in Row /\ row.id = UpsertId(k) /\ row.version = v /\ row.broken = b
  BY <1>1 DEF Row
<1>3. rows' = [rows EXCEPT ![k] = row]
  BY DEF Upsert
<1> HIDE DEF row
<1>4. rows' \in [Key -> Row \cup {NoRow}] /\ rows'[k] = row /\ \A j \in Key : j # k => rows'[j] = rows[j]
  BY <1>2, <1>3 DEF TypeOK
<1> QED BY <1>1, <1>2, <1>4 DEF row
-----------------------------------------------------------------------------
(* The verdict. *)

\* A task whose source only grows newer stays sound.
LEMMA StaysJudged ==
  ASSUME TypeOK, NEW task \in TaskState, JudgeSound(task), \A k \in Key : ver'[k] \in Nat /\ ver'[k] >= ver[k]
  PROVE  JudgeSound(task)'
<1>1. task.key \in Key /\ ver[task.key] \in Nat /\ ver'[task.key] \in Nat /\ ver'[task.key] >= ver[task.key]
  BY DEF JudgeSound, TypeOK, Versions
<1>2. task.obj \in Nat /\ task.data \in Nat
  BY DEF TaskState
<1> QED BY <1>1, <1>2 DEF JudgeSound

\* One task moves; the others are where they were.
OneMoves(t) == tasks' \in [Task -> TaskState] /\ \A u \in Task : u # t => tasks'[u] = tasks[u]

LEMMA Turn ==
  ASSUME TypeOK, NEW t \in Task, NEW s \in TaskState, tasks' = [tasks EXCEPT ![t] = s]
  PROVE  OneMoves(t) /\ tasks'[t] = s
  BY DEF TypeOK, OneMoves

LEMMA IdleFields ==
  /\ Idle \in TaskState
  /\ Idle.pc = "idle" /\ Idle.op = "none" /\ Idle.id = 0 /\ Idle.key = NoKey /\ Idle.lock = NoKey
  BY DEF Idle, TaskState, Ops, Steps

LEMMA Returns ==
  ASSUME TypeOK, NEW t \in Task, Return(t)
  PROVE  OneMoves(t) /\ tasks'[t] = Idle
  BY IdleFields, Turn DEF Return

LEMMA Goes ==
  ASSUME TypeOK, NEW t \in Task, NEW q \in Steps, Goto(t, q)
  PROVE  /\ OneMoves(t)
         /\ tasks'[t].pc = q /\ tasks'[t].op = tasks[t].op
         /\ tasks'[t].lock = tasks[t].lock /\ tasks'[t].key = tasks[t].key
         /\ tasks'[t].obj = tasks[t].obj /\ tasks'[t].data = tasks[t].data
         /\ tasks'[t].id = tasks[t].id /\ tasks'[t].had = tasks[t].had
         /\ tasks'[t].old = tasks[t].old /\ tasks'[t].cached = tasks[t].cached
<1> DEFINE s == [tasks[t] EXCEPT !.pc = q]
<1>1. tasks[t] \in TaskState
  BY DEF TypeOK
<1>2. /\ s \in TaskState
      /\ s.pc = q /\ s.op = tasks[t].op /\ s.lock = tasks[t].lock /\ s.key = tasks[t].key
      /\ s.obj = tasks[t].obj /\ s.data = tasks[t].data /\ s.id = tasks[t].id
      /\ s.had = tasks[t].had /\ s.old = tasks[t].old /\ s.cached = tasks[t].cached
  BY <1>1 DEF TaskState
<1>3. tasks' = [tasks EXCEPT ![t] = s]
  BY DEF Goto
<1> HIDE DEF s
<1> QED BY <1>2, <1>3, Turn

\* The fields of a task are what they are declared to be.
LEMMA TaskFields ==
  ASSUME TypeOK, NEW t \in Task
  PROVE  /\ tasks[t] \in TaskState
         /\ tasks[t].op \in Ops /\ tasks[t].pc \in Steps
         /\ tasks[t].lock \in Key \cup {NoKey} /\ tasks[t].key \in Key \cup {NoKey}
         /\ tasks[t].obj \in 0..MaxVersion /\ tasks[t].data \in 0..MaxVersion
         /\ tasks[t].id \in 0..MaxId /\ tasks[t].had \in BOOLEAN
         /\ tasks[t].old \in 0..MaxVersion /\ tasks[t].cached \in BOOLEAN
<1>1. tasks[t] \in TaskState
  BY DEF TypeOK
<1> QED BY <1>1 DEF TaskState

\* A task at some step works on a photo.
LEMMA AtWork ==
  ASSUME VerdictInv, NEW t \in Task, tasks[t].pc # "idle"
  PROVE  JudgeSound(tasks[t]) /\ tasks[t].key \in Key /\ tasks[t].lock \in Key
  BY IdleFields DEF VerdictInv, TaskSound, JudgeSound

\* A version that was seen is one of the versions, and a file of it has a name.
LEMMA SeenVersion ==
  ASSUME VerdictInv, NEW t \in Task, tasks[t].pc \in Seen
  PROVE  /\ tasks[t].obj \in Versions /\ tasks[t].obj \in 1..ver[tasks[t].key]
         /\ tasks[t].id # 0 => Target(t) \in Files
<1>1. tasks[t].obj \in 1..ver[tasks[t].key] /\ tasks[t].key \in Key
  <2>1. tasks[t].pc # "idle"
    BY DEF Seen
  <2> QED BY <2>1, AtWork DEF JudgeSound
<1>2. tasks[t].obj \in Versions
  BY <1>1, TaskFields DEF VerdictInv, TypeOK, Versions
<1>3. tasks[t].id # 0 => tasks[t].id \in Ids
  BY TaskFields DEF VerdictInv, Ids
<1> QED BY <1>1, <1>2, <1>3 DEF Target, Files

\* A step of one task that leaves the sources alone.
LEMMA JudgeStep ==
  ASSUME VerdictInv, NEW t \in Task, OneMoves(t), TaskSound(t)', UNCHANGED source,
         rows' \in [Key -> Row \cup {NoRow}], \A k \in Key : RowSound(k)',
         thumbs' \in SUBSET Files, wallRows' \in [Ids -> 0..MaxVersion], wallFiles' \in SUBSET Files,
         faults' \in 0..MaxFaults, lost' \in 0..MaxLosses
  PROVE  VerdictInv'
<1>1. TypeOK'
  BY DEF VerdictInv, TypeOK, OneMoves, source
<1>2. ASSUME NEW u \in Task PROVE TaskSound(u)'
  <2>1. CASE u = t
    BY <2>1
  <2>2. CASE u # t
    <3>1. tasks'[u] = tasks[u] /\ ver' = ver /\ TaskSound(u)
      BY <2>2 DEF OneMoves, source, VerdictInv
    <3> QED BY <3>1 DEF TaskSound, JudgeSound
  <2> QED BY <2>1, <2>2
<1> QED BY <1>1, <1>2 DEF VerdictInv

\* Rows that stay are as sound as they were.
LEMMA RowsStay ==
  ASSUME VerdictInv, UNCHANGED <<source, rows>>
  PROVE  rows' \in [Key -> Row \cup {NoRow}] /\ \A k \in Key : RowSound(k)'
  BY DEF VerdictInv, TypeOK, RowSound, source

LEMMA QuietStep ==
  ASSUME VerdictInv, NEW t \in Task, OneMoves(t), TaskSound(t)', UNCHANGED <<source, index, faults, lost>>
  PROVE  VerdictInv'
<1>1. UNCHANGED source /\ UNCHANGED rows
  BY DEF index
<1>2. rows' \in [Key -> Row \cup {NoRow}] /\ \A k \in Key : RowSound(k)'
  BY <1>1, RowsStay
<1> QED BY <1>1, <1>2, JudgeStep DEF VerdictInv, TypeOK, index

\* A task that returns is idle.
LEMMA ReturnStep ==
  ASSUME VerdictInv, NEW t \in Task, Return(t), UNCHANGED <<source, rows>>,
         thumbs' \in SUBSET Files, wallRows' \in [Ids -> 0..MaxVersion], wallFiles' \in SUBSET Files,
         faults' \in 0..MaxFaults, lost' \in 0..MaxLosses
  PROVE  VerdictInv'
<1>1. OneMoves(t) /\ TaskSound(t)'
  BY Returns DEF VerdictInv, TaskSound
<1>2. rows' \in [Key -> Row \cup {NoRow}] /\ \A k \in Key : RowSound(k)'
  BY RowsStay
<1> QED BY <1>1, <1>2, JudgeStep

LEMMA QuietReturn ==
  ASSUME VerdictInv, NEW t \in Task, Return(t), UNCHANGED <<source, index, faults, lost>>
  PROVE  VerdictInv'
  BY ReturnStep DEF VerdictInv, TypeOK, index

\* The row a task writes is that of the version it has judged.
LEMMA UpsertSound ==
  ASSUME VerdictInv, NEW k \in Key, NEW v \in 0..MaxVersion, NEW b \in BOOLEAN, Upsert(k, v, b),
         UNCHANGED source, v <= ver[k], v = 0 => b = TRUE, b = FALSE => v \notin BadVersions,
         b = TRUE /\ v # 0 => v \in BadVersions
  PROVE  rows' \in [Key -> Row \cup {NoRow}] /\ \A j \in Key : RowSound(j)'
<1>1. /\ rows' \in [Key -> Row \cup {NoRow}]
      /\ rows'[k].version = v /\ rows'[k].broken = b
      /\ \A j \in Key : j # k => rows'[j] = rows[j]
  <2>1. TypeOK
    BY DEF VerdictInv
  <2>2. /\ rows' \in [Key -> Row \cup {NoRow}]
        /\ rows'[k] = [id |-> UpsertId(k), version |-> v, broken |-> b]
        /\ \A j \in Key : j # k => rows'[j] = rows[j]
    BY <2>1, Upserted
  <2> QED BY <2>2
<1>2. ASSUME NEW j \in Key PROVE RowSound(j)'
  <2>1. CASE j # k
    BY <1>1, <2>1 DEF VerdictInv, RowSound, source
  <2>2. CASE j = k
    BY <1>1, <2>2 DEF RowSound, source
  <2> QED BY <2>1, <2>2
<1> QED BY <1>1, <1>2

LEMMA VerdictInit == Init => VerdictInv
<1> SUFFICES ASSUME Init PROVE VerdictInv
  OBVIOUS
<1>1. PICK f \in [Indexed -> Ids] :
        /\ rows = [k \in Key |-> IF k \in Indexed
                                 THEN [id |-> f[k], version |-> 1, broken |-> k \in Rejected]
                                 ELSE NoRow]
        /\ thumbs = {<<f[k], 1>> : k \in Indexed \ Rejected}
        /\ wallFiles = {<<f[k], 1>> : k \in (Indexed \ Rejected) \cap WallKeys}
  BY DEF Init
<1>2. 1 \in Versions /\ 1 \in 0..MaxVersion /\ 0 \in 0..MaxVersion
  BY DEF Versions
<1>3. ASSUME NEW k \in Key
      PROVE  /\ rows[k] \in Row \cup {NoRow}
             /\ \/ rows[k].version = 0 /\ rows[k].broken
                \/ k \in Indexed /\ rows[k].version = 1 /\ (rows[k].broken <=> k \in Rejected)
  <2>1. CASE k \in Indexed
    <3>1. PICK b \in BOOLEAN : b = (k \in Rejected)
      <4>1. (k \in Rejected) \in BOOLEAN
        OBVIOUS
      <4> QED BY <4>1, Zenon
    <3>2. rows[k] = [id |-> f[k], version |-> 1, broken |-> b]
      BY <1>1, <2>1, <3>1
    <3>3. rows[k] \in Row /\ rows[k].version = 1 /\ rows[k].broken = b
      BY <1>2, <2>1, <3>2 DEF Row
    <3> QED BY <2>1, <3>1, <3>3
  <2>2. CASE k \notin Indexed
    BY <1>1, <2>2 DEF NoRow
  <2> QED BY <2>1, <2>2
<1>4. TypeOK
  <2>1. rows \in [Key -> Row \cup {NoRow}]
    BY <1>1, <1>3
  <2>2. thumbs \in SUBSET Files /\ wallFiles \in SUBSET Files
    BY <1>1, <1>2 DEF Files
  <2>3. wallRows \in [Ids -> 0..MaxVersion]
    BY <1>2 DEF Init
  <2> QED BY <1>2, <2>1, <2>2, <2>3, IdleFields DEF Init, TypeOK
<1>5. \A k \in Key : RowSound(k)
  <2> SUFFICES ASSUME NEW k \in Key
               PROVE  RowSound(k)
    OBVIOUS
  <2>1. ver[k] = 1
    BY DEF Init
  <2>2. CASE rows[k].version = 0 /\ rows[k].broken
    BY <2>1, <2>2 DEF RowSound
  <2>3. CASE k \in Indexed /\ rows[k].version = 1 /\ (rows[k].broken <=> k \in Rejected)
    BY <2>1, <2>3 DEF RowSound
  <2> QED BY <1>3, <2>2, <2>3
<1> QED BY <1>4, <1>5 DEF VerdictInv, TaskSound, Init

\* Only what the checks have shown is taken on from one step to the next.
LEMMA JudgeGoes ==
  ASSUME VerdictInv, NEW t \in Task, tasks[t].pc # "idle", NEW q \in Steps, Goto(t, q), UNCHANGED source,
         q # "idle", q # "check",
         q \in Seen => tasks[t].pc \in Seen \/ tasks[t].obj \in 1..ver[tasks[t].key],
         q = "reject" => tasks[t].obj \in BadVersions,
         q \in {"pend", "save", "recheck", "publish"} => tasks[t].obj \notin BadVersions,
         q \in Filing => tasks[t].id # 0,
         q \in {"compare", "absent"} => tasks[t].op = "remove", q = "reread" => tasks[t].op = "thumb",
         q \in {"fetch", "read"} => tasks[t].pc \in {"fetch", "read"},
         q \in Removing \/ tasks[t].pc \notin Removing \/ tasks[t].op # "remove"
  PROVE  OneMoves(t) /\ TaskSound(t)'
<1>1. /\ OneMoves(t)
      /\ tasks'[t].pc = q /\ tasks'[t].op = tasks[t].op
      /\ tasks'[t].lock = tasks[t].lock /\ tasks'[t].key = tasks[t].key
      /\ tasks'[t].obj = tasks[t].obj /\ tasks'[t].data = tasks[t].data
      /\ tasks'[t].id = tasks[t].id /\ tasks'[t].had = tasks[t].had
      /\ tasks'[t].old = tasks[t].old /\ tasks'[t].cached = tasks[t].cached
  BY Goes DEF VerdictInv
<1>2. JudgeSound(tasks[t])
  BY AtWork
<1> QED BY <1>1, <1>2 DEF TaskSound, JudgeSound, source

LEMMA JudgeQuiet ==
  ASSUME VerdictInv, NEW t \in Task, tasks[t].pc # "idle", NEW q \in Steps, Goto(t, q),
         UNCHANGED <<source, index, faults, lost>>,
         q # "idle", q # "check",
         q \in Seen => tasks[t].pc \in Seen \/ tasks[t].obj \in 1..ver[tasks[t].key],
         q = "reject" => tasks[t].obj \in BadVersions,
         q \in {"pend", "save", "recheck", "publish"} => tasks[t].obj \notin BadVersions,
         q \in Filing => tasks[t].id # 0,
         q \in {"compare", "absent"} => tasks[t].op = "remove", q = "reread" => tasks[t].op = "thumb",
         q \in {"fetch", "read"} => tasks[t].pc \in {"fetch", "read"},
         q \in Removing \/ tasks[t].pc \notin Removing \/ tasks[t].op # "remove"
  PROVE  VerdictInv'
<1>1. UNCHANGED source
  OBVIOUS
<1>2. OneMoves(t) /\ TaskSound(t)'
  BY <1>1, JudgeGoes
<1> QED BY <1>2, QuietStep

\* What a caller knows when it starts.
LEMMA BeginStep ==
  ASSUME VerdictInv, NEW t \in Task, NEW op \in Ops, NEW k \in Key, NEW v \in 0..MaxVersion, NEW i \in 0..MaxId,
         Begin(t, op, k, v, i), op # "none", op = "remove" => i # 0, op = "listed" => v \in 1..ver[k]
  PROVE  VerdictInv'
<1> DEFINE first == IF op = "thumb" THEN "peek" ELSE "lock"
           s == [Idle EXCEPT !.op = op, !.lock = k, !.key = k, !.obj = v, !.id = i, !.pc = first]
<1>1. first \in {"peek", "lock"} /\ (op = "remove" => first = "lock")
  OBVIOUS
<1>2. tasks' = [tasks EXCEPT ![t] = s]
  BY DEF Begin
<1> HIDE DEF first
<1>3. Idle \in TaskState /\ first \in Steps
  BY <1>1, IdleFields DEF Steps
<1>4. /\ s \in TaskState
      /\ s.op = op /\ s.pc = first /\ s.lock = k /\ s.key = k /\ s.obj = v /\ s.id = i
  BY <1>3 DEF TaskState
<1> HIDE DEF s
<1>5. OneMoves(t) /\ tasks'[t] = s
  BY <1>2, <1>4, Turn DEF VerdictInv
<1>6. ver' = ver
  BY DEF Begin, source
<1>7. TaskSound(t)'
  BY <1>1, <1>4, <1>5, <1>6 DEF TaskSound, JudgeSound, Seen, Filing, Removing
<1> QED BY <1>5, <1>7, QuietStep DEF Begin

LEMMA StartStep ==
  ASSUME VerdictInv, NEW t \in Task, NEW k \in Key, Start(t, k)
  PROVE  VerdictInv'
<1>0. /\ ver[k] \in 0..MaxVersion /\ ver[k] \in 1..ver[k] /\ 0 \in 0..MaxVersion /\ 0 \in 0..MaxId
      /\ rows[k].version \in 0..MaxVersion /\ rows[k].id \in 0..MaxId
  BY RowFields DEF VerdictInv, TypeOK, Versions
<1>1. CASE StartListed(t, k)
  BY <1>0, <1>1, BeginStep DEF StartListed, Ops
<1>2. CASE StartSync(t, k)
  BY <1>0, <1>2, BeginStep DEF StartSync, Ops
<1>3. CASE StartThumbnail(t, k)
  BY <1>0, <1>3, BeginStep DEF StartThumbnail, Ops
<1>4. CASE StartRemove(t, k)
  <2>1. rows[k].id # 0
    BY <1>4, RowFields DEF StartRemove, IsIndexed, VerdictInv
  <2> QED BY <1>0, <1>4, <2>1, BeginStep DEF StartRemove, Ops
<1>5. ASSUME NEW v \in Versions, StartRetry(t, k, v) PROVE VerdictInv'
  <2>1. v \in 0..MaxVersion
    BY DEF Versions
  <2> QED BY <1>0, <1>5, <2>1, BeginStep DEF StartRetry, Ops
<1> QED BY <1>1, <1>2, <1>3, <1>4, <1>5 DEF Start

\* The first step under the lock, by the caller.
LEMMA AcquireStep ==
  ASSUME VerdictInv, NEW t \in Task, Acquire(t)
  PROVE  VerdictInv'
<1>1. tasks[t].pc = "lock" /\ UNCHANGED <<source, index, faults, lost>>
      /\ Goto(t, FirstStep(tasks[t].op))
  BY DEF Acquire, At
<1>2. JudgeSound(tasks[t])
  BY <1>1, AtWork
<1>3. tasks[t].op \in {"listed", "sync", "thumb", "remove", "retry"}
  BY <1>2, TaskFields DEF VerdictInv, JudgeSound, Ops
<1>4. PICK q : q = FirstStep(tasks[t].op)
  OBVIOUS
<1>5. /\ q \in {"lookup", "stat", "reread", "compare", "entry"}
      /\ q = "lookup" <=> tasks[t].op = "listed"
      /\ q = "reread" <=> tasks[t].op = "thumb"
      /\ q = "compare" <=> tasks[t].op = "remove"
  BY <1>3, <1>4 DEF FirstStep
<1>6. Goto(t, q)
  BY <1>1, <1>4
<1>7. q = "lookup" => tasks[t].obj \in 1..ver[tasks[t].key]
  BY <1>2, <1>5 DEF JudgeSound
<1> QED BY <1>1, <1>5, <1>6, <1>7, JudgeQuiet DEF Steps, Seen, Filing, Removing

\* The first steps of the callers: nothing is judged yet.
LEMMA CallerStep ==
  ASSUME VerdictInv, NEW t \in Task,
         Peek(t) \/ Compare(t) \/ Absent(t) \/ Entry(t) \/ EntryStat(t) \/ Validate(t) \/ WallCheck(t)
  PROVE  VerdictInv'
<1> USE DEF At, Steps, Seen, Filing, Removing
<1>0. tasks[t].pc # "idle" => JudgeSound(tasks[t])
  BY AtWork
<1>1. CASE Peek(t)
  BY <1>1, QuietReturn, JudgeQuiet DEF Peek
<1>2. CASE Compare(t)
  BY <1>0, <1>2, QuietReturn, JudgeQuiet DEF Compare, JudgeSound
<1>3. CASE Absent(t)
  BY <1>0, <1>3, QuietReturn, JudgeQuiet DEF Absent, JudgeSound
<1>4. CASE Entry(t)
  BY <1>4, QuietReturn, JudgeQuiet DEF Entry
<1>5. CASE EntryStat(t)
  <2>1. tasks[t].pc = "entryStat" /\ UNCHANGED <<source, index, faults, lost>>
    BY <1>5 DEF EntryStat
  <2>2. CASE Return(t)
    BY <2>1, <2>2, QuietReturn
  <2>3. CASE SourceIs(tasks[t].key, tasks[t].obj) /\ Goto(t, "lookup")
    <3>1. ver[tasks[t].key] = tasks[t].obj /\ ver[tasks[t].key] \in Versions
      BY <1>0, <2>1, <2>3 DEF SourceIs, JudgeSound, VerdictInv, TypeOK
    <3>2. tasks[t].obj \in 1..ver[tasks[t].key]
      BY <3>1 DEF Versions
    <3> QED BY <2>1, <2>3, <3>2, JudgeQuiet
  <2> QED BY <1>5, <2>2, <2>3 DEF EntryStat
<1>6. CASE Validate(t)
  BY <1>6, QuietReturn, JudgeQuiet DEF Validate
<1>7. CASE WallCheck(t)
  BY <1>0, <1>7, QuietReturn, JudgeQuiet DEF WallCheck, JudgeSound
<1> QED BY <1>1, <1>2, <1>3, <1>4, <1>5, <1>6, <1>7

\* The source as it is now decides, or the row.
LEMMA SourceStep ==
  ASSUME VerdictInv, NEW t \in Task, Reread(t) \/ Stat(t) \/ Gone(t) \/ Fetch(t)
  PROVE  VerdictInv'
<1>0. tasks[t] \in TaskState /\ (tasks[t].pc # "idle" => JudgeSound(tasks[t]))
  BY AtWork, TaskFields DEF VerdictInv
<1>1. CASE Reread(t)
  <2>1. tasks[t].pc = "reread" /\ UNCHANGED <<source, index, faults, lost>>
    BY <1>1 DEF Reread, At
  <2>2. CASE Return(t)
    BY <2>1, <2>2, QuietReturn
  <2>3. ASSUME NEW k \in Key, tasks' = [tasks EXCEPT ![t].pc = "stat", ![t].key = k, ![t].id = 0]
        PROVE  VerdictInv'
    <3> DEFINE s == [tasks[t] EXCEPT !.pc = "stat", !.key = k, !.id = 0]
    <3>1. s \in TaskState /\ s.pc = "stat" /\ s.key = k /\ s.lock = tasks[t].lock /\ s.op = tasks[t].op
      <4>1. 0 \in 0..MaxId /\ "stat" \in Steps
        BY DEF Steps
      <4> QED BY <1>0, <4>1 DEF TaskState
    <3>2. tasks' = [tasks EXCEPT ![t] = s]
      BY <2>3
    <3> HIDE DEF s
    <3>3. OneMoves(t) /\ tasks'[t] = s
      BY <3>1, <3>2, Turn DEF VerdictInv
    <3>4. TaskSound(t)'
      BY <1>0, <2>1, <3>1, <3>3 DEF TaskSound, JudgeSound, Seen, Filing, Removing
    <3> QED BY <2>1, <3>3, <3>4, QuietStep
  <2> QED BY <1>1, <2>2, <2>3 DEF Reread
<1>2. CASE Stat(t)
  <2>1. tasks[t].pc = "stat" /\ UNCHANGED <<source, index, faults, lost>>
    BY <1>2 DEF Stat, At
  <2>2. CASE Goto(t, "gone")
    BY <2>1, <2>2, JudgeQuiet DEF Steps, Seen, Filing, Removing
  <2>3. CASE tasks' = [tasks EXCEPT ![t].pc = "lookup", ![t].obj = ver[tasks[t].key]]
    <3> DEFINE v == ver[tasks[t].key]
               s == [tasks[t] EXCEPT !.pc = "lookup", !.obj = v]
    <3>1. JudgeSound(tasks[t]) /\ tasks[t].key \in Key
      BY <1>0, <2>1 DEF JudgeSound
    <3>2. v \in 0..MaxVersion /\ v \in 1..v
      BY <3>1 DEF VerdictInv, TypeOK, Versions
    <3> HIDE DEF v
    <3>3. /\ s \in TaskState /\ s.pc = "lookup" /\ s.obj = v /\ s.key = tasks[t].key /\ s.lock = tasks[t].lock
          /\ s.op = tasks[t].op /\ s.id = tasks[t].id
      BY <1>0, <3>2 DEF TaskState, Steps
    <3>4. tasks' = [tasks EXCEPT ![t] = s]
      BY <2>3 DEF v
    <3> HIDE DEF s
    <3>5. OneMoves(t) /\ tasks'[t] = s
      BY <3>3, <3>4, Turn DEF VerdictInv
    <3>6. ver' = ver
      BY <2>1 DEF source
    <3>7. TaskSound(t)'
      BY <2>1, <3>1, <3>2, <3>3, <3>5, <3>6 DEF TaskSound, JudgeSound, Seen, Filing, Removing, v
    <3> QED BY <2>1, <3>5, <3>7, QuietStep
  <2> QED BY <1>2, <2>2, <2>3 DEF Stat, Goto
<1>3. CASE Gone(t)
  <2>1. tasks[t].pc = "gone" /\ UNCHANGED <<source, index, faults, lost>>
    BY <1>3 DEF Gone, At
  <2>2. CASE Return(t)
    BY <2>1, <2>2, QuietReturn
  <2>3. CASE IsIndexed(tasks[t].key)
             /\ tasks' = [tasks EXCEPT ![t].pc = "delRow", ![t].id = rows[tasks[t].key].id]
    <3> DEFINE i == rows[tasks[t].key].id
               s == [tasks[t] EXCEPT !.pc = "delRow", !.id = i]
    <3>1. JudgeSound(tasks[t]) /\ tasks[t].key \in Key
      BY <1>0, <2>1 DEF JudgeSound
    <3>2. i \in 0..MaxId /\ i # 0
      BY <2>3, <3>1, RowFields DEF VerdictInv, IsIndexed
    <3> HIDE DEF i
    <3>3. /\ s \in TaskState /\ s.pc = "delRow" /\ s.id = i /\ s.key = tasks[t].key /\ s.lock = tasks[t].lock
          /\ s.op = tasks[t].op /\ s.obj = tasks[t].obj
      BY <1>0, <3>2 DEF TaskState, Steps
    <3>4. tasks' = [tasks EXCEPT ![t] = s]
      BY <2>3 DEF i
    <3> HIDE DEF s
    <3>5. OneMoves(t) /\ tasks'[t] = s
      BY <3>3, <3>4, Turn DEF VerdictInv
    <3>6. TaskSound(t)'
      BY <2>1, <3>1, <3>2, <3>3, <3>5 DEF TaskSound, JudgeSound, Seen, Filing, Removing, source
    <3> QED BY <2>1, <3>5, <3>6, QuietStep
  <2> QED BY <1>3, <2>2, <2>3 DEF Gone
<1>4. CASE Fetch(t)
  <2>1. tasks[t].pc = "read" /\ UNCHANGED <<source, index, faults, lost>>
    BY <1>4 DEF Fetch, At
  <2>2. CASE Return(t)
    BY <2>1, <2>2, QuietReturn
  <2>3. CASE tasks' = [tasks EXCEPT ![t].pc = "check", ![t].data = ver[tasks[t].key]]
    <3> DEFINE v == ver[tasks[t].key]
               s == [tasks[t] EXCEPT !.pc = "check", !.data = v]
    <3>1. JudgeSound(tasks[t]) /\ tasks[t].key \in Key /\ tasks[t].obj \in 1..v
      BY <1>0, <2>1 DEF JudgeSound, Seen
    <3>2. v \in 0..MaxVersion /\ v \in tasks[t].obj..v
      BY <3>1 DEF VerdictInv, TypeOK, Versions
    <3> HIDE DEF v
    <3>3. /\ s \in TaskState /\ s.pc = "check" /\ s.data = v /\ s.key = tasks[t].key /\ s.lock = tasks[t].lock
          /\ s.op = tasks[t].op /\ s.obj = tasks[t].obj /\ s.id = tasks[t].id
          /\ s.had = tasks[t].had /\ s.cached = tasks[t].cached
      BY <1>0, <3>2 DEF TaskState, Steps
    <3>4. tasks' = [tasks EXCEPT ![t] = s]
      BY <2>3 DEF v
    <3> HIDE DEF s
    <3>5. OneMoves(t) /\ tasks'[t] = s
      BY <3>3, <3>4, Turn DEF VerdictInv
    <3>6. ver' = ver
      BY <2>1 DEF source
    <3>7. TaskSound(t)'
      BY <2>1, <3>1, <3>2, <3>3, <3>5, <3>6 DEF TaskSound, JudgeSound, Seen, Filing, Removing, v
    <3> QED BY <2>1, <3>5, <3>7, QuietStep
  <2> QED BY <1>4, <2>2, <2>3 DEF Fetch
<1> QED BY <1>1, <1>2, <1>3, <1>4

\* The existing row: what is remembered of it has an id.
LEMMA LookupStep ==
  ASSUME VerdictInv, NEW t \in Task, Lookup(t)
  PROVE  VerdictInv'
<1>1. tasks[t].pc = "lookup" /\ UNCHANGED <<source, index, faults, lost>>
  BY DEF Lookup, At
<1>2. CASE Return(t)
  BY <1>1, <1>2, QuietReturn
<1>3. ASSUME NEW cached \in BOOLEAN, NEW had \in BOOLEAN, had = IsIndexed(tasks[t].key), cached => had,
             tasks' = [tasks EXCEPT ![t].pc = "fetch", ![t].id = rows[tasks[t].key].id,
                         ![t].had = had, ![t].old = rows[tasks[t].key].version, ![t].cached = cached]
      PROVE  VerdictInv'
  <2> DEFINE i == rows[tasks[t].key].id
             v == rows[tasks[t].key].version
             s == [tasks[t] EXCEPT !.pc = "fetch", !.id = i, !.had = had, !.old = v, !.cached = cached]
  <2>1. JudgeSound(tasks[t]) /\ tasks[t].key \in Key
    BY <1>1, AtWork DEF JudgeSound
  <2>2. i \in 0..MaxId /\ v \in 0..MaxVersion /\ (had = TRUE => i # 0)
    BY <1>3, <2>1, RowFields DEF VerdictInv, IsIndexed
  <2>3. tasks' = [tasks EXCEPT ![t] = s]
    BY <1>3
  <2> HIDE DEF i, v
  <2>4. tasks[t] \in TaskState
    BY TaskFields DEF VerdictInv
  <2>5. /\ s \in TaskState /\ s.pc = "fetch" /\ s.id = i /\ s.key = tasks[t].key /\ s.lock = tasks[t].lock
        /\ s.op = tasks[t].op /\ s.obj = tasks[t].obj /\ s.had = had /\ s.cached = cached
    BY <2>2, <2>4 DEF TaskState, Steps
  <2> HIDE DEF s
  <2>6. OneMoves(t) /\ tasks'[t] = s
    BY <2>3, <2>5, Turn DEF VerdictInv
  <2>7. ver' = ver
    BY <1>1 DEF source
  <2>8. had = TRUE => i # 0
    BY <2>2
  <2>9. cached = TRUE => had = TRUE
    BY <1>3
  <2>10. TaskSound(t)'
    BY <1>1, <2>1, <2>5, <2>6, <2>7, <2>8, <2>9 DEF TaskSound, JudgeSound, Seen, Filing, Removing
  <2> QED BY <1>1, <2>6, <2>10, QuietStep
<1>4. CASE ~Return(t)
  <2> DEFINE k == tasks[t].key
  <2>1. PICK had \in BOOLEAN : had = IsIndexed(k)
    BY Zenon DEF IsIndexed
  <2>2. PICK cached \in BOOLEAN : cached = (IsIndexed(k) /\ rows[k].version = tasks[t].obj /\ Complete(k))
    BY Zenon
  <2>3. tasks' = [tasks EXCEPT ![t].pc = "fetch", ![t].id = rows[k].id,
                     ![t].had = had, ![t].old = rows[k].version, ![t].cached = cached]
    BY <1>4, <2>1, <2>2, Zenon DEF Lookup
  <2> QED BY <1>3, <2>1, <2>2, <2>3
<1> QED BY <1>2, <1>4

\* The verdict is that of the version: its own bytes were read, if the source
\* still shows it afterwards.
LEMMA CheckStep ==
  ASSUME VerdictInv, NEW t \in Task, Check(t)
  PROVE  VerdictInv'
<1>1. tasks[t].pc = "check" /\ UNCHANGED <<source, index, faults, lost>>
  BY DEF Check, At
<1>2. CASE Return(t)
  BY <1>1, <1>2, QuietReturn
<1>3. CASE SourceIs(tasks[t].key, tasks[t].obj) /\ Goto(t, Verdict(t))
  <2>1. JudgeSound(tasks[t]) /\ tasks[t].key \in Key
    BY <1>1, AtWork DEF JudgeSound
  <2>2. tasks[t].data = tasks[t].obj
    <3>1. tasks[t].data \in tasks[t].obj..ver[tasks[t].key] /\ ver[tasks[t].key] = tasks[t].obj
      BY <1>1, <1>3, <2>1 DEF JudgeSound, SourceIs
    <3>2. tasks[t].obj \in Nat /\ tasks[t].data \in Nat
      BY TaskFields DEF VerdictInv
    <3> QED BY <3>1, <3>2
  <2>3. PICK q : q = Verdict(t)
    OBVIOUS
  <2>4. /\ q \in {"reject", "walls", "save", "pend"}
        /\ q = "reject" <=> tasks[t].data \in BadVersions
        /\ q = "walls" => tasks[t].cached
        /\ q = "save" => tasks[t].had
    BY <2>3 DEF Verdict
  <2>5. q \in Filing => tasks[t].id # 0
    BY <1>1, <2>1, <2>4 DEF JudgeSound, Filing
  <2> QED BY <1>1, <1>3, <2>2, <2>3, <2>4, <2>5, JudgeQuiet DEF Steps, Seen, Removing
<1> QED BY <1>2, <1>3 DEF Check

\* Reject and Pend write a row and remember its id.
LEMMA NewRowStep ==
  ASSUME VerdictInv, NEW t \in Task, Reject(t) \/ Pend(t)
  PROVE  VerdictInv'
<1>1. PICK p \in {"delWalls", "save"}, v \in {0, tasks[t].obj} :
        /\ Upsert(tasks[t].key, v, TRUE)
        /\ tasks' = [tasks EXCEPT ![t].pc = p, ![t].id = UpsertId(tasks[t].key)]
        /\ UNCHANGED <<source, thumbs, wallRows, wallFiles, faults, lost>>
        /\ tasks[t].pc \in {"reject", "pend"}
        /\ tasks[t].pc = "reject" => p = "delWalls" /\ v = tasks[t].obj
        /\ tasks[t].pc = "pend" => p = "save" /\ v = 0
  BY DEF Reject, Pend, At
<1>2. JudgeSound(tasks[t]) /\ tasks[t].key \in Key /\ tasks[t].obj \in 1..ver[tasks[t].key]
      /\ tasks[t].obj \in 0..MaxVersion /\ tasks[t] \in TaskState
  BY <1>1, AtWork, TaskFields DEF JudgeSound, Seen, VerdictInv
<1>3. v \in 0..MaxVersion /\ v <= ver[tasks[t].key] /\ (v # 0 => v \in BadVersions)
  BY <1>1, <1>2 DEF JudgeSound, VerdictInv, TypeOK, Versions
<1> DEFINE i == UpsertId(tasks[t].key)
           s == [tasks[t] EXCEPT !.pc = p, !.id = i]
<1>4. i \in 0..MaxId /\ i # 0
  <2>1. TypeOK /\ TRUE \in BOOLEAN
    BY DEF VerdictInv
  <2>2. i \in Ids
    BY <1>1, <1>2, <1>3, <2>1, Upserted
  <2> QED BY <2>2 DEF Ids
<1>5. rows' \in [Key -> Row \cup {NoRow}] /\ \A k \in Key : RowSound(k)'
  BY <1>1, <1>2, <1>3, UpsertSound
<1>6. tasks' = [tasks EXCEPT ![t] = s]
  BY <1>1
<1> HIDE DEF i
<1>7. /\ s \in TaskState /\ s.pc = p /\ s.id = i /\ s.key = tasks[t].key /\ s.lock = tasks[t].lock
      /\ s.op = tasks[t].op /\ s.obj = tasks[t].obj
  BY <1>2, <1>4 DEF TaskState, Steps
<1> HIDE DEF s
<1>8. OneMoves(t) /\ tasks'[t] = s
  BY <1>6, <1>7, Turn DEF VerdictInv
<1>9. ver' = ver
  BY <1>1 DEF source
<1>10. TaskSound(t)'
  BY <1>1, <1>2, <1>4, <1>7, <1>8, <1>9 DEF TaskSound, JudgeSound, Seen, Filing, Removing
<1> QED BY <1>1, <1>5, <1>8, <1>10, JudgeStep DEF VerdictInv, TypeOK

LEMMA PublishStep ==
  ASSUME VerdictInv, NEW t \in Task, Publish(t)
  PROVE  VerdictInv'
<1>1. /\ tasks[t].pc = "publish" /\ Upsert(tasks[t].key, tasks[t].obj, FALSE) /\ Goto(t, "old")
      /\ UNCHANGED <<source, thumbs, wallRows, wallFiles, faults, lost>>
  BY DEF Publish, At
<1>2. JudgeSound(tasks[t]) /\ tasks[t].key \in Key /\ tasks[t].obj \in 1..ver[tasks[t].key]
      /\ tasks[t].obj \in 0..MaxVersion
  BY <1>1, AtWork, TaskFields DEF JudgeSound, Seen, VerdictInv
<1>3. tasks[t].obj <= ver[tasks[t].key] /\ tasks[t].obj # 0 /\ tasks[t].obj \notin BadVersions
  BY <1>1, <1>2 DEF JudgeSound
<1>4. rows' \in [Key -> Row \cup {NoRow}] /\ \A k \in Key : RowSound(k)'
  BY <1>1, <1>2, <1>3, UpsertSound
<1>5. OneMoves(t) /\ TaskSound(t)'
  BY <1>1, <1>2, JudgeGoes DEF JudgeSound, Steps, Seen, Filing, Removing
<1> QED BY <1>1, <1>4, <1>5, JudgeStep DEF VerdictInv, TypeOK

\* The steps that touch files or wallpapers only.
LEMMA FilesStep ==
  ASSUME VerdictInv, NEW t \in Task, tasks[t].pc # "idle", NEW q \in Steps, Goto(t, q),
         UNCHANGED <<source, rows, faults, lost>>,
         thumbs' \in SUBSET Files, wallRows' \in [Ids -> 0..MaxVersion], wallFiles' \in SUBSET Files,
         q # "idle", q # "check",
         q \in Seen => tasks[t].pc \in Seen,
         q # "reject", q \in Filing, tasks[t].pc \in Filing,
         q \in {"recheck", "publish"} => tasks[t].pc \in {"save", "recheck"}, q \notin {"pend", "save"},
         q \in Removing \/ tasks[t].pc \notin Removing
  PROVE  VerdictInv'
<1>1. JudgeSound(tasks[t])
  BY AtWork
<1>2. tasks[t].id # 0 /\ (q \in {"recheck", "publish"} => tasks[t].obj \notin BadVersions)
  BY <1>1 DEF JudgeSound
<1>3. UNCHANGED source /\ UNCHANGED rows
  OBVIOUS
<1>4. q \notin {"compare", "absent", "reread", "fetch", "read"}
  BY DEF Filing
<1>5. OneMoves(t) /\ TaskSound(t)'
  BY <1>2, <1>3, <1>4, JudgeGoes
<1>6. rows' \in [Key -> Row \cup {NoRow}] /\ \A k \in Key : RowSound(k)'
  BY <1>3, RowsStay
<1> QED BY <1>5, <1>6, JudgeStep DEF VerdictInv, TypeOK

LEMMA ThumbStep ==
  ASSUME VerdictInv, NEW t \in Task, Save(t) \/ Recheck(t) \/ RemoveOld(t)
  PROVE  VerdictInv'
<1> USE DEF At, Steps, Seen, Filing, Removing
<1>0. /\ thumbs \in SUBSET Files /\ wallFiles \in SUBSET Files /\ wallRows \in [Ids -> 0..MaxVersion]
      /\ faults \in 0..MaxFaults /\ lost \in 0..MaxLosses
  BY DEF VerdictInv, TypeOK
<1>1. CASE Save(t)
  <2>1. tasks[t].pc = "save" /\ thumbs' = thumbs \cup {Target(t)} /\ Goto(t, "recheck")
        /\ UNCHANGED <<source, rows, wallRows, wallFiles, faults, lost>>
    BY <1>1 DEF Save
  <2>2. Target(t) \in Files
    BY <2>1, AtWork, SeenVersion DEF JudgeSound
  <2>3. thumbs' \in SUBSET Files
    BY <1>0, <2>1, <2>2
  <2> QED BY <1>0, <2>1, <2>3, FilesStep
<1>2. CASE Recheck(t)
  <2>1. tasks[t].pc = "recheck" /\ thumbs' \in SUBSET Files
        /\ UNCHANGED <<source, rows, wallRows, wallFiles, faults, lost>>
    BY <1>0, <1>2 DEF Recheck
  <2>2. CASE Goto(t, "publish")
    BY <1>0, <2>1, <2>2, FilesStep
  <2>3. CASE Return(t)
    BY <1>0, <2>1, <2>3, ReturnStep
  <2> QED BY <1>2, <2>2, <2>3 DEF Recheck
<1>3. CASE RemoveOld(t)
  <2>1. tasks[t].pc = "old" /\ thumbs' \in SUBSET Files /\ Goto(t, "walls")
        /\ UNCHANGED <<source, rows, wallRows, wallFiles, faults, lost>>
    BY <1>0, <1>3 DEF RemoveOld
  <2> QED BY <1>0, <2>1, FilesStep
<1> QED BY <1>1, <1>2, <1>3

LEMMA WallStep ==
  ASSUME VerdictInv, NEW t \in Task,
         Walls(t) \/ Encode(t) \/ ReplaceWallpapers(t) \/ OldWalls(t) \/ DelWalls(t) \/ DelFiles(t)
  PROVE  VerdictInv'
<1> USE DEF At, Steps, Seen, Filing, Removing
<1>0. /\ thumbs \in SUBSET Files /\ wallFiles \in SUBSET Files /\ wallRows \in [Ids -> 0..MaxVersion]
      /\ faults \in 0..MaxFaults /\ lost \in 0..MaxLosses
  BY DEF VerdictInv, TypeOK
<1>1. CASE Walls(t)
  <2>1. tasks[t].pc = "walls" /\ UNCHANGED <<source, rows, thumbs, wallRows, wallFiles, faults, lost>>
    BY <1>1 DEF Walls, index
  <2>2. CASE Goto(t, "encode")
    BY <1>0, <2>1, <2>2, FilesStep
  <2>3. CASE Return(t)
    BY <1>0, <2>1, <2>3, ReturnStep
  <2> QED BY <1>1, <2>2, <2>3 DEF Walls
<1>2. CASE Encode(t)
  <2>1. tasks[t].pc = "encode" /\ wallFiles' = wallFiles \cup {Target(t)} /\ Goto(t, "wallCheck")
        /\ UNCHANGED <<source, rows, thumbs, wallRows, faults, lost>>
    BY <1>2 DEF Encode
  <2>2. Target(t) \in Files
    BY <2>1, AtWork, SeenVersion DEF JudgeSound
  <2>3. wallFiles' \in SUBSET Files
    BY <1>0, <2>1, <2>2
  <2> QED BY <1>0, <2>1, <2>3, FilesStep
<1>3. CASE ReplaceWallpapers(t)
  <2>1. tasks[t].pc = "replace" /\ wallRows' = [wallRows EXCEPT ![tasks[t].id] = tasks[t].obj]
        /\ Goto(t, "oldWalls") /\ UNCHANGED <<source, rows, thumbs, wallFiles, faults, lost>>
    BY <1>3 DEF ReplaceWallpapers
  <2>2. wallRows' \in [Ids -> 0..MaxVersion]
    BY <1>0, <2>1, TaskFields DEF VerdictInv
  <2> QED BY <1>0, <2>1, <2>2, FilesStep
<1>4. CASE OldWalls(t)
  <2>1. wallFiles' \in SUBSET Files /\ Return(t) /\ UNCHANGED <<source, rows, thumbs, wallRows, faults, lost>>
    BY <1>0, <1>4 DEF OldWalls
  <2> QED BY <1>0, <2>1, ReturnStep
<1>5. CASE DelWalls(t)
  <2>1. tasks[t].pc = "delWalls" /\ wallRows' = [wallRows EXCEPT ![tasks[t].id] = 0]
        /\ Goto(t, "delFiles") /\ UNCHANGED <<source, rows, thumbs, wallFiles, faults, lost>>
    BY <1>5 DEF DelWalls
  <2>2. wallRows' \in [Ids -> 0..MaxVersion]
    <3>1. 0 \in 0..MaxVersion
      OBVIOUS
    <3> QED BY <1>0, <2>1, <3>1
  <2> QED BY <1>0, <2>1, <2>2, FilesStep
<1>6. CASE DelFiles(t)
  <2>1. thumbs' \in SUBSET Files /\ wallFiles' \in SUBSET Files /\ Return(t)
        /\ UNCHANGED <<source, rows, wallRows, faults, lost>>
    BY <1>0, <1>6 DEF DelFiles
  <2> QED BY <1>0, <2>1, ReturnStep
<1> QED BY <1>1, <1>2, <1>3, <1>4, <1>5, <1>6

LEMMA DelRowStep ==
  ASSUME VerdictInv, NEW t \in Task, DelRow(t)
  PROVE  VerdictInv'
<1>1. /\ tasks[t].pc = "delRow" /\ Goto(t, "delWalls")
      /\ rows' = [k \in Key |-> IF rows[k].id = tasks[t].id THEN NoRow ELSE rows[k]]
      /\ UNCHANGED <<source, thumbs, wallRows, wallFiles, faults, lost>>
  BY DEF DelRow, At
<1>2. OneMoves(t) /\ TaskSound(t)'
  BY <1>1, AtWork, JudgeGoes DEF JudgeSound, Steps, Seen, Filing, Removing
<1>3. \A k \in Key : rows'[k] = NoRow \/ rows'[k] = rows[k]
  BY <1>1
<1>4. rows' \in [Key -> Row \cup {NoRow}]
  BY <1>1 DEF VerdictInv, TypeOK
<1>5. ASSUME NEW k \in Key PROVE RowSound(k)'
  <2>1. ver' = ver /\ ver[k] \in Nat /\ RowSound(k)
    BY <1>1 DEF source, VerdictInv, TypeOK, Versions
  <2>2. CASE rows'[k] = NoRow
    BY <2>1, <2>2 DEF RowSound, NoRow
  <2>3. CASE rows'[k] = rows[k]
    BY <2>1, <2>3 DEF RowSound
  <2> QED BY <1>3, <2>2, <2>3
<1> QED BY <1>1, <1>2, <1>4, <1>5, JudgeStep DEF VerdictInv, TypeOK

\* Failures, crashes and the world outside: sources only grow newer.
LEMMA OutsideStep ==
  ASSUME VerdictInv, Environment
  PROVE  VerdictInv'
<1>0. /\ thumbs \in SUBSET Files /\ wallFiles \in SUBSET Files /\ wallRows \in [Ids -> 0..MaxVersion]
      /\ faults \in 0..MaxFaults /\ lost \in 0..MaxLosses /\ ver \in [Key -> Versions] /\ present \in SUBSET Key
  BY DEF VerdictInv, TypeOK
<1>1. CASE Crash
  <2>1. tasks' = [t \in Task |-> Idle] /\ faults' \in 0..MaxFaults /\ UNCHANGED <<source, index, lost>>
    BY <1>0, <1>1 DEF Crash
  <2>2. \A t \in Task : TaskSound(t)'
    BY <2>1 DEF TaskSound
  <2>3. TypeOK'
    BY <2>1, IdleFields DEF VerdictInv, TypeOK, source, index
  <2>4. UNCHANGED <<source, rows>>
    BY <2>1 DEF index
  <2> QED BY <2>2, <2>3, <2>4, RowsStay DEF VerdictInv
<1>2. CASE Lose
  <2>1. /\ thumbs' \in SUBSET Files /\ wallFiles' \in SUBSET Files /\ lost' \in 0..MaxLosses
        /\ UNCHANGED <<ver, present, rows, wallRows, tasks, faults>>
    BY <1>0, <1>2 DEF Lose, source
  <2>2. TypeOK'
    BY <2>1 DEF VerdictInv, TypeOK
  <2> QED BY <2>1, <2>2 DEF VerdictInv, RowSound, TaskSound, JudgeSound
<1>3. ASSUME NEW t \in Task, Fail(t) PROVE VerdictInv'
  <2>1. /\ thumbs' \in SUBSET Files /\ faults' \in 0..MaxFaults /\ Return(t)
        /\ UNCHANGED <<source, rows, wallRows, wallFiles, lost>>
    BY <1>0, <1>3 DEF Fail
  <2> QED BY <1>0, <2>1, ReturnStep
<1>4. ASSUME NEW k \in Key, Overwrite(k) \/ Vanish(k) \/ Reappear(k) PROVE VerdictInv'
  <2>1. /\ ver' \in [Key -> Versions] /\ present' \in SUBSET Key
        /\ UNCHANGED <<rows, thumbs, wallRows, wallFiles, tasks, faults, lost>>
    BY <1>0, <1>4 DEF Overwrite, Vanish, Reappear, index, Versions
  <2>2. \A j \in Key : ver'[j] \in Nat /\ ver[j] \in Nat /\ ver'[j] >= ver[j]
    BY <1>0, <1>4 DEF Overwrite, Vanish, Reappear, Versions
  <2>3. TypeOK'
    BY <2>1 DEF VerdictInv, TypeOK
  <2>4. ASSUME NEW t \in Task PROVE TaskSound(t)'
    <3>1. tasks'[t] = tasks[t] /\ tasks[t] \in TaskState
      BY <2>1, TaskFields DEF VerdictInv
    <3>2. PICK task \in TaskState : task = tasks[t]
      BY <3>1
    <3>3. CASE task = Idle
      BY <3>1, <3>2, <3>3 DEF TaskSound
    <3>4. CASE JudgeSound(task)
      <4>1. JudgeSound(task)'
        BY <2>2, <3>4, StaysJudged DEF VerdictInv
      <4> QED BY <3>1, <3>2, <4>1 DEF TaskSound
    <3> QED BY <3>2, <3>3, <3>4 DEF VerdictInv, TaskSound
  <2>5. ASSUME NEW j \in Key PROVE RowSound(j)'
    <3>1. rows[j].version \in Nat
      BY RowFields DEF VerdictInv
    <3> QED BY <2>1, <2>2, <3>1 DEF VerdictInv, RowSound
  <2> QED BY <2>3, <2>4, <2>5 DEF VerdictInv
<1> QED BY <1>1, <1>2, <1>3, <1>4 DEF Environment

LEMMA VerdictStep == VerdictInv /\ [Next]_vars => VerdictInv'
<1> SUFFICES ASSUME VerdictInv, [Next]_vars PROVE VerdictInv'
  OBVIOUS
<1>1. ASSUME NEW t \in Task, Work(t) PROVE VerdictInv'
  BY <1>1, SourceStep, CallerStep, LookupStep, CheckStep, NewRowStep, ThumbStep, PublishStep, WallStep,
     DelRowStep DEF Work
<1>2. ASSUME NEW t \in Task, Peek(t) PROVE VerdictInv'
  BY <1>2, CallerStep
<1>3. CASE UNCHANGED vars
  <2>1. UNCHANGED <<ver, present, rows, thumbs, wallRows, wallFiles, tasks, faults, lost>>
    BY <1>3 DEF vars
  <2> QED BY <2>1 DEF VerdictInv, TypeOK, RowSound, TaskSound, JudgeSound
<1> QED BY <1>1, <1>2, <1>3, AcquireStep, StartStep, OutsideStep DEF Next

\* What the tasks and rows hold is always of its kind, and judged.
THEOREM ProcessingTyped == Spec => []VerdictInv
<1> QED BY VerdictInit, VerdictStep, PTL DEF Spec

\* A version is marked broken for its own bytes, and shown for its own bytes,
\* whatever is used again, fails, crashes or changes meanwhile (the validations
\* around readVersion and decodeVersion).
THEOREM VerdictsAreTrue == Spec => []VerdictIsOfTheVersion
<1>1. VerdictInv => VerdictIsOfTheVersion
  <2> SUFFICES ASSUME VerdictInv, NEW k \in Key, rows[k].version # 0
               PROVE  \/ rows[k].broken <=> rows[k].version \in BadVersions
                      \/ k \in Rejected /\ rows[k].version = 1
    BY DEF VerdictIsOfTheVersion
  <2>1. rows[k].broken \in BOOLEAN
    BY RowFields DEF VerdictInv
  <2> QED BY <2>1 DEF VerdictInv, RowSound
<1> QED BY <1>1, ProcessingTyped, PTL
-----------------------------------------------------------------------------
(* The index and its files. *)

\* A step touches the row and the files of the lock its task holds, and no others.
OnlyOwn(t) ==
  /\ \A k \in Key : rows'[k] = rows[k] \/ (Holds(t) /\ k = tasks[t].lock)
  /\ \A f \in thumbs : f \in thumbs' \/ (Holds(t) /\ f[1] = tasks[t].id)
  /\ \A f \in wallFiles : f \in wallFiles' \/ (Holds(t) /\ f[1] = tasks[t].id)
  /\ \A i \in Ids : wallRows'[i] = wallRows[i] \/ (Holds(t) /\ i = tasks[t].id)

\* What the index then offers of the photo of that lock is on the disk.
OwnFilesKept(t) ==
  lost = 0 /\ Holds(t) =>
    /\ \A k \in Key : k = tasks[t].lock /\ Usable(k)' => ThumbOf(k)' \in thumbs'
    /\ \A i \in Ids : i = tasks[t].id /\ wallRows'[i] # 0 => <<i, wallRows'[i]>> \in wallFiles'

\* The id a row of k gets is new to all other photos.
NewTo(k) == /\ \A j \in Key : rows[j].id # rows'[k].id
            /\ \A u \in Task : tasks[u].lock # k => tasks[u].id # rows'[k].id

\* How a step may take locks and ids.
TakesOwn(t) ==
  /\ tasks'[t].key = tasks'[t].lock
  /\ Holds(t)' => \A u \in Task : u # t /\ Holds(u) => tasks[u].lock # tasks'[t].lock
  /\ \/ tasks'[t].id = 0
     \/ tasks'[t].id = tasks[t].id /\ tasks'[t].lock = tasks[t].lock
     \/ tasks'[t].lock \in Key /\ rows'[tasks'[t].lock].id = tasks'[t].id
  /\ \A k \in Key : rows'[k].id \in {0, rows[k].id} \/ (k = tasks[t].lock /\ NewTo(k))

\* Two photos that are kept apart stay apart.
LEMMA ApartStep ==
  ASSUME Apart, NEW t \in Task, OneMoves(t), TakesOwn(t)
  PROVE  Apart'
<1> USE DEF TakesOwn, OneMoves
<1>1. \A u \in Task : tasks'[u].key = tasks'[u].lock
  BY DEF Apart
<1>2. \A u, w \in Task : (Holds(u) /\ Holds(w) /\ tasks[u].lock = tasks[w].lock)' => u = w
  <2> SUFFICES ASSUME NEW u \in Task, NEW w \in Task, (Holds(u) /\ Holds(w) /\ tasks[u].lock = tasks[w].lock)'
               PROVE  u = w
    OBVIOUS
  <2>1. CASE u # t /\ w # t
    BY <2>1 DEF Apart, Holds
  <2>2. CASE u = t /\ w # t
    BY <2>2 DEF Holds
  <2>3. CASE u # t /\ w = t
    BY <2>3 DEF Holds
  <2> QED BY <2>1, <2>2, <2>3
<1>3. ASSUME NEW j \in Key, NEW k \in Key, rows'[j].id = rows'[k].id, rows'[j].id # 0
      PROVE  j = k
  <2>1. CASE rows'[j].id = rows[j].id /\ rows'[k].id = rows[k].id
    <3>1. rows[j].id = rows[k].id /\ rows[j].id # 0
      BY <1>3, <2>1
    <3> QED BY <3>1 DEF Apart
  <2>2. CASE rows'[j].id # rows[j].id
    BY <1>3, <2>2 DEF NewTo
  <2>3. CASE rows'[k].id # rows[k].id
    BY <1>3, <2>3 DEF NewTo
  <2> QED BY <2>1, <2>2, <2>3
<1>4. ASSUME NEW u \in Task, NEW k \in Key, rows'[k].id = tasks'[u].id, tasks'[u].id # 0
      PROVE  k = tasks'[u].lock
  <2>1. CASE u # t
    <3>1. tasks'[u] = tasks[u]
      BY <2>1
    <3>2. CASE rows'[k].id = rows[k].id
      BY <1>4, <3>1, <3>2 DEF Apart
    <3>3. CASE NewTo(k)
      BY <1>4, <3>1, <3>3 DEF NewTo
    <3> QED BY <1>4, <3>2, <3>3
  <2>2. CASE u = t /\ tasks'[t].id = tasks[t].id /\ tasks'[t].lock = tasks[t].lock
    <3>1. CASE rows'[k].id = rows[k].id
      BY <1>4, <2>2, <3>1 DEF Apart
    <3> QED BY <1>4, <2>2, <3>1
  <2>3. CASE u = t /\ tasks'[t].lock \in Key /\ rows'[tasks'[t].lock].id = tasks'[t].id
    BY <1>3, <1>4, <2>3
  <2> QED BY <1>4, <2>1, <2>2, <2>3
<1>5. ASSUME NEW u \in Task, u # t, tasks'[u].id = tasks'[t].id, tasks'[t].id # 0
      PROVE  tasks'[u].lock = tasks'[t].lock
  <2>1. CASE tasks'[t].id = tasks[t].id /\ tasks'[t].lock = tasks[t].lock
    BY <1>5, <2>1 DEF Apart
  <2>2. CASE tasks'[t].lock \in Key /\ rows'[tasks'[t].lock].id = tasks'[t].id
    BY <1>4, <1>5, <2>2
  <2> QED BY <1>5, <2>1, <2>2
<1>6. ASSUME NEW u \in Task, NEW w \in Task, tasks'[u].id = tasks'[w].id, tasks'[u].id # 0
      PROVE  tasks'[u].lock = tasks'[w].lock
  <2>1. CASE u # t /\ w # t
    BY <1>6, <2>1 DEF Apart
  <2>2. CASE u = t
    BY <1>5, <1>6, <2>2
  <2>3. CASE w = t
    BY <1>5, <1>6, <2>3
  <2> QED BY <2>1, <2>2, <2>3
<1> QED BY <1>1, <1>2, <1>3, <1>4, <1>6 DEF Apart

\* The holders of other locks keep what they know.
LEMMA OthersProgress ==
  ASSUME VerdictInv, Apart, NEW t \in Task, NEW u \in Task, u # t, OneMoves(t), OnlyOwn(t),
         UNCHANGED lost, Progress(u)
  PROVE  Progress(u)'
<1>1. tasks'[u] = tasks[u]
  BY DEF OneMoves
<1>2. CASE ~Holds(u)
  BY <1>1, <1>2 DEF Progress, Holds
<1>3. CASE Holds(u)
  <2>1. JudgeSound(tasks[u]) /\ tasks[u].key \in Key /\ tasks[u].key = tasks[u].lock
    BY <1>3, AtWork DEF Apart, Holds
  <2>2. Holds(t) => tasks[t].lock # tasks[u].lock
    BY <1>3 DEF Apart
  <2>3. rows'[tasks[u].key] = rows[tasks[u].key]
    BY <2>1, <2>2 DEF OnlyOwn
  <2>4. tasks[u].id # 0 /\ Holds(t) => tasks[u].id # tasks[t].id
    BY <2>2 DEF Apart
  <2>5. Target(u)' = Target(u) /\ Target(u)[1] = tasks[u].id
    BY <1>1 DEF Target
  <2>6. tasks[u].id # 0 /\ Target(u) \in thumbs => Target(u)' \in thumbs'
    BY <2>4, <2>5 DEF OnlyOwn
  <2>7. tasks[u].id # 0 /\ Target(u) \in wallFiles => Target(u)' \in wallFiles'
    BY <2>4, <2>5 DEF OnlyOwn
  <2>8. tasks[u].id # 0 => wallRows'[tasks[u].id] = wallRows[tasks[u].id]
    BY <2>4, TaskFields DEF OnlyOwn, VerdictInv, Ids
  <2>9. tasks[u].pc \in Filing => tasks[u].id # 0
    BY <2>1 DEF JudgeSound
  <2> HIDE DEF Target
  <2> QED BY <1>1, <2>3, <2>6, <2>7, <2>8, <2>9 DEF Progress, Filing
<1> QED BY <1>2, <1>3

\* The files of the photos a step does not own stay.
LEMMA OthersFiles ==
  ASSUME VerdictInv, VerdictInv', Apart, FilesKept, NEW t \in Task, OnlyOwn(t), UNCHANGED lost,
         OwnFilesKept(t)
  PROVE  FilesKept'
<1> SUFFICES ASSUME lost = 0
             PROVE  /\ \A k \in Key : (Usable(k) => ThumbOf(k) \in thumbs)'
                    /\ \A i \in Ids : wallRows'[i] # 0 => <<i, wallRows'[i]>> \in wallFiles'
  BY DEF FilesKept, UsableHasThumbnail
<1>1. ASSUME NEW k \in Key, Usable(k)' PROVE ThumbOf(k)' \in thumbs'
  <2>1. CASE rows'[k] = rows[k] /\ ~(Holds(t) /\ k = tasks[t].lock)
    <3>1. Usable(k) /\ ThumbOf(k)' = ThumbOf(k)
      BY <1>1, <2>1 DEF Usable, IsIndexed, ThumbOf
    <3>2. ThumbOf(k) \in thumbs /\ ThumbOf(k)[1] = rows[k].id
      BY <3>1 DEF FilesKept, UsableHasThumbnail, ThumbOf
    <3>3. rows[k].id # 0
      BY <3>1, RowFields DEF Usable, IsIndexed, VerdictInv
    <3>4. Holds(t) => tasks[t].id # rows[k].id
      BY <2>1, <3>3 DEF Apart
    <3> QED BY <3>1, <3>2, <3>4 DEF OnlyOwn
  <2>2. CASE Holds(t) /\ k = tasks[t].lock
    BY <1>1, <2>2 DEF OwnFilesKept
  <2> QED BY <2>1, <2>2 DEF OnlyOwn
<1>2. ASSUME NEW i \in Ids, wallRows'[i] # 0 PROVE <<i, wallRows'[i]>> \in wallFiles'
  <2>1. CASE Holds(t) /\ i = tasks[t].id
    BY <1>2, <2>1 DEF OwnFilesKept
  <2>2. CASE ~(Holds(t) /\ i = tasks[t].id)
    <3>1. wallRows'[i] = wallRows[i] /\ <<i, wallRows[i]>> \in wallFiles
      BY <1>2, <2>2 DEF OnlyOwn, FilesKept
    <3> QED BY <2>2, <3>1 DEF OnlyOwn
  <2> QED BY <2>1, <2>2
<1> QED BY <1>1, <1>2

\* A step of one task.
LEMMA OwnStep ==
  ASSUME ProcInv, VerdictInv', NEW t \in Task, OneMoves(t), OnlyOwn(t), TakesOwn(t), Progress(t)',
         UNCHANGED <<source, lost>>,
         OwnFilesKept(t)
  PROVE  ProcInv'
<1>1. VerdictInv /\ Apart /\ FilesKept /\ SteadySound /\ \A u \in Task : Progress(u)
  BY DEF ProcInv
<1>2. Apart'
  BY <1>1, ApartStep
<1>3. UNCHANGED lost /\ ver' = ver /\ present' = present
  BY DEF source
<1>4. ASSUME NEW u \in Task PROVE Progress(u)'
  <2>1. CASE u = t
    BY <2>1
  <2>2. CASE u # t
    BY <1>1, <1>3, <2>2, OthersProgress
  <2> QED BY <2>1, <2>2
<1>5. FilesKept'
  BY <1>1, <1>3, OthersFiles
<1>6. SteadySound'
  BY <1>1, <1>3 DEF SteadySound
<1> QED BY <1>2, <1>4, <1>5, <1>6 DEF ProcInv

\* A step that changes the task alone.
LEMMA OwnQuiet ==
  ASSUME ProcInv, VerdictInv', NEW t \in Task, OneMoves(t), TakesOwn(t), Progress(t)',
         UNCHANGED <<source, index, lost>>
  PROVE  ProcInv'
<1>1. rows' = rows /\ thumbs' = thumbs /\ wallRows' = wallRows /\ wallFiles' = wallFiles
      /\ UNCHANGED <<source, lost>>
  BY DEF index
<1>2. OnlyOwn(t)
  BY <1>1 DEF OnlyOwn
<1>3. OwnFilesKept(t)
  BY <1>1 DEF OwnFilesKept, ProcInv, FilesKept, UsableHasThumbnail, Usable, IsIndexed, ThumbOf
<1> QED BY <1>1, <1>2, <1>3, OwnStep

\* A task that returns gives its lock back.
LEMMA OwnReturn ==
  ASSUME ProcInv, VerdictInv', NEW t \in Task, Return(t), OnlyOwn(t), OwnFilesKept(t), UNCHANGED <<source, rows, lost>>
  PROVE  ProcInv'
<1>1. OneMoves(t) /\ tasks'[t] = Idle
  BY Returns DEF ProcInv, VerdictInv
<1>2. Progress(t)'
  BY <1>1, IdleFields DEF Progress
<1>3. TakesOwn(t)
  BY <1>1, IdleFields DEF TakesOwn, Holds
<1> QED BY <1>1, <1>2, <1>3, OwnStep

LEMMA QuietOwn ==
  ASSUME ProcInv, UNCHANGED index, NEW t \in Task
  PROVE  OnlyOwn(t) /\ OwnFilesKept(t)
<1>1. rows' = rows /\ thumbs' = thumbs /\ wallRows' = wallRows /\ wallFiles' = wallFiles
  BY DEF index
<1>2. OnlyOwn(t)
  BY <1>1 DEF OnlyOwn
<1>3. OwnFilesKept(t)
  BY <1>1 DEF OwnFilesKept, ProcInv, FilesKept, UsableHasThumbnail, Usable, IsIndexed, ThumbOf
<1> QED BY <1>2, <1>3

LEMMA OwnQuietReturn ==
  ASSUME ProcInv, VerdictInv', NEW t \in Task, Return(t), UNCHANGED <<source, index, lost>>
  PROVE  ProcInv'
<1>1. rows' = rows
  BY DEF index
<1> QED BY <1>1, QuietOwn, OwnReturn

\* A task goes on under the lock it holds, or takes one that is free.
LEMMA OwnGoes ==
  ASSUME ProcInv, VerdictInv', NEW t \in Task, NEW q \in Steps, Goto(t, q),
         Holds(t) \/ q = "lock" \/ LockFree(tasks[t].lock),
         OnlyOwn(t), OwnFilesKept(t), UNCHANGED <<source, rows, lost>>, Progress(t)'
  PROVE  ProcInv'
<1>1. /\ OneMoves(t)
      /\ tasks'[t].pc = q /\ tasks'[t].lock = tasks[t].lock /\ tasks'[t].key = tasks[t].key
      /\ tasks'[t].id = tasks[t].id
  BY Goes DEF ProcInv, VerdictInv
<1>2. TakesOwn(t)
  <2>1. tasks'[t].key = tasks'[t].lock
    BY <1>1 DEF ProcInv, Apart
  <2>2. Holds(t)' => \A u \in Task : u # t /\ Holds(u) => tasks[u].lock # tasks'[t].lock
    BY <1>1 DEF ProcInv, Apart, Holds, LockFree
  <2> QED BY <1>1, <2>1, <2>2 DEF TakesOwn
<1> QED BY <1>1, <1>2, OwnStep

LEMMA OwnQuietGoes ==
  ASSUME ProcInv, VerdictInv', NEW t \in Task, NEW q \in Steps, Goto(t, q),
         Holds(t) \/ q = "lock" \/ LockFree(tasks[t].lock),
         UNCHANGED <<source, index, lost>>, Progress(t)'
  PROVE  ProcInv'
<1>1. rows' = rows
  BY DEF index
<1> QED BY <1>1, QuietOwn, OwnGoes

\* Before it has looked at the index a task knows nothing that could change.
Early == {"lock", "reread", "stat", "compare", "absent", "entry", "entryStat", "lookup"}

LEMMA EarlyGoes ==
  ASSUME ProcInv, VerdictInv', NEW t \in Task, NEW q \in Early, Goto(t, q),
         Holds(t) \/ q = "lock" \/ LockFree(tasks[t].lock), UNCHANGED <<source, index, lost>>
  PROVE  ProcInv'
<1>1. q \in Steps
  BY DEF Early, Steps
<1>2. tasks'[t].pc = q
  BY <1>1, Goes DEF ProcInv, VerdictInv
<1>3. Progress(t)'
  BY <1>2 DEF Progress, Early
<1> QED BY <1>1, <1>3, OwnQuietGoes

\* The start of a task takes no lock yet; what it remembers is of its own photo.
LEMMA OwnBegin ==
  ASSUME ProcInv, VerdictInv', NEW t \in Task, NEW op \in Ops, NEW k \in Key, NEW v \in 0..MaxVersion,
         NEW i \in 0..MaxId, Begin(t, op, k, v, i), i \in {0, rows[k].id}
  PROVE  ProcInv'
<1> DEFINE first == IF op = "thumb" THEN "peek" ELSE "lock"
           s == [Idle EXCEPT !.op = op, !.lock = k, !.key = k, !.obj = v, !.id = i, !.pc = first]
<1>1. first \in {"peek", "lock"}
  OBVIOUS
<1>2. tasks' = [tasks EXCEPT ![t] = s]
  BY DEF Begin
<1> HIDE DEF first
<1>3. Idle \in TaskState /\ first \in Steps
  BY <1>1, IdleFields DEF Steps
<1>4. s \in TaskState /\ s.pc = first /\ s.lock = k /\ s.key = k /\ s.id = i
  BY <1>3 DEF TaskState
<1> HIDE DEF s
<1>5. OneMoves(t) /\ tasks'[t] = s
  BY <1>2, <1>4, Turn DEF ProcInv, VerdictInv
<1>6. UNCHANGED <<source, index, lost>> /\ rows' = rows
  BY DEF Begin, index
<1>7. Progress(t)'
  BY <1>1, <1>4, <1>5 DEF Progress
<1>8. TakesOwn(t)
  BY <1>1, <1>4, <1>5, <1>6 DEF TakesOwn, Holds
<1> QED BY <1>5, <1>6, <1>7, <1>8, OwnQuiet

LEMMA OwnStart ==
  ASSUME ProcInv, VerdictInv', NEW t \in Task, NEW k \in Key, Start(t, k)
  PROVE  ProcInv'
<1>0. /\ ver[k] \in 0..MaxVersion /\ 0 \in 0..MaxVersion /\ 0 \in 0..MaxId
      /\ rows[k].version \in 0..MaxVersion /\ rows[k].id \in 0..MaxId
  BY RowFields DEF ProcInv, VerdictInv, TypeOK, Versions
<1>1. CASE StartListed(t, k)
  BY <1>0, <1>1, OwnBegin DEF StartListed, Ops
<1>2. CASE StartSync(t, k)
  BY <1>0, <1>2, OwnBegin DEF StartSync, Ops
<1>3. CASE StartThumbnail(t, k)
  BY <1>0, <1>3, OwnBegin DEF StartThumbnail, Ops
<1>4. CASE StartRemove(t, k)
  BY <1>0, <1>4, OwnBegin DEF StartRemove, Ops
<1>5. ASSUME NEW v \in Versions, StartRetry(t, k, v) PROVE ProcInv'
  <2>1. v \in 0..MaxVersion
    BY DEF Versions
  <2> QED BY <1>0, <1>5, <2>1, OwnBegin DEF StartRetry, Ops
<1> QED BY <1>1, <1>2, <1>3, <1>4, <1>5 DEF Start

\* Another task may have the same state, but not the same lock: a task that keeps
\* its lock, and an id it had or that of its row, takes nothing from the others.
LEMMA KeepsOwn ==
  ASSUME ProcInv, NEW t \in Task, NEW s \in TaskState, tasks' = [tasks EXCEPT ![t] = s], rows' = rows,
         Holds(t), s.lock = tasks[t].lock, s.key = tasks[t].key, s.id \in {0, tasks[t].id, rows[tasks[t].lock].id}
  PROVE  OneMoves(t) /\ tasks'[t] = s /\ TakesOwn(t)
<1>1. OneMoves(t) /\ tasks'[t] = s
  BY Turn DEF ProcInv, VerdictInv
<1>2. tasks[t].lock \in Key /\ tasks[t].key = tasks[t].lock
  BY AtWork DEF ProcInv, Apart, Holds
<1>3. \A u \in Task : u # t /\ Holds(u) => tasks[u].lock # tasks[t].lock
  BY DEF ProcInv, Apart
<1> QED BY <1>1, <1>2, <1>3 DEF TakesOwn

\* What the callers do before they process the photo.
LEMMA OwnCaller ==
  ASSUME ProcInv, VerdictInv', NEW t \in Task,
         Peek(t) \/ Reread(t) \/ Stat(t) \/ Gone(t) \/ Compare(t) \/ Absent(t) \/ Entry(t) \/ EntryStat(t)
  PROVE  ProcInv'
<1> USE DEF At
<1>0. UNCHANGED <<source, index, lost>> /\ rows' = rows /\ tasks[t].pc # "idle"
  BY DEF Peek, Reread, Stat, Gone, Compare, Absent, Entry, EntryStat, index
<1>1. tasks[t] \in TaskState /\ tasks[t].key \in Key /\ tasks[t].lock \in Key /\ tasks[t].key = tasks[t].lock
  BY <1>0, AtWork, TaskFields DEF ProcInv, VerdictInv, Apart
<1>2. CASE Return(t)
  BY <1>0, <1>2, OwnQuietReturn
<1>3. CASE Peek(t) /\ ~Return(t)
  <2>1. Goto(t, "lock")
    BY <1>3 DEF Peek
  <2> QED BY <1>0, <2>1, EarlyGoes DEF Early
<1>4. CASE Reread(t) /\ ~Return(t)
  <2>1. PICK k \in Key : /\ rows[k].id = tasks[t].id /\ Usable(k)
                         /\ tasks' = [tasks EXCEPT ![t].pc = "stat", ![t].key = k, ![t].id = 0]
    BY <1>4 DEF Reread
  <2>2. k = tasks[t].lock
    <3>1. rows[k].id # 0
      BY <2>1, RowFields DEF Usable, IsIndexed, ProcInv, VerdictInv
    <3> QED BY <2>1, <3>1 DEF ProcInv, Apart
  <2> DEFINE s == [tasks[t] EXCEPT !.pc = "stat", !.key = k, !.id = 0]
  <2>3. tasks' = [tasks EXCEPT ![t] = s]
    BY <2>1
  <2>4. "stat" \in Steps /\ 0 \in 0..MaxId
    BY DEF Steps
  <2>5. s \in TaskState /\ s.pc = "stat" /\ s.lock = tasks[t].lock /\ s.key = k /\ s.id = 0
    BY <1>1, <2>4 DEF TaskState
  <2> HIDE DEF s
  <2>6. Holds(t)
    BY <1>4 DEF Reread, Holds
  <2>7. OneMoves(t) /\ tasks'[t] = s /\ TakesOwn(t)
    BY <1>0, <1>1, <2>2, <2>3, <2>5, <2>6, KeepsOwn
  <2>8. Progress(t)'
    BY <2>5, <2>7 DEF Progress
  <2> QED BY <1>0, <2>7, <2>8, OwnQuiet
<1>5. CASE Stat(t) /\ tasks[t].key \in present
  <2> DEFINE s == [tasks[t] EXCEPT !.pc = "lookup", !.obj = ver[tasks[t].key]]
  <2>1. tasks' = [tasks EXCEPT ![t] = s]
    BY <1>5 DEF Stat
  <2>2. "lookup" \in Steps /\ ver[tasks[t].key] \in 0..MaxVersion
    BY <1>1 DEF Steps, ProcInv, VerdictInv, TypeOK, Versions
  <2>3. s \in TaskState /\ s.pc = "lookup" /\ s.lock = tasks[t].lock /\ s.key = tasks[t].key /\ s.id = tasks[t].id
    BY <1>1, <2>2 DEF TaskState
  <2> HIDE DEF s
  <2>4. Holds(t)
    BY <1>5 DEF Stat, Holds
  <2>5. OneMoves(t) /\ tasks'[t] = s /\ TakesOwn(t)
    BY <1>0, <2>1, <2>3, <2>4, KeepsOwn
  <2>6. Progress(t)'
    BY <2>3, <2>5 DEF Progress
  <2> QED BY <1>0, <2>5, <2>6, OwnQuiet
<1>6. CASE Stat(t) /\ tasks[t].key \notin present
  <2>1. tasks[t].pc = "stat" /\ Goto(t, "gone") /\ tasks[t].key \notin Steady
    BY <1>6 DEF Stat, Goto, ProcInv, SteadySound
  <2>2. tasks'[t].pc = "gone" /\ tasks'[t].key = tasks[t].key
    BY <2>1, Goes DEF ProcInv, VerdictInv, Steps
  <2>3. Progress(t)'
    BY <2>1, <2>2 DEF Progress
  <2> QED BY <1>0, <2>1, <2>3, OwnQuietGoes DEF Holds, Steps
<1>7. CASE Gone(t) /\ ~Return(t)
  <2> DEFINE i == rows[tasks[t].key].id
             s == [tasks[t] EXCEPT !.pc = "delRow", !.id = i]
  <2>1. tasks' = [tasks EXCEPT ![t] = s] /\ tasks[t].pc = "gone"
    BY <1>7 DEF Gone
  <2>2. "delRow" \in Steps /\ i \in 0..MaxId
    BY <1>1, RowFields DEF Steps, ProcInv, VerdictInv
  <2>3. i = rows[tasks[t].lock].id
    BY <1>1
  <2> HIDE DEF i
  <2>4. s \in TaskState /\ s.pc = "delRow" /\ s.lock = tasks[t].lock /\ s.key = tasks[t].key /\ s.id = i
    BY <1>1, <2>2 DEF TaskState
  <2> HIDE DEF s
  <2>5. Holds(t) /\ tasks[t].key \notin Steady
    BY <2>1 DEF Holds, ProcInv, Progress
  <2>6. OneMoves(t) /\ tasks'[t] = s /\ TakesOwn(t)
    BY <1>0, <2>1, <2>3, <2>4, <2>5, KeepsOwn
  <2>7. Progress(t)'
    BY <2>4, <2>5, <2>6 DEF Progress
  <2> QED BY <1>0, <2>6, <2>7, OwnQuiet
<1>8. CASE Absent(t) /\ ~Return(t)
  <2>1. tasks[t].pc = "absent" /\ Goto(t, "delRow") /\ tasks[t].key \notin Steady
    BY <1>8 DEF Absent, ProcInv, SteadySound
  <2>2. tasks'[t].pc = "delRow" /\ tasks'[t].key = tasks[t].key
    BY <2>1, Goes DEF ProcInv, VerdictInv, Steps
  <2>3. Progress(t)'
    BY <2>1, <2>2 DEF Progress
  <2> QED BY <1>0, <2>1, <2>3, OwnQuietGoes DEF Holds, Steps
<1>9. ASSUME NEW q \in {"absent", "entryStat", "lookup"}, Compare(t) \/ Entry(t) \/ EntryStat(t), Goto(t, q)
      PROVE  ProcInv'
  <2>1. Holds(t)
    BY <1>9 DEF Compare, Entry, EntryStat, Holds
  <2> QED BY <1>0, <1>9, <2>1, EarlyGoes DEF Early
<1>10. CASE (Compare(t) \/ Entry(t) \/ EntryStat(t)) /\ ~Return(t)
  <2>1. Goto(t, "absent") \/ Goto(t, "entryStat") \/ Goto(t, "lookup")
    BY <1>10 DEF Compare, Entry, EntryStat
  <2> QED BY <1>9, <1>10, <2>1
<1> QED BY <1>2, <1>3, <1>4, <1>5, <1>6, <1>7, <1>8, <1>10

LEMMA OwnAcquire ==
  ASSUME ProcInv, VerdictInv', NEW t \in Task, Acquire(t)
  PROVE  ProcInv'
<1>1. tasks[t].pc = "lock" /\ LockFree(tasks[t].lock) /\ UNCHANGED <<source, index, lost>>
  BY DEF Acquire, At
<1>2. PICK q \in Early : Goto(t, q)
  <2>1. tasks[t].op \in Ops \ {"none"}
    BY <1>1, AtWork, TaskFields DEF JudgeSound, ProcInv, VerdictInv
  <2>2. PICK q : q = FirstStep(tasks[t].op)
    OBVIOUS
  <2>3. q \in {"lookup", "stat", "reread", "compare", "entry"}
    BY <2>1, <2>2 DEF FirstStep, Ops
  <2> QED BY <2>2, <2>3 DEF Acquire, Early
<1> QED BY <1>1, <1>2, EarlyGoes

\* The existing row is that of the locked photo, and stays what it was.
LEMMA OwnLookup ==
  ASSUME ProcInv, VerdictInv', NEW t \in Task, Lookup(t)
  PROVE  ProcInv'
<1>1. tasks[t].pc = "lookup" /\ UNCHANGED <<source, index, lost>> /\ rows' = rows
  BY DEF Lookup, At, index
<1>2. tasks[t] \in TaskState /\ tasks[t].key \in Key /\ tasks[t].key = tasks[t].lock
  BY <1>1, AtWork, TaskFields DEF ProcInv, VerdictInv, Apart
<1>3. CASE Return(t)
  BY <1>1, <1>3, OwnQuietReturn
<1>4. CASE ~Return(t)
  <2> DEFINE k == tasks[t].key
             i == rows[k].id
             v == rows[k].version
  <2>1. PICK had \in BOOLEAN : had = IsIndexed(k)
    BY Zenon DEF IsIndexed
  <2>2. PICK cached \in BOOLEAN : cached = (IsIndexed(k) /\ rows[k].version = tasks[t].obj /\ Complete(k))
    BY Zenon
  <2> DEFINE s == [tasks[t] EXCEPT !.pc = "fetch", !.id = i, !.had = had, !.old = v, !.cached = cached]
  <2>3. tasks' = [tasks EXCEPT ![t].pc = "fetch", ![t].id = rows[k].id,
                     ![t].had = had, ![t].old = rows[k].version, ![t].cached = cached]
    BY <1>4, <2>1, <2>2, Zenon DEF Lookup
  <2>4. tasks' = [tasks EXCEPT ![t] = s]
    BY <2>3
  <2>5. "fetch" \in Steps /\ i \in 0..MaxId /\ v \in 0..MaxVersion
    BY <1>2, RowFields DEF Steps, ProcInv, VerdictInv
  <2>6. i = rows[tasks[t].lock].id
    BY <1>2
  <2>7. had = (rows[k] # NoRow)
    BY <2>1 DEF IsIndexed
  <2>8. cached = TRUE => ~rows[k].broken /\ rows[k].version = tasks[t].obj
    BY <2>2 DEF Complete, Usable
  <2>9. cached = FALSE /\ ~rows[k].broken /\ lost = 0 => rows[k].version # tasks[t].obj
    <3>1. ~rows[k].broken => IsIndexed(k) /\ Usable(k)
      BY DEF Usable, IsIndexed, NoRow
    <3>2. Usable(k) /\ lost = 0 => Complete(k)
      BY <1>2 DEF Complete, ProcInv, FilesKept, UsableHasThumbnail
    <3> QED BY <2>2, <3>1, <3>2
  <2> HIDE DEF i, v
  <2>10. /\ s \in TaskState /\ s.pc = "fetch" /\ s.lock = tasks[t].lock /\ s.key = tasks[t].key
         /\ s.id = i /\ s.obj = tasks[t].obj /\ s.had = had /\ s.cached = cached
    BY <1>2, <2>5 DEF TaskState
  <2> HIDE DEF s
  <2>11. Holds(t)
    BY <1>1 DEF Holds
  <2>12. OneMoves(t) /\ tasks'[t] = s /\ TakesOwn(t)
    BY <1>1, <2>4, <2>6, <2>10, <2>11, KeepsOwn
  <2>13. rows'[tasks'[t].key] = rows[k] /\ i = rows[k].id /\ lost' = lost
    BY <1>1, <2>10, <2>12 DEF i
  <2> HIDE DEF k
  <2>14. Progress(t)'
    BY <2>7, <2>8, <2>9, <2>10, <2>12, <2>13 DEF Progress
  <2> QED BY <1>1, <2>12, <2>14, OwnQuiet
<1> QED BY <1>3, <1>4

\* The source is read while the row stays as it is.
LEMMA OwnSource ==
  ASSUME ProcInv, VerdictInv', NEW t \in Task, Validate(t) \/ Fetch(t)
  PROVE  ProcInv'
<1>1. tasks[t].pc \in {"fetch", "read"} /\ UNCHANGED <<source, index, lost>> /\ rows' = rows
  BY DEF Validate, Fetch, At, index
<1>2. tasks[t] \in TaskState /\ tasks[t].key \in Key /\ Progress(t) /\ Holds(t)
  BY <1>1, AtWork, TaskFields DEF ProcInv, VerdictInv, Holds
<1>3. CASE Return(t)
  BY <1>1, <1>3, OwnQuietReturn
<1>4. CASE Validate(t) /\ ~Return(t)
  <2>1. tasks[t].pc = "fetch" /\ Goto(t, "read")
    BY <1>4 DEF Validate, At
  <2>2. /\ tasks'[t].pc = "read" /\ tasks'[t].key = tasks[t].key /\ tasks'[t].obj = tasks[t].obj
        /\ tasks'[t].id = tasks[t].id /\ tasks'[t].had = tasks[t].had /\ tasks'[t].cached = tasks[t].cached
    BY <2>1, Goes DEF ProcInv, VerdictInv, Steps
  <2>3. Progress(t)'
    BY <1>1, <1>2, <2>1, <2>2 DEF Progress
  <2> QED BY <1>1, <1>2, <2>1, <2>3, OwnQuietGoes DEF Steps
<1>5. CASE Fetch(t) /\ ~Return(t)
  <2> DEFINE s == [tasks[t] EXCEPT !.pc = "check", !.data = ver[tasks[t].key]]
  <2>1. tasks' = [tasks EXCEPT ![t] = s] /\ tasks[t].pc = "read"
    BY <1>5 DEF Fetch, At
  <2>2. "check" \in Steps /\ ver[tasks[t].key] \in 0..MaxVersion
    BY <1>2 DEF Steps, ProcInv, VerdictInv, TypeOK, Versions
  <2>3. /\ s \in TaskState /\ s.pc = "check" /\ s.lock = tasks[t].lock /\ s.key = tasks[t].key
        /\ s.id = tasks[t].id /\ s.obj = tasks[t].obj /\ s.had = tasks[t].had /\ s.cached = tasks[t].cached
    BY <1>2, <2>2 DEF TaskState
  <2> HIDE DEF s
  <2>4. OneMoves(t) /\ tasks'[t] = s /\ TakesOwn(t)
    BY <1>1, <1>2, <2>1, <2>3, KeepsOwn
  <2>5. Progress(t)'
    BY <1>1, <1>2, <2>1, <2>3, <2>4 DEF Progress
  <2> QED BY <1>1, <2>4, <2>5, OwnQuiet
<1> QED BY <1>3, <1>4, <1>5

\* Nothing newer than what was validated is in the index.
LEMMA OwnCheck ==
  ASSUME ProcInv, VerdictInv', NEW t \in Task, Check(t)
  PROVE  ProcInv'
<1>1. tasks[t].pc = "check" /\ UNCHANGED <<source, index, lost>> /\ rows' = rows
  BY DEF Check, At, index
<1>2. CASE Return(t)
  BY <1>1, <1>2, OwnQuietReturn
<1>3. CASE SourceIs(tasks[t].key, tasks[t].obj) /\ Goto(t, Verdict(t))
  <2>1. tasks[t].key \in Key /\ Progress(t) /\ Holds(t) /\ tasks[t].had \in BOOLEAN /\ tasks[t].cached \in BOOLEAN
    BY <1>1, AtWork, TaskFields DEF ProcInv, VerdictInv, Holds
  <2>2. rows[tasks[t].key].version <= tasks[t].obj
    BY <1>3, <2>1 DEF SourceIs, ProcInv, VerdictInv, RowSound
  <2>3. PICK q : q = Verdict(t)
    OBVIOUS
  <2>4. /\ q \in {"reject", "walls", "save", "pend"}
        /\ q = "walls" => tasks[t].cached
        /\ q = "save" => ~tasks[t].cached /\ tasks[t].had
        /\ q = "pend" => ~tasks[t].cached /\ ~tasks[t].had
    BY <2>3 DEF Verdict
  <2>5. q \in Steps /\ Goto(t, q)
    BY <1>3, <2>3, <2>4 DEF Steps
  <2>6. /\ tasks'[t].pc = q /\ tasks'[t].key = tasks[t].key /\ tasks'[t].obj = tasks[t].obj
        /\ tasks'[t].id = tasks[t].id
    BY <2>5, Goes DEF ProcInv, VerdictInv
  <2>7. PICK row : row = rows[tasks[t].key]
    OBVIOUS
  <2>8. q = "walls" => row = [id |-> tasks[t].id, version |-> tasks[t].obj, broken |-> FALSE]
    <3> SUFFICES ASSUME q = "walls"
                 PROVE  row = [id |-> tasks[t].id, version |-> tasks[t].obj, broken |-> FALSE]
      OBVIOUS
    <3>1. ~row.broken /\ row.version = tasks[t].obj /\ row.id = tasks[t].id
      BY <1>1, <2>1, <2>4, <2>7 DEF Progress
    <3>2. row # NoRow
      BY <3>1 DEF NoRow
    <3>3. row \in [id : Ids, version : 0..MaxVersion, broken : BOOLEAN]
      BY <2>1, <2>7, <3>2, RowFields DEF Row, ProcInv, VerdictInv
    <3> QED BY <3>1, <3>3
  <2>9. rows'[tasks'[t].key] = row /\ lost' = lost
    BY <1>1, <2>6, <2>7
  <2>10. Progress(t)'
    BY <1>1, <2>1, <2>2, <2>4, <2>6, <2>7, <2>8, <2>9 DEF Progress
  <2> QED BY <1>1, <2>1, <2>5, <2>10, OwnQuietGoes
<1> QED BY <1>2, <1>3 DEF Check

\* A row that is written has the id it had, or one that is new to every other photo.
LEMMA UpsertTakes ==
  ASSUME ProcInv, OwnIds, NEW k \in Key, NEW v \in 0..MaxVersion, NEW b \in BOOLEAN, Upsert(k, v, b)
  PROVE  /\ rows'[k] = [id |-> UpsertId(k), version |-> v, broken |-> b]
         /\ UpsertId(k) \in Ids
         /\ \A j \in Key : j # k => rows'[j] = rows[j]
         /\ IsIndexed(k) => UpsertId(k) = rows[k].id
         /\ \A j \in Key : rows'[j].id = rows[j].id \/ (j = k /\ NewTo(k))
<1>1. TypeOK
  BY DEF ProcInv, VerdictInv
<1>2. /\ rows'[k] = [id |-> UpsertId(k), version |-> v, broken |-> b]
      /\ rows'[k].id = UpsertId(k)
      /\ UpsertId(k) \in Ids
      /\ \A j \in Key : j # k => rows'[j] = rows[j]
  BY <1>1, Upserted
<1>3. IsIndexed(k) => UpsertId(k) = rows[k].id
  BY DEF UpsertId
<1>4. CASE ~IsIndexed(k)
  <2>1. UpsertId(k) = NextId
    BY <1>4 DEF UpsertId
  <2>2. \A j \in Key : rows[j].id # rows'[k].id
    BY <1>1, <1>2, <2>1, NewId
  <2>3. rows'[k] # NoRow
    <3>1. rows'[k].id # 0
      BY <1>2 DEF Ids
    <3> QED BY <3>1 DEF NoRow
  <2>4. \A u \in Task : tasks[u].lock # k => tasks[u].id # rows'[k].id
    BY <1>4, <2>3 DEF OwnIds, IsIndexed
  <2> QED BY <1>2, <1>3, <2>2, <2>4 DEF NewTo
<1> QED BY <1>2, <1>3, <1>4

\* A rejected photo is not shown; a new one is not shown yet.
LEMMA OwnNewRow ==
  ASSUME ProcInv, VerdictInv', OwnIds, NEW t \in Task, Reject(t) \/ Pend(t)
  PROVE  ProcInv'
<1>1. PICK p \in {"delWalls", "save"}, v \in {0, tasks[t].obj} :
        /\ Upsert(tasks[t].key, v, TRUE)
        /\ tasks' = [tasks EXCEPT ![t].pc = p, ![t].id = UpsertId(tasks[t].key)]
        /\ UNCHANGED <<source, thumbs, wallRows, wallFiles, faults, lost>>
        /\ tasks[t].pc \in {"reject", "pend"}
        /\ p = "save" => v = 0 /\ tasks[t].pc = "pend"
  BY DEF Reject, Pend, At
<1>2. JudgeSound(tasks[t]) /\ tasks[t].key \in Key /\ tasks[t].obj \in 1..ver[tasks[t].key]
      /\ tasks[t].obj \in 0..MaxVersion /\ tasks[t] \in TaskState /\ tasks[t].key = tasks[t].lock /\ Holds(t)
  BY <1>1, AtWork, TaskFields DEF JudgeSound, Seen, ProcInv, VerdictInv, Apart, Holds
<1>3. v \in 0..MaxVersion /\ TRUE \in BOOLEAN /\ (p = "save" => v <= tasks[t].obj)
  BY <1>1, <1>2
<1>k. PICK k \in Key : k = tasks[t].key
  BY <1>2
<1> DEFINE i == UpsertId(k)
           s == [tasks[t] EXCEPT !.pc = p, !.id = i]
<1>4. PICK row : row = rows'[k]
  OBVIOUS
<1>5. /\ rows'[k] = [id |-> i, version |-> v, broken |-> TRUE]
      /\ i \in Ids /\ \A j \in Key : j # k => rows'[j] = rows[j]
      /\ \A j \in Key : rows'[j].id = rows[j].id \/ (j = k /\ NewTo(k))
  BY <1>1, <1>2, <1>3, <1>k, UpsertTakes
<1>6. row.id = i /\ row.version = v /\ row.broken = TRUE
  BY <1>4, <1>5
<1>7. tasks' = [tasks EXCEPT ![t] = s] /\ i \in 0..MaxId /\ p \in Steps
  <2>1. tasks' = [tasks EXCEPT ![t].pc = p, ![t].id = i]
    BY <1>1, <1>k
  <2> HIDE DEF i
  <2>2. tasks' = [tasks EXCEPT ![t] = s]
    BY <2>1
  <2>3. i \in 0..MaxId
    BY <1>5 DEF Ids
  <2> QED BY <2>2, <2>3 DEF Steps
<1> HIDE DEF i
<1>8. /\ s \in TaskState /\ s.pc = p /\ s.id = i /\ s.key = tasks[t].key /\ s.lock = tasks[t].lock
      /\ s.obj = tasks[t].obj
  BY <1>2, <1>7 DEF TaskState
<1> HIDE DEF s
<1>9. OneMoves(t) /\ tasks'[t] = s
  BY <1>7, <1>8, Turn DEF ProcInv, VerdictInv
<1>10. TakesOwn(t)
  <2>1. \A u \in Task : u # t /\ Holds(u) => tasks[u].lock # tasks[t].lock
    BY <1>2 DEF ProcInv, Apart
  <2> QED BY <1>2, <1>k, <1>4, <1>5, <1>6, <1>8, <1>9, <2>1 DEF TakesOwn
<1>11. OnlyOwn(t)
  BY <1>1, <1>2, <1>k, <1>5 DEF OnlyOwn
<1>12. OwnFilesKept(t)
  <2>1. ~Usable(k)'
    BY <1>4, <1>6 DEF Usable
  <2>2. wallRows' = wallRows /\ wallFiles' = wallFiles
    BY <1>1
  <2> QED BY <1>2, <1>k, <2>1, <2>2 DEF OwnFilesKept, ProcInv, FilesKept
<1>13. Progress(t)'
  <2>1. tasks'[t].key = k /\ rows'[k] = row
    BY <1>4, <1>8, <1>9, <1>k
  <2> QED BY <1>3, <1>6, <1>8, <1>9, <2>1 DEF Progress
<1>14. UNCHANGED <<source, lost>>
  BY <1>1
<1> QED BY <1>9, <1>10, <1>11, <1>12, <1>13, <1>14, OwnStep

\* A photo is shown once its thumbnail is on the disk.
LEMMA OwnPublish ==
  ASSUME ProcInv, VerdictInv', OwnIds, NEW t \in Task, Publish(t)
  PROVE  ProcInv'
<1>1. /\ tasks[t].pc = "publish" /\ Upsert(tasks[t].key, tasks[t].obj, FALSE) /\ Goto(t, "old")
      /\ UNCHANGED <<source, thumbs, wallRows, wallFiles, faults, lost>>
  BY DEF Publish, At
<1>2. JudgeSound(tasks[t]) /\ tasks[t].key \in Key /\ tasks[t].obj \in 0..MaxVersion
      /\ tasks[t].key = tasks[t].lock /\ Holds(t) /\ tasks[t].id # 0 /\ Progress(t)
  BY <1>1, AtWork, TaskFields DEF JudgeSound, Filing, ProcInv, VerdictInv, Apart, Holds
<1>k. PICK k \in Key : k = tasks[t].key
  BY <1>2
<1>3. rows[k].id = tasks[t].id /\ IsIndexed(k) /\ (lost = 0 => Target(t) \in thumbs)
  BY <1>k, <1>1, <1>2 DEF Progress, IsIndexed, NoRow
<1>4. /\ rows'[k] = [id |-> UpsertId(k), version |-> tasks[t].obj, broken |-> FALSE]
      /\ UpsertId(k) \in Ids /\ \A j \in Key : j # k => rows'[j] = rows[j]
      /\ IsIndexed(k) => UpsertId(k) = rows[k].id
      /\ \A j \in Key : rows'[j].id = rows[j].id \/ (j = k /\ NewTo(k))
  BY <1>k, <1>1, <1>2, UpsertTakes
<1>5. rows'[k] = [id |-> tasks[t].id, version |-> tasks[t].obj, broken |-> FALSE]
  BY <1>3, <1>4
<1>6. /\ OneMoves(t)
      /\ tasks'[t].pc = "old" /\ tasks'[t].lock = tasks[t].lock /\ tasks'[t].key = tasks[t].key
      /\ tasks'[t].id = tasks[t].id /\ tasks'[t].obj = tasks[t].obj
  BY <1>1, Goes DEF ProcInv, VerdictInv, Steps
<1>7. TakesOwn(t)
  <2>1. \A u \in Task : u # t /\ Holds(u) => tasks[u].lock # tasks[t].lock
    BY <1>2 DEF ProcInv, Apart
  <2> QED BY <1>k, <1>2, <1>4, <1>6, <2>1 DEF TakesOwn
<1>8. OnlyOwn(t)
  BY <1>k, <1>1, <1>2, <1>4 DEF OnlyOwn
<1>9. OwnFilesKept(t)
  <2>1. lost = 0 => ThumbOf(k)' \in thumbs'
    BY <1>1, <1>3, <1>5 DEF ThumbOf, Target
  <2>2. wallRows' = wallRows /\ wallFiles' = wallFiles
    BY <1>1
  <2> QED BY <1>2, <1>k, <2>1, <2>2 DEF OwnFilesKept, ProcInv, FilesKept
<1>10. Progress(t)'
  BY <1>k, <1>5, <1>6 DEF Progress
<1>11. UNCHANGED <<source, lost>>
  BY <1>1
<1> QED BY <1>6, <1>7, <1>8, <1>9, <1>10, <1>11, OwnStep

\* The thumbnail is under its final name before the row says so, and only the
\* file of another version goes.
LEMMA OwnThumb ==
  ASSUME ProcInv, VerdictInv', NEW t \in Task, Save(t) \/ Recheck(t) \/ RemoveOld(t)
  PROVE  ProcInv'
<1>1. tasks[t].pc \in {"save", "recheck", "old"} /\ UNCHANGED <<source, rows, lost>>
      /\ rows' = rows /\ wallRows' = wallRows /\ wallFiles' = wallFiles /\ lost' = lost
  BY DEF Save, Recheck, RemoveOld, At
<1>2. Progress(t) /\ Holds(t)
  BY <1>1 DEF ProcInv, Holds
<1>k. PICK k \in Key : k = tasks[t].key /\ k = tasks[t].lock
  BY <1>1, AtWork DEF ProcInv, Apart
<1>3. /\ thumbs' = thumbs \cup {Target(t)} \/ \E v \in {tasks[t].obj, tasks[t].old} : thumbs' = thumbs \ {<<tasks[t].id, v>>}
                                           \/ thumbs' = thumbs
  BY DEF Save, Recheck, RemoveOld, Target
<1>4. OnlyOwn(t)
  BY <1>1, <1>2, <1>3 DEF OnlyOwn
<1>5. OwnFilesKept(t)
  <2> SUFFICES ASSUME lost = 0, Usable(k)' PROVE ThumbOf(k)' \in thumbs'
    BY <1>1, <1>k DEF OwnFilesKept, ProcInv, FilesKept
  <2>1. Usable(k) /\ ThumbOf(k)' = ThumbOf(k) /\ ThumbOf(k) \in thumbs
    BY <1>1 DEF Usable, IsIndexed, ThumbOf, ProcInv, FilesKept, UsableHasThumbnail
  <2>2. CASE Save(t)
    BY <2>1, <2>2 DEF Save
  <2>3. CASE Recheck(t)
    <3>1. rows[k].version # tasks[t].obj
      BY <1>2, <1>k, <2>1, <2>3 DEF Progress, Recheck, At, Usable
    <3> QED BY <2>1, <2>3, <3>1 DEF Recheck, ThumbOf, Target
  <2>4. CASE RemoveOld(t)
    <3>1. rows[k] = [id |-> tasks[t].id, version |-> tasks[t].obj, broken |-> FALSE]
      BY <1>2, <1>k, <2>4 DEF Progress, RemoveOld, At
    <3>2. rows[k].version = tasks[t].obj
      BY <3>1
    <3> QED BY <2>1, <2>4, <3>2 DEF RemoveOld, ThumbOf
  <2> QED BY <2>2, <2>3, <2>4
<1>6. CASE Return(t)
  BY <1>1, <1>4, <1>5, <1>6, OwnReturn
<1>7. ASSUME NEW q \in {"recheck", "publish", "walls"}, Goto(t, q),
             q = "recheck" => Save(t), q = "publish" => Recheck(t) /\ thumbs' = thumbs, q = "walls" => RemoveOld(t)
      PROVE  ProcInv'
  <2>1. q \in Steps
    BY DEF Steps
  <2>2. /\ tasks'[t].pc = q /\ tasks'[t].key = tasks[t].key /\ tasks'[t].obj = tasks[t].obj
        /\ tasks'[t].id = tasks[t].id
    BY <1>7, <2>1, Goes DEF ProcInv, VerdictInv
  <2>3. Target(t)' = Target(t)
    BY <2>2 DEF Target
  <2>4. q = "recheck" => tasks[t].pc = "save" /\ Target(t) \in thumbs'
    BY <1>7 DEF Save, At
  <2>5. q = "publish" => tasks[t].pc = "recheck" /\ thumbs' = thumbs
    BY <1>7 DEF Recheck, At
  <2>6. q = "walls" => tasks[t].pc = "old"
    BY <1>7 DEF RemoveOld, At
  <2>7. rows'[tasks'[t].key] = rows[tasks[t].key]
    BY <1>1, <2>2
  <2> HIDE DEF Target
  <2>8. Progress(t)'
    BY <1>1, <1>2, <2>2, <2>3, <2>4, <2>5, <2>6, <2>7 DEF Progress
  <2> QED BY <1>1, <1>2, <1>4, <1>5, <1>7, <2>1, <2>8, OwnGoes
<1>8. CASE Save(t)
  BY <1>7, <1>8 DEF Save
<1>9. CASE Recheck(t) /\ ~Return(t)
  BY <1>7, <1>9 DEF Recheck
<1>10. CASE RemoveOld(t)
  BY <1>7, <1>10 DEF RemoveOld
<1> QED BY <1>6, <1>8, <1>9, <1>10

\* A wallpaper's file is on the disk before its row, and goes after it.
LEMMA OwnWalls ==
  ASSUME ProcInv, VerdictInv', NEW t \in Task,
         Walls(t) \/ Encode(t) \/ WallCheck(t) \/ ReplaceWallpapers(t) \/ OldWalls(t)
  PROVE  ProcInv'
<1>1. tasks[t].pc \in {"walls", "encode", "wallCheck", "replace", "oldWalls"} /\ UNCHANGED <<source, rows, lost>>
      /\ rows' = rows /\ thumbs' = thumbs /\ lost' = lost
  BY DEF Walls, Encode, WallCheck, ReplaceWallpapers, OldWalls, At, index
<1>2. Progress(t) /\ Holds(t) /\ JudgeSound(tasks[t])
  BY <1>1, AtWork DEF ProcInv, Holds
<1>i. tasks[t].id \in Ids
  BY <1>1, <1>2, TaskFields DEF JudgeSound, Filing, ProcInv, VerdictInv, Ids
<1>3. wallRows \in [Ids -> 0..MaxVersion]
  BY DEF ProcInv, VerdictInv, TypeOK
<1>4. lost = 0 => \A i \in Ids : wallRows[i] # 0 => <<i, wallRows[i]>> \in wallFiles
  BY DEF ProcInv, FilesKept
<1>5. OnlyOwn(t) /\ OwnFilesKept(t)
  <2>1. \A k \in Key : lost = 0 /\ Usable(k)' => ThumbOf(k)' \in thumbs'
    BY <1>1 DEF Usable, IsIndexed, ThumbOf, ProcInv, FilesKept, UsableHasThumbnail
  <2>2. CASE Walls(t) \/ WallCheck(t)
    <3>1. UNCHANGED index
      BY <2>2 DEF Walls, WallCheck
    <3> QED BY <3>1, QuietOwn
  <2>3. CASE Encode(t)
    <3>1. wallFiles' = wallFiles \cup {Target(t)} /\ wallRows' = wallRows
      BY <2>3 DEF Encode
    <3> QED BY <1>1, <1>4, <2>1, <3>1 DEF OnlyOwn, OwnFilesKept
  <2>4. CASE ReplaceWallpapers(t)
    <3>1. wallRows' = [wallRows EXCEPT ![tasks[t].id] = tasks[t].obj] /\ wallFiles' = wallFiles
          /\ tasks[t].pc = "replace"
      BY <2>4 DEF ReplaceWallpapers, At
    <3>2. lost = 0 => <<tasks[t].id, tasks[t].obj>> \in wallFiles
      BY <1>2, <3>1 DEF Progress, Target
    <3>3. wallRows'[tasks[t].id] = tasks[t].obj /\ \A i \in Ids : i # tasks[t].id => wallRows'[i] = wallRows[i]
      BY <1>3, <1>i, <3>1
    <3>4. OnlyOwn(t)
      BY <1>1, <1>2, <3>1, <3>3 DEF OnlyOwn
    <3> QED BY <2>1, <3>1, <3>2, <3>3, <3>4 DEF OwnFilesKept
  <2>5. CASE OldWalls(t)
    <3>1. wallFiles' = {f \in wallFiles : f[1] = tasks[t].id => f[2] = tasks[t].obj} /\ wallRows' = wallRows
          /\ tasks[t].pc = "oldWalls"
      BY <2>5 DEF OldWalls, At
    <3>2. wallRows[tasks[t].id] = tasks[t].obj
      BY <1>2, <3>1 DEF Progress
    <3>3. OnlyOwn(t)
      BY <1>1, <1>2, <3>1 DEF OnlyOwn
    <3> QED BY <1>4, <2>1, <3>1, <3>2, <3>3 DEF OwnFilesKept
  <2> QED BY <2>2, <2>3, <2>4, <2>5
<1>6. CASE Return(t)
  BY <1>1, <1>5, <1>6, OwnReturn
<1>7. ASSUME NEW q \in {"encode", "wallCheck", "replace", "oldWalls"}, Goto(t, q),
             q = "encode" => Walls(t), q = "wallCheck" => Encode(t), q = "replace" => WallCheck(t),
             q = "oldWalls" => ReplaceWallpapers(t)
      PROVE  ProcInv'
  <2>1. q \in Steps
    BY DEF Steps
  <2>2. /\ tasks'[t].pc = q /\ tasks'[t].key = tasks[t].key /\ tasks'[t].obj = tasks[t].obj
        /\ tasks'[t].id = tasks[t].id
    BY <1>7, <2>1, Goes DEF ProcInv, VerdictInv
  <2>3. Target(t)' = Target(t)
    BY <2>2 DEF Target
  <2>4. q = "wallCheck" => Target(t) \in wallFiles'
    BY <1>7 DEF Encode
  <2>5. q = "replace" => tasks[t].pc = "wallCheck" /\ wallFiles' = wallFiles
    BY <1>7 DEF WallCheck, At, index
  <2>6. q = "oldWalls" => tasks[t].pc = "replace" /\ wallFiles' = wallFiles /\ wallRows'[tasks[t].id] = tasks[t].obj
    BY <1>3, <1>7, <1>i DEF ReplaceWallpapers, At
  <2>7. rows'[tasks'[t].key] = rows[tasks[t].key]
    BY <1>1, <2>2
  <2> HIDE DEF Target
  <2>8. Progress(t)'
    BY <1>1, <1>2, <2>2, <2>3, <2>4, <2>5, <2>6, <2>7 DEF Progress
  <2> QED BY <1>1, <1>2, <1>5, <1>7, <2>1, <2>8, OwnGoes
<1>8. CASE (Walls(t) \/ WallCheck(t)) /\ ~Return(t)
  BY <1>7, <1>8 DEF Walls, WallCheck
<1>9. CASE Encode(t) \/ ReplaceWallpapers(t)
  BY <1>7, <1>9 DEF Encode, ReplaceWallpapers
<1> QED BY <1>1, <1>6, <1>8, <1>9 DEF OldWalls

\* What hangs on an id goes after its row.
LEMMA OwnDelete ==
  ASSUME ProcInv, VerdictInv', NEW t \in Task, DelRow(t) \/ DelWalls(t) \/ DelFiles(t)
  PROVE  ProcInv'
<1>1. tasks[t].pc \in {"delRow", "delWalls", "delFiles"} /\ UNCHANGED <<source, lost>> /\ lost' = lost
  BY DEF DelRow, DelWalls, DelFiles, At
<1>2. Progress(t) /\ Holds(t) /\ JudgeSound(tasks[t])
  BY <1>1, AtWork DEF ProcInv, Holds
<1>i. tasks[t].id \in Ids /\ tasks[t].id # 0
  BY <1>1, <1>2, TaskFields DEF JudgeSound, Filing, ProcInv, VerdictInv, Ids
<1>k. PICK k \in Key : k = tasks[t].key /\ k = tasks[t].lock
  BY <1>2 DEF JudgeSound, ProcInv, Apart
<1>3. wallRows \in [Ids -> 0..MaxVersion]
  BY DEF ProcInv, VerdictInv, TypeOK
<1>4. lost = 0 => \A i \in Ids : wallRows[i] # 0 => <<i, wallRows[i]>> \in wallFiles
  BY DEF ProcInv, FilesKept
<1>5. lost = 0 /\ Usable(k) => ThumbOf(k) \in thumbs
  BY DEF ProcInv, FilesKept, UsableHasThumbnail
<1>6. CASE DelRow(t)
  <2>1. /\ Goto(t, "delWalls") /\ thumbs' = thumbs /\ wallRows' = wallRows /\ wallFiles' = wallFiles
        /\ \A j \in Key : rows'[j] = IF rows[j].id = tasks[t].id THEN NoRow ELSE rows[j]
    BY <1>6 DEF DelRow
  <2>2. \A j \in Key : rows[j].id = tasks[t].id => j = k
    BY <1>i, <1>k DEF ProcInv, Apart
  <2>3. /\ OneMoves(t)
        /\ tasks'[t].pc = "delWalls" /\ tasks'[t].lock = tasks[t].lock /\ tasks'[t].key = tasks[t].key
        /\ tasks'[t].id = tasks[t].id
    BY <2>1, Goes DEF ProcInv, VerdictInv, Steps
  <2>4. TakesOwn(t)
    <3>1. \A u \in Task : u # t /\ Holds(u) => tasks[u].lock # tasks[t].lock
      BY <1>2 DEF ProcInv, Apart
    <3>2. \A j \in Key : rows'[j].id \in {0, rows[j].id}
      BY <2>1 DEF NoRow
    <3> QED BY <1>k, <2>3, <3>1, <3>2 DEF TakesOwn
  <2>5. OnlyOwn(t)
    BY <1>2, <1>k, <2>1, <2>2 DEF OnlyOwn
  <2>6. rows'[k] = NoRow \/ (rows'[k] = rows[k] /\ rows[k].id # tasks[t].id)
    BY <2>1
  <2>7. OwnFilesKept(t)
    <3>1. lost = 0 /\ Usable(k)' => ThumbOf(k)' \in thumbs'
      BY <1>5, <2>1, <2>6 DEF Usable, IsIndexed, ThumbOf
    <3> QED BY <1>4, <1>k, <2>1, <3>1 DEF OwnFilesKept
  <2>8. Progress(t)'
    <3>1. PICK row : row = rows'[k] /\ row = rows'[tasks'[t].key]
      BY <1>k, <2>3
    <3>2. row.id = tasks[t].id => row.broken
      BY <2>6, <3>1 DEF NoRow
    <3> QED BY <2>3, <3>1, <3>2 DEF Progress
  <2> QED BY <1>1, <2>3, <2>4, <2>5, <2>7, <2>8, OwnStep
<1>7. CASE DelWalls(t)
  <2>1. /\ Goto(t, "delFiles") /\ rows' = rows /\ thumbs' = thumbs /\ wallFiles' = wallFiles
        /\ wallRows' = [wallRows EXCEPT ![tasks[t].id] = 0] /\ tasks[t].pc = "delWalls"
    BY <1>7 DEF DelWalls, At
  <2>2. wallRows'[tasks[t].id] = 0 /\ \A i \in Ids : i # tasks[t].id => wallRows'[i] = wallRows[i]
    BY <1>3, <1>i, <2>1
  <2>3. OnlyOwn(t)
    BY <1>2, <2>1, <2>2 DEF OnlyOwn
  <2>4. OwnFilesKept(t)
    <3>1. lost = 0 /\ Usable(k)' => ThumbOf(k)' \in thumbs'
      BY <1>5, <2>1 DEF Usable, IsIndexed, ThumbOf
    <3> QED BY <1>k, <2>2, <3>1 DEF OwnFilesKept
  <2>5. Progress(t)'
    <3>1. tasks'[t].pc = "delFiles" /\ tasks'[t].key = tasks[t].key /\ tasks'[t].id = tasks[t].id
      BY <2>1, Goes DEF ProcInv, VerdictInv, Steps
    <3> QED BY <1>2, <2>1, <2>2, <3>1 DEF Progress
  <2> QED BY <1>1, <1>2, <2>1, <2>3, <2>4, <2>5, OwnGoes DEF Steps
<1>8. CASE DelFiles(t)
  <2>1. /\ Return(t) /\ rows' = rows /\ wallRows' = wallRows /\ tasks[t].pc = "delFiles"
        /\ thumbs' = {f \in thumbs : f[1] # tasks[t].id} /\ wallFiles' = {f \in wallFiles : f[1] # tasks[t].id}
    BY <1>8 DEF DelFiles, At
  <2>2. wallRows[tasks[t].id] = 0 /\ (rows[k].id = tasks[t].id => rows[k].broken)
    BY <1>2, <1>k, <2>1 DEF Progress
  <2>3. OnlyOwn(t)
    BY <1>2, <2>1 DEF OnlyOwn
  <2>4. OwnFilesKept(t)
    <3>1. lost = 0 /\ Usable(k)' => ThumbOf(k)' \in thumbs'
      BY <1>5, <2>1, <2>2 DEF Usable, IsIndexed, ThumbOf
    <3> QED BY <1>k, <2>1, <2>2, <3>1 DEF OwnFilesKept
  <2> QED BY <1>1, <2>1, <2>3, <2>4, OwnReturn
<1> QED BY <1>6, <1>7, <1>8

\* A thumbnail that could not be validated was not the one that is shown.
LEMMA OwnFail ==
  ASSUME ProcInv, VerdictInv', NEW t \in Task, Fail(t)
  PROVE  ProcInv'
<1>1. /\ Return(t) /\ rows' = rows /\ wallRows' = wallRows /\ wallFiles' = wallFiles
      /\ UNCHANGED <<source, rows, lost>> /\ tasks[t].pc # "idle"
      /\ thumbs' = IF At(t, "recheck") THEN thumbs \ {Target(t)} ELSE thumbs
  BY DEF Fail
<1>2. CASE ~At(t, "recheck")
  BY <1>1, <1>2, OwnQuietReturn DEF index
<1>3. CASE At(t, "recheck")
  <2>1. tasks[t].pc = "recheck" /\ Progress(t) /\ Holds(t) /\ thumbs' = thumbs \ {Target(t)}
    BY <1>1, <1>3 DEF At, Holds, ProcInv
  <2>k. PICK k \in Key : k = tasks[t].key /\ k = tasks[t].lock
    BY <1>1, AtWork DEF ProcInv, Apart
  <2>2. OnlyOwn(t)
    BY <1>1, <2>1 DEF OnlyOwn, Target
  <2>3. OwnFilesKept(t)
    <3>1. ASSUME lost = 0, Usable(k)' PROVE ThumbOf(k)' \in thumbs'
      <4>1. Usable(k) /\ ThumbOf(k)' = ThumbOf(k) /\ ThumbOf(k) \in thumbs
        BY <1>1, <3>1 DEF Usable, IsIndexed, ThumbOf, ProcInv, FilesKept, UsableHasThumbnail
      <4>2. rows[k].version # tasks[t].obj
        BY <2>1, <2>k, <3>1, <4>1 DEF Progress, Usable
      <4> QED BY <2>1, <4>1, <4>2 DEF ThumbOf, Target
    <3> QED BY <1>1, <2>k, <3>1 DEF OwnFilesKept, ProcInv, FilesKept
  <2> QED BY <1>1, <2>2, <2>3, OwnReturn
<1> QED BY <1>2, <1>3

\* Crashes leave nobody at work; a lost file ends the promise about files; the
\* sources change without the index.
LEMMA OwnOutside ==
  ASSUME ProcInv, VerdictInv', Environment
  PROVE  ProcInv'
<1>1. CASE Crash
  <2>1. tasks' = [t \in Task |-> Idle] /\ UNCHANGED <<ver, present, rows, thumbs, wallRows, wallFiles, lost>>
    BY <1>1 DEF Crash, source, index
  <2>2. \A t \in Task : tasks'[t].pc = "idle" /\ tasks'[t].id = 0 /\ tasks'[t].key = tasks'[t].lock
    BY <2>1, IdleFields
  <2>3. Apart'
    BY <2>1, <2>2 DEF ProcInv, Apart, Holds
  <2>4. \A t \in Task : Progress(t)'
    BY <2>2 DEF Progress
  <2>5. FilesKept' /\ SteadySound'
    BY <2>1 DEF ProcInv, FilesKept, UsableHasThumbnail, Usable, IsIndexed, ThumbOf, SteadySound
  <2> QED BY <2>3, <2>4, <2>5 DEF ProcInv
<1>2. CASE Lose
  <2>1. /\ lost' # 0 /\ UNCHANGED <<ver, present, rows, wallRows, tasks>>
    BY <1>2 DEF Lose, source, ProcInv, VerdictInv, TypeOK
  <2>2. Apart' /\ SteadySound'
    BY <2>1 DEF ProcInv, Apart, Holds, SteadySound
  <2>3. FilesKept'
    BY <2>1 DEF FilesKept
  <2>4. \A t \in Task : Progress(t)'
    BY <2>1 DEF ProcInv, Progress
  <2> QED BY <2>2, <2>3, <2>4 DEF ProcInv
<1>3. ASSUME NEW t \in Task, Fail(t) PROVE ProcInv'
  BY <1>3, OwnFail
<1>4. ASSUME NEW k \in Key, Overwrite(k) \/ Vanish(k) \/ Reappear(k) PROVE ProcInv'
  <2>1. UNCHANGED <<rows, thumbs, wallRows, wallFiles, tasks, lost>>
    BY <1>4 DEF Overwrite, Vanish, Reappear, index
  <2>2. SteadySound'
    BY <1>4 DEF Overwrite, Vanish, Reappear, ProcInv, VerdictInv, TypeOK, SteadySound
  <2>3. Apart'
    BY <2>1 DEF ProcInv, Apart, Holds
  <2>4. FilesKept'
    BY <2>1 DEF ProcInv, FilesKept, UsableHasThumbnail, Usable, IsIndexed, ThumbOf
  <2>5. \A t \in Task : Progress(t)'
    BY <2>1 DEF ProcInv, Progress, Target
  <2> QED BY <2>2, <2>3, <2>4, <2>5 DEF ProcInv
<1> QED BY <1>1, <1>2, <1>3, <1>4 DEF Environment

LEMMA ProcInit == Init => ProcInv
<1> SUFFICES ASSUME Init PROVE ProcInv
  OBVIOUS
<1>1. PICK f \in [Indexed -> Ids] :
        /\ \A j, k \in Indexed : f[j] = f[k] => j = k
        /\ rows = [k \in Key |-> IF k \in Indexed
                                 THEN [id |-> f[k], version |-> 1, broken |-> k \in Rejected]
                                 ELSE NoRow]
        /\ thumbs = {<<f[k], 1>> : k \in Indexed \ Rejected}
  BY DEF Init
<1>2. VerdictInv
  BY VerdictInit
<1>3. \A t \in Task : tasks[t].pc = "idle" /\ tasks[t].id = 0 /\ tasks[t].key = tasks[t].lock
  BY IdleFields DEF Init
<1>4. \A k \in Key : /\ k \in Indexed => rows[k].id = f[k] /\ rows[k].version = 1 /\ (rows[k].broken <=> k \in Rejected)
                     /\ k \notin Indexed => rows[k] = NoRow
  BY <1>1
<1>5. Apart
  <2>1. \A j, k \in Key : rows[j].id = rows[k].id => j = k \/ rows[j].id = 0
    BY <1>1, <1>4 DEF NoRow, Ids
  <2> QED BY <1>3, <2>1 DEF Apart, Holds
<1>6. \A t \in Task : Progress(t)
  BY <1>3 DEF Progress
<1>7. FilesKept
  <2>1. ASSUME NEW k \in Key, Usable(k) PROVE ThumbOf(k) \in thumbs
    <3>1. k \in Indexed \ Rejected /\ ThumbOf(k) = <<f[k], 1>>
      BY <1>4, <2>1 DEF Usable, IsIndexed, ThumbOf
    <3> QED BY <1>1, <3>1
  <2>2. ASSUME NEW i \in Ids, wallRows[i] # 0 PROVE <<i, wallRows[i]>> \in wallFiles
    BY <2>2 DEF Init
  <2> QED BY <2>1, <2>2 DEF FilesKept, UsableHasThumbnail
<1>8. SteadySound
  BY DEF Init, SteadySound
<1> QED BY <1>2, <1>5, <1>6, <1>7, <1>8 DEF ProcInv

LEMMA ProcStep == ProcInv /\ [Next /\ OwnIds]_vars => ProcInv'
<1> SUFFICES ASSUME ProcInv, [Next /\ OwnIds]_vars PROVE ProcInv'
  OBVIOUS
<1>1. VerdictInv'
  BY VerdictStep DEF ProcInv
<1>2. ASSUME NEW t \in Task, Work(t), OwnIds PROVE ProcInv'
  BY <1>1, <1>2, OwnCaller, OwnLookup, OwnSource, OwnCheck, OwnNewRow, OwnPublish, OwnThumb, OwnWalls,
     OwnDelete DEF Work
<1>3. ASSUME NEW t \in Task, Peek(t) PROVE ProcInv'
  BY <1>1, <1>3, OwnCaller
<1>4. CASE UNCHANGED vars
  <2>1. UNCHANGED <<ver, present, rows, thumbs, wallRows, wallFiles, tasks, lost>>
    BY <1>4 DEF vars
  <2>2. Apart' /\ SteadySound'
    BY <2>1 DEF ProcInv, Apart, Holds, SteadySound
  <2>3. FilesKept'
    BY <2>1 DEF ProcInv, FilesKept, UsableHasThumbnail, Usable, IsIndexed, ThumbOf
  <2>4. \A t \in Task : Progress(t)'
    BY <2>1 DEF ProcInv, Progress, Target
  <2> QED BY <1>1, <2>2, <2>3, <2>4 DEF ProcInv
<1> QED BY <1>1, <1>2, <1>3, <1>4, OwnAcquire, OwnStart, OwnOutside DEF Next

\* Only four steps write the photos table.
LEMMA RowWrites ==
  ASSUME [Next]_vars
  PROVE  UNCHANGED rows \/ \E t \in Task : Reject(t) \/ Pend(t) \/ Publish(t) \/ DelRow(t)
<1>1. ASSUME NEW t \in Task, Work(t) PROVE UNCHANGED rows \/ Reject(t) \/ Pend(t) \/ Publish(t) \/ DelRow(t)
  BY <1>1 DEF Work, index, Reread, Stat, Gone, Compare, Absent, Entry, EntryStat, Lookup, Validate, Fetch,
     Check, Save, Recheck, RemoveOld, Walls, Encode, WallCheck, ReplaceWallpapers, OldWalls, DelWalls, DelFiles
<1>2. ASSUME NEW t \in Task, Peek(t) \/ Acquire(t) \/ \E k \in Key : Start(t, k) PROVE UNCHANGED rows
  BY <1>2 DEF Peek, Acquire, Start, StartListed, StartSync, StartThumbnail, StartRemove, StartRetry, Begin, index
<1>3. ASSUME Environment PROVE UNCHANGED rows
  BY <1>3 DEF Environment, Crash, Lose, Fail, Overwrite, Vanish, Reappear, index
<1>4. CASE UNCHANGED vars
  BY <1>4 DEF vars
<1> QED BY <1>1, <1>2, <1>3, <1>4 DEF Next

LEMMA WriterRow ==
  ASSUME ProcInv, NEW t \in Task, Reject(t) \/ Pend(t) \/ Publish(t)
  PROVE  /\ tasks[t].key \in Key
         /\ \A k \in Key : k # tasks[t].key => rows'[k] = rows[k]
         /\ Pend(t) => rows[tasks[t].key] = NoRow
         /\ Reject(t) \/ Publish(t) =>
              /\ rows[tasks[t].key].version <= tasks[t].obj
              /\ rows'[tasks[t].key].version = tasks[t].obj
         /\ Publish(t) => rows'[tasks[t].key] # NoRow /\ ~rows'[tasks[t].key].broken
<1>1. tasks[t].pc \in {"reject", "pend", "publish"} /\ Progress(t) /\ TypeOK
  BY DEF Reject, Pend, Publish, At, ProcInv, VerdictInv
<1>2. tasks[t].key \in Key /\ tasks[t].obj \in 0..MaxVersion /\ 0 \in 0..MaxVersion
  BY <1>1, AtWork, TaskFields DEF ProcInv
<1>3. CASE Pend(t)
  <2>1. tasks[t].pc = "pend" /\ Upsert(tasks[t].key, 0, TRUE) /\ TRUE \in BOOLEAN
    BY <1>3 DEF Pend, At
  <2>2. \A k \in Key : k # tasks[t].key => rows'[k] = rows[k]
    BY <1>1, <1>2, <2>1, Upserted
  <2> QED BY <1>1, <1>2, <1>3, <2>1, <2>2 DEF Progress, Reject, Publish, At
<1>4. ASSUME NEW b \in BOOLEAN, Upsert(tasks[t].key, tasks[t].obj, b)
      PROVE  /\ rows'[tasks[t].key].version = tasks[t].obj /\ rows'[tasks[t].key].broken = b
             /\ rows'[tasks[t].key] # NoRow
             /\ \A k \in Key : k # tasks[t].key => rows'[k] = rows[k]
  <2>1. /\ rows'[tasks[t].key] = [id |-> UpsertId(tasks[t].key), version |-> tasks[t].obj, broken |-> b]
        /\ UpsertId(tasks[t].key) \in Ids
        /\ \A k \in Key : k # tasks[t].key => rows'[k] = rows[k]
    BY <1>1, <1>2, <1>4, Upserted
  <2>2. rows'[tasks[t].key].id # 0
    BY <2>1 DEF Ids
  <2> QED BY <2>1, <2>2 DEF NoRow
<1>5. CASE Reject(t)
  <2>1. tasks[t].pc = "reject" /\ Upsert(tasks[t].key, tasks[t].obj, TRUE) /\ TRUE \in BOOLEAN
    BY <1>5 DEF Reject, At
  <2> QED BY <1>1, <1>2, <1>4, <2>1 DEF Progress, Pend, Publish, At
<1>6. CASE Publish(t)
  <2>1. tasks[t].pc = "publish" /\ Upsert(tasks[t].key, tasks[t].obj, FALSE) /\ FALSE \in BOOLEAN
    BY <1>6 DEF Publish, At
  <2> QED BY <1>1, <1>2, <1>4, <2>1 DEF Progress, Pend, Reject, At
<1> QED BY <1>3, <1>5, <1>6

\* No version of a photo gives way to an earlier one.
LEMMA NeverBack ==
  ASSUME ProcInv, [Next]_vars, NEW k \in Key, IsIndexed(k), IsIndexed(k)'
  PROVE  rows[k].version <= rows'[k].version
<1>0. rows[k].version \in Nat
  BY RowFields DEF ProcInv, VerdictInv
<1>1. CASE UNCHANGED rows
  BY <1>0, <1>1
<1>2. ASSUME NEW t \in Task, Reject(t) \/ Pend(t) \/ Publish(t) PROVE rows[k].version <= rows'[k].version
  <2>1. CASE k # tasks[t].key
    BY <1>0, <1>2, <2>1, WriterRow
  <2>2. CASE k = tasks[t].key
    BY <1>2, <2>2, WriterRow DEF IsIndexed
  <2> QED BY <2>1, <2>2
<1>3. ASSUME NEW t \in Task, DelRow(t) PROVE rows[k].version <= rows'[k].version
  <2>1. rows'[k] = NoRow \/ rows'[k] = rows[k]
    BY <1>3 DEF DelRow
  <2> QED BY <1>0, <2>1 DEF IsIndexed
<1> QED BY <1>1, <1>2, <1>3, RowWrites

\* Neither a rejection nor a removal can be about a steady photo that is shown.
LEMMA StaysUsable ==
  ASSUME ProcInv, [Next]_vars, NEW k \in Steady, Usable(k)
  PROVE  Usable(k)'
<1>0. k \in Key /\ rows[k] # NoRow /\ ~rows[k].broken /\ ver[k] = 1
  BY DEF Usable, IsIndexed, ProcInv, SteadySound
<1>1. CASE UNCHANGED rows
  BY <1>1 DEF Usable, IsIndexed
<1>2. rows[k].version = 1 /\ 1 \notin BadVersions
  <2>1. rows[k].version <= 1 /\ rows[k].version # 0 /\ rows[k].version \notin BadVersions
    BY <1>0 DEF ProcInv, VerdictInv, RowSound
  <2>2. rows[k].version \in Nat
    BY <1>0, RowFields DEF ProcInv, VerdictInv
  <2> QED BY <2>1, <2>2
<1>3. ASSUME NEW t \in Task, Reject(t) \/ Pend(t) \/ Publish(t) PROVE Usable(k)'
  <2>1. CASE k # tasks[t].key
    BY <1>0, <1>3, <2>1, WriterRow DEF Usable, IsIndexed
  <2>2. CASE k = tasks[t].key /\ Pend(t)
    BY <1>0, <2>2, WriterRow
  <2>3. CASE k = tasks[t].key /\ Publish(t)
    BY <2>3, WriterRow DEF Usable, IsIndexed
  <2>4. CASE k = tasks[t].key /\ Reject(t)
    <3>1. tasks[t].pc = "reject" /\ JudgeSound(tasks[t])
      BY <2>4, AtWork DEF Reject, At, ProcInv
    <3>2. tasks[t].obj \in BadVersions /\ tasks[t].obj \in 1..ver[k]
      BY <2>4, <3>1 DEF JudgeSound, Seen
    <3>3. tasks[t].obj = 1
      BY <1>0, <3>2
    <3> QED BY <1>2, <3>2, <3>3
  <2> QED BY <1>3, <2>1, <2>2, <2>3, <2>4
<1>4. ASSUME NEW t \in Task, DelRow(t) PROVE Usable(k)'
  <2>1. /\ tasks[t].pc = "delRow" /\ Progress(t)
        /\ \A j \in Key : rows'[j] = IF rows[j].id = tasks[t].id THEN NoRow ELSE rows[j]
    BY <1>4 DEF DelRow, At, ProcInv
  <2>2. tasks[t].key \notin Steady /\ tasks[t].key = tasks[t].lock /\ tasks[t].id # 0
    BY <2>1, AtWork DEF Progress, ProcInv, Apart, JudgeSound, Filing
  <2>3. rows[k].id # tasks[t].id
    BY <1>0, <2>2 DEF ProcInv, Apart
  <2> QED BY <1>0, <2>1, <2>3 DEF Usable, IsIndexed
<1> QED BY <1>1, <1>3, <1>4, RowWrites

-----------------------------------------------------------------------------
(* The theorems on the index hold as long as OwnIds does. *)

\* Locks, rows, files and what the tasks know of them fit together.
THEOREM ProcessingSound == Spec /\ [][OwnIds]_vars => []ProcInv
<1>1. ProcInv /\ [Next]_vars /\ [OwnIds]_vars => ProcInv'
  BY ProcStep
<1> QED BY <1>1, ProcInit, PTL DEF Spec

\* The holder of a photo's lock is the only one that processes it ("process
\* holds the photo lock"): an id used again is the only way around it.
THEOREM ProcessingIsUnderItsLock == Spec /\ [][OwnIds]_vars => []ProcessHoldsLock
<1>1. ProcInv => ProcessHoldsLock
  BY DEF ProcInv, Apart, ProcessHoldsLock
<1> QED BY <1>1, ProcessingSound, PTL

\* Every photo the album shows has its thumbnail, whatever was interrupted
\* (process publishes after thumbCache.save; removals come after the row).
THEOREM ShownPhotosHaveThumbnails == Spec /\ [][OwnIds]_vars => []IndexInv
<1>1. ProcInv => IndexInv
  BY DEF ProcInv, VerdictInv, FilesKept, UsableHasThumbnail, IndexInv
<1> QED BY <1>1, ProcessingSound, PTL

\* Every wallpaper that is offered has its file (saveWallpapers writes the files
\* before the rows, and the rows go before the files).
THEOREM OfferedWallpapersHaveFiles == Spec /\ [][OwnIds]_vars => []OfferedWallpaperHasFile
<1>1. ASSUME ProcInv, lost = 0, NEW k \in Key, Usable(k), wallRows[rows[k].id] = rows[k].version
      PROVE  ThumbOf(k) \in wallFiles
  <2>1. rows[k].id \in Ids
    BY <1>1, RowFields DEF Usable, IsIndexed, ProcInv, VerdictInv, Ids
  <2>2. rows[k].version # 0
    BY <1>1 DEF Usable, ProcInv, VerdictInv, RowSound
  <2> QED BY <1>1, <2>1, <2>2 DEF ProcInv, FilesKept, ThumbOf
<1>2. ProcInv => OfferedWallpaperHasFile
  BY <1>1 DEF OfferedWallpaperHasFile
<1> QED BY <1>2, ProcessingSound, PTL

\* An old listing or a slow task never takes the index back to an earlier version.
THEOREM VersionsOnlyGrow == Spec /\ [][OwnIds]_vars => IndexNeverGoesBack
<1>1. ProcInv /\ [Next]_vars =>
        [\A k \in Key : IsIndexed(k) /\ IsIndexed(k)' => rows[k].version <= rows'[k].version]_vars
  BY NeverBack
<1> QED BY <1>1, ProcessingSound, PTL DEF Spec, IndexNeverGoesBack

\* A photo whose source stays as it is stays usable, whatever else happens.
THEOREM SteadyPhotosStay == Spec /\ [][OwnIds]_vars => SteadyStaysUsable
<1>1. ProcInv /\ [Next]_vars => [\A k \in Steady : Usable(k) => Usable(k)']_vars
  BY StaysUsable
<1> QED BY <1>1, ProcessingSound, PTL DEF Spec, SteadyStaysUsable
-----------------------------------------------------------------------------
(* The scanner. *)

\* Candidates and cleanups there are only after the listing.
ListingFirst == scan.phase # "clean" => scan.gone = {} /\ ~Busy("remove")

ScanIInv == VerdictInv /\ ScanInv /\ ListingFirst

\* The largest id in use is the one below the next.
LEMMA LastId ==
  ASSUME TypeOK
  PROVE  NextId - 1 \in 0..MaxId
<1>1. UsedIds \in SUBSET (1..MaxId)
  <2> SUFFICES ASSUME NEW k \in Key, IsIndexed(k)
               PROVE  rows[k].id \in 1..MaxId
    BY DEF UsedIds
  <2> QED BY RowFields DEF IsIndexed
<1>2. CASE UsedIds = {}
  BY <1>2 DEF NextId
<1>3. CASE UsedIds # {}
  <2> DEFINE max == CHOOSE i \in UsedIds : \A j \in UsedIds : j <= i
  <2>1. max \in UsedIds
    BY <1>1, <1>3, Largest
  <2>2. NextId = 1 + max
    BY <1>3 DEF NextId
  <2> HIDE DEF max
  <2>3. max \in 1..MaxId
    BY <1>1, <2>1
  <2> QED BY <2>2, <2>3
<1> QED BY <1>2, <1>3

\* A worker goes on with the candidate it was given; nobody else cleans up.
KeepsCleaning == \A t \in Worker : tasks'[t].op = "remove" => tasks[t].op = "remove" /\ tasks'[t].key = tasks[t].key

LEMMA MoveKeepsCleaning ==
  ASSUME TypeOK, NEW t \in Task, OneMoves(t),
         tasks'[t].op = "remove" => tasks[t].op = "remove" /\ tasks'[t].key = tasks[t].key
  PROVE  KeepsCleaning
  BY ScanConstants DEF OneMoves, KeepsCleaning

LEMMA GotoKeepsCleaning ==
  ASSUME TypeOK, NEW t \in Task, NEW q \in Steps, Goto(t, q)
  PROVE  KeepsCleaning
  BY Goes, MoveKeepsCleaning

LEMMA ReturnKeepsCleaning ==
  ASSUME TypeOK, NEW t \in Task, Return(t)
  PROVE  KeepsCleaning
  BY Returns, IdleFields, MoveKeepsCleaning

LEMMA WorkKeepsCleaning ==
  ASSUME VerdictInv, NEW t \in Task, Work(t) \/ Peek(t) \/ Acquire(t) \/ Fail(t)
  PROVE  KeepsCleaning
<1>0. TypeOK /\ tasks[t] \in TaskState
  BY TaskFields DEF VerdictInv
<1>1. CASE Return(t)
  BY <1>0, <1>1, ReturnKeepsCleaning
<1>2. CASE \E q \in Steps : Goto(t, q)
  BY <1>0, <1>2, GotoKeepsCleaning
<1>3. CASE Reread(t) /\ ~Return(t)
  <2>1. PICK k \in Key : tasks' = [tasks EXCEPT ![t].pc = "stat", ![t].key = k, ![t].id = 0]
    BY <1>3 DEF Reread
  <2>2. tasks[t].op = "thumb"
    BY <1>3, AtWork DEF Reread, At, JudgeSound
  <2>3. tasks'[t].op = "thumb" /\ \A u \in Task : u # t => tasks'[u] = tasks[u]
    BY <1>0, <2>1, <2>2 DEF TypeOK, TaskState
  <2> QED BY <2>3, ScanConstants DEF KeepsCleaning
<1>4. CASE (Stat(t) \/ Gone(t) \/ Fetch(t) \/ Reject(t) \/ Pend(t)) /\ ~Return(t)
  <2>1. tasks'[t].op = tasks[t].op /\ tasks'[t].key = tasks[t].key /\ \A u \in Task : u # t => tasks'[u] = tasks[u]
    <3>1. CASE Stat(t) \/ Gone(t)
      BY <1>0, <1>4, <3>1 DEF Stat, Gone, TypeOK, TaskState
    <3>2. CASE Fetch(t)
      BY <1>0, <1>4, <3>2 DEF Fetch, TypeOK, TaskState
    <3>3. CASE Reject(t) \/ Pend(t)
      <4>1. PICK p, i : tasks' = [tasks EXCEPT ![t].pc = p, ![t].id = i]
        BY <3>3 DEF Reject, Pend
      <4> QED BY <1>0, <4>1 DEF TypeOK, TaskState
    <3> QED BY <1>4, <3>1, <3>2, <3>3
  <2> QED BY <2>1, ScanConstants DEF KeepsCleaning
<1>5. CASE Lookup(t) /\ ~Return(t)
  <2>1. PICK i, v, had, cached :
          tasks' = [tasks EXCEPT ![t].pc = "fetch", ![t].id = i, ![t].had = had, ![t].old = v, ![t].cached = cached]
    BY <1>5, Zenon DEF Lookup
  <2>2. tasks'[t].op = tasks[t].op /\ tasks'[t].key = tasks[t].key /\ \A u \in Task : u # t => tasks'[u] = tasks[u]
    BY <1>0, <2>1 DEF TypeOK, TaskState
  <2> QED BY <2>2, ScanConstants DEF KeepsCleaning
<1>6. CASE Check(t) /\ ~Return(t)
  <2>1. PICK q : q = Verdict(t) /\ Goto(t, q)
    BY <1>6 DEF Check
  <2>2. q \in Steps
    BY <2>1 DEF Verdict, Steps
  <2> QED BY <1>0, <2>1, <2>2, GotoKeepsCleaning
<1>7. CASE Acquire(t)
  <2>1. tasks[t].op \in Ops \ {"none"}
    BY <1>7, AtWork, TaskFields DEF JudgeSound, VerdictInv, Acquire, At
  <2>2. PICK q : q = FirstStep(tasks[t].op) /\ Goto(t, q)
    BY <1>7 DEF Acquire
  <2>3. q \in Steps
    BY <2>1, <2>2 DEF FirstStep, Ops, Steps
  <2> QED BY <1>0, <2>2, <2>3, GotoKeepsCleaning
<1>8. Reread(t) \/ Stat(t) \/ Gone(t) \/ Fetch(t) \/ Reject(t) \/ Pend(t) \/ Lookup(t) \/ Check(t) \/ Acquire(t)
      \/ Return(t) \/ \E q \in Steps : Goto(t, q)
  BY DEF Work, Peek, Fail, Compare, Absent, Entry, EntryStat, Validate, Save, Recheck, Publish, RemoveOld, Walls,
     Encode, WallCheck, ReplaceWallpapers, OldWalls, DelRow, DelWalls, DelFiles, Steps
<1> QED BY <1>1, <1>2, <1>3, <1>4, <1>5, <1>6, <1>7, <1>8

\* A step that leaves the scan alone leaves its candidates alone.
LEMMA ScanRests ==
  ASSUME ScanIInv, VerdictInv', scan' = scan, changes' \in 0..MaxChanges, KeepsCleaning
  PROVE  ScanIInv'
<1>1. ScanTypeOK'
  BY DEF ScanIInv, ScanInv, ScanTypeOK, VerdictInv
<1>2. ASSUME NEW k \in Key, NEW t \in Worker, tasks'[t].op = "remove", tasks'[t].key = k
      PROVE  Owner[k] \notin scan.failed /\ k \notin scan.keep
  BY <1>2 DEF KeepsCleaning, ScanIInv, ScanInv, CleanupSparesUnlisted
<1>3. CleanupSparesUnlisted'
  BY <1>2 DEF ScanIInv, ScanInv, CleanupSparesUnlisted
<1>4. ListingFirst'
  BY DEF ListingFirst, ScanIInv, KeepsCleaning, Busy
<1> QED BY <1>1, <1>3, <1>4 DEF ScanIInv, ScanInv

LEMMA ScanFields ==
  ASSUME ScanIInv
  PROVE  /\ scan.phase \in {"idle", "list", "clean"} /\ scan.todo \in SUBSET Key /\ scan.keep \in SUBSET Key
         /\ scan.failed \in SUBSET Source /\ scan.before \in 0..MaxId
         /\ scan.gone \in SUBSET (Key \X Row)
         /\ scan \in ScanState /\ changes \in 0..MaxChanges /\ TypeOK
<1>1. scan \in ScanState /\ changes \in 0..MaxChanges /\ TypeOK
  BY DEF ScanIInv, ScanInv, ScanTypeOK
<1> QED BY <1>1 DEF ScanState

LEMMA ScanInitial == ScanInit => ScanIInv
<1> SUFFICES ASSUME ScanInit PROVE ScanIInv
  OBVIOUS
<1>1. VerdictInv
  BY VerdictInit DEF ScanInit
<1>2. scan = Resting /\ changes = 0 /\ \A t \in Worker : tasks[t].op = "none"
  BY IdleFields, ScanConstants DEF ScanInit, Init
<1>3. ScanTypeOK
  BY <1>1, <1>2, ScanConstants DEF ScanTypeOK, ScanState, VerdictInv, Resting
<1> QED BY <1>1, <1>2, <1>3 DEF ScanIInv, ScanInv, CleanupSparesUnlisted, ListingFirst, Resting, Busy

\* The listing of an object starts a task that does not clean up.
LEMMA BeginKeepsCleaning ==
  ASSUME TypeOK, NEW t \in Task, NEW op \in Ops \ {"none"}, NEW k \in Key, NEW v \in 0..MaxVersion,
         NEW i \in 0..MaxId, Begin(t, op, k, v, i)
  PROVE  /\ OneMoves(t) /\ tasks'[t].op = op /\ tasks'[t].key = k
         /\ op # "remove" \/ t \notin Worker => KeepsCleaning
<1> DEFINE first == IF op = "thumb" THEN "peek" ELSE "lock"
           s == [Idle EXCEPT !.op = op, !.lock = k, !.key = k, !.obj = v, !.id = i, !.pc = first]
<1>1. tasks' = [tasks EXCEPT ![t] = s] /\ first \in Steps
  BY DEF Begin, Steps
<1> HIDE DEF first
<1>2. s \in TaskState /\ s.op = op /\ s.key = k
  BY <1>1, IdleFields DEF TaskState
<1> HIDE DEF s
<1>3. OneMoves(t) /\ tasks'[t] = s
  BY <1>1, <1>2, Turn
<1> QED BY <1>2, <1>3, ScanConstants DEF KeepsCleaning, OneMoves

\* A new scan knows nothing of the one before.
LEMMA ScanStarts ==
  ASSUME ScanIInv, ScanBegin \/ ScanEnd
  PROVE  ScanIInv'
<1>1. UNCHANGED <<vars, changes>> /\ ~Busy("remove")
  BY DEF ScanBegin, ScanEnd, ScanIInv, ListingFirst
<1>2. PICK p \in {"idle", "list"}, T \in SUBSET Key, n \in 0..MaxId :
        scan' = [phase |-> p, todo |-> T, keep |-> {}, failed |-> {}, before |-> n, gone |-> {}]
  <2>1. CASE ScanBegin
    BY <2>1, ScanFields, LastId DEF ScanBegin, Resting
  <2>2. CASE ScanEnd
    <3>1. scan' = Resting /\ 0 \in 0..MaxId
      BY <2>2 DEF ScanEnd
    <3> QED BY <3>1 DEF Resting
  <2> QED BY <2>1, <2>2
<1>3. scan' \in ScanState /\ scan'.phase = p /\ scan'.gone = {} /\ scan'.keep = {} /\ scan'.failed = {}
  BY <1>2 DEF ScanState
<1>4. VerdictInv'
  BY <1>1, VerdictStep DEF ScanIInv
<1>5. ~Busy("remove")'
  BY <1>1 DEF Busy, vars
<1>6. ScanTypeOK'
  BY <1>1, <1>3, <1>4, ScanFields DEF ScanTypeOK, VerdictInv
<1> QED BY <1>3, <1>4, <1>5, <1>6 DEF ScanIInv, ScanInv, CleanupSparesUnlisted, ListingFirst, Busy

\* While a scan lists, there is nothing to clean up yet.
LEMMA ScanLists ==
  ASSUME ScanIInv, VerdictInv', scan.phase = "list", KeepsCleaning, changes' = changes,
         NEW T \in SUBSET Key, NEW K \in SUBSET Key, NEW F \in SUBSET Source,
         scan' = [scan EXCEPT !.todo = T, !.keep = K, !.failed = F]
  PROVE  ScanIInv'
<1>1. scan.gone = {} /\ ~Busy("remove") /\ scan \in ScanState
  BY ScanFields DEF ScanIInv, ListingFirst
<1>2. ~Busy("remove")' /\ \A t \in Worker : tasks'[t].op # "remove"
  BY <1>1 DEF Busy, KeepsCleaning
<1>3. scan' \in ScanState /\ scan'.phase = "list" /\ scan'.gone = {}
  BY <1>1 DEF ScanState
<1>4. ScanTypeOK'
  BY <1>3, ScanFields DEF ScanTypeOK, VerdictInv
<1> QED BY <1>2, <1>3, <1>4 DEF ScanIInv, ScanInv, CleanupSparesUnlisted, ListingFirst

\* The candidates are among what no listing showed, of the sources that could be listed.
LEMMA ScanCollects ==
  ASSUME ScanIInv, Missing
  PROVE  ScanIInv'
<1>1. UNCHANGED <<vars, changes>> /\ scan.phase = "list" /\ ~Busy("remove") /\ scan \in ScanState
      /\ scan' = [scan EXCEPT !.phase = "clean", !.gone = Candidates(scan.failed)]
  BY ScanFields DEF Missing, Collect, ScanIInv, ListingFirst
<1>2. Candidates(scan.failed) \in SUBSET (Key \X Row)
  BY RowFields, ScanFields DEF Candidates, IsIndexed
<1>3. /\ scan' \in ScanState /\ scan'.phase = "clean" /\ scan'.gone = Candidates(scan.failed)
      /\ scan'.keep = scan.keep /\ scan'.failed = scan.failed
  BY <1>1, <1>2 DEF ScanState
<1>4. VerdictInv'
  BY <1>1, VerdictStep DEF ScanIInv
<1>5. \A t \in Worker : tasks'[t].op # "remove"
  BY <1>1 DEF Busy, vars
<1>6. ScanTypeOK'
  BY <1>1, <1>3, <1>4, ScanFields DEF ScanTypeOK, VerdictInv
<1>7. \A k \in Key, r \in Row : <<k, r>> \in Candidates(scan.failed) => Owner[k] \notin scan.failed /\ k \notin scan.keep
  BY DEF Candidates
<1> QED BY <1>3, <1>4, <1>5, <1>6, <1>7 DEF ScanIInv, ScanInv, CleanupSparesUnlisted, ListingFirst

\* A removal is that of a candidate.
LEMMA ScanCleans ==
  ASSUME ScanIInv, NEW t \in Worker, NEW k \in Key, Clean(k, t)
  PROVE  ScanIInv'
<1>1. PICK r \in Row : /\ <<k, r>> \in scan.gone /\ Begin(t, "remove", k, r.version, r.id)
                       /\ scan' = [scan EXCEPT !.gone = @ \ {<<k, r>>}]
                       /\ scan.phase = "clean" /\ changes' = changes
  BY DEF Clean
<1>2. t \in Task /\ r.version \in 0..MaxVersion /\ r.id \in 0..MaxId /\ r.id # 0 /\ "remove" \in Ops \ {"none"} /\ "remove" \in Ops
  BY <1>1, ScanConstants DEF Row, Ids, Ops
<1>3. VerdictInv'
  BY <1>1, <1>2, BeginStep DEF ScanIInv
<1>4. OneMoves(t) /\ tasks'[t].op = "remove" /\ tasks'[t].key = k
  BY <1>1, <1>2, BeginKeepsCleaning, ScanFields
<1>5. /\ scan' \in ScanState /\ scan'.phase = "clean" /\ scan'.gone \subseteq scan.gone
      /\ scan'.keep = scan.keep /\ scan'.failed = scan.failed
  BY <1>1, ScanFields DEF ScanState
<1>6. ScanTypeOK'
  BY <1>1, <1>3, <1>5, ScanFields DEF ScanTypeOK, VerdictInv
<1>7. CleanupSparesUnlisted
  BY DEF ScanIInv, ScanInv
<1>8. Owner[k] \notin scan.failed /\ k \notin scan.keep
  BY <1>1, <1>7 DEF CleanupSparesUnlisted
<1>9. ASSUME NEW j \in Key, NEW u \in Worker, tasks'[u].op = "remove", tasks'[u].key = j
      PROVE  Owner[j] \notin scan.failed /\ j \notin scan.keep
  <2>1. CASE u = t
    BY <1>4, <1>8, <1>9, <2>1
  <2>2. CASE u # t
    BY <1>4, <1>7, <1>9, <2>2, ScanConstants DEF CleanupSparesUnlisted, OneMoves
  <2> QED BY <2>1, <2>2
<1>10. CleanupSparesUnlisted'
  BY <1>5, <1>7, <1>9 DEF CleanupSparesUnlisted
<1> QED BY <1>3, <1>5, <1>6, <1>10 DEF ScanIInv, ScanInv, ListingFirst

LEMMA ScanStep == ScanIInv /\ [ScanNext]_scanVars => ScanIInv'
<1> SUFFICES ASSUME ScanIInv, [ScanNext]_scanVars PROVE ScanIInv'
  OBVIOUS
<1>0. VerdictInv /\ TypeOK /\ Worker \subseteq Task /\ changes \in 0..MaxChanges
  BY ScanFields, ScanConstants DEF ScanIInv
<1>1. CASE Scan
  <2>1. ASSUME NEW k \in Key, NEW t \in Worker, ListPresent(k, t) PROVE ScanIInv'
    <3>1. Begin(t, "listed", k, ver[k], 0) /\ scan.phase = "list" /\ changes' = changes
          /\ scan' = [scan EXCEPT !.todo = @ \ {k}, !.keep = @ \cup {k}]
      BY <2>1 DEF ListPresent, StartListed
    <3>2. t \in Task /\ "listed" \in Ops \ {"none"} /\ ver[k] \in 0..MaxVersion /\ 0 \in 0..MaxId
      BY <1>0 DEF Ops, TypeOK, Versions
    <3>3. VerdictInv'
      BY <1>0, <2>1, StartStep DEF ListPresent, Start
    <3>4. KeepsCleaning
      BY <1>0, <3>1, <3>2, BeginKeepsCleaning
    <3>5. scan' = [scan EXCEPT !.todo = scan.todo \ {k}, !.keep = scan.keep \cup {k}, !.failed = scan.failed]
      BY <3>1, ScanFields DEF ScanState
    <3>6. /\ scan.todo \ {k} \in SUBSET Key /\ scan.keep \cup {k} \in SUBSET Key
          /\ scan.failed \in SUBSET Source
      BY ScanFields
    <3> QED BY <3>1, <3>3, <3>4, <3>5, <3>6, ScanLists
  <2>2. ASSUME NEW k \in Key, ListAbsent(k) PROVE ScanIInv'
    <3>1. UNCHANGED vars /\ changes' = changes /\ scan.phase = "list" /\ scan' = [scan EXCEPT !.todo = @ \ {k}]
      BY <2>2 DEF ListAbsent
    <3>2. VerdictInv' /\ KeepsCleaning
      BY <1>0, <3>1, VerdictStep DEF KeepsCleaning, vars
    <3>3. scan' = [scan EXCEPT !.todo = scan.todo \ {k}, !.keep = scan.keep, !.failed = scan.failed]
      BY <3>1, ScanFields DEF ScanState
    <3>4. PICK T \in SUBSET Key, K \in SUBSET Key, F \in SUBSET Source :
            T = scan.todo \ {k} /\ K = scan.keep /\ F = scan.failed
      BY ScanFields
    <3>5. scan' = [scan EXCEPT !.todo = T, !.keep = K, !.failed = F] /\ scan.phase = "list" /\ changes' = changes
      BY <3>1, <3>3, <3>4
    <3> QED BY <3>2, <3>5, ScanLists
  <2> QED BY <1>1, <2>1, <2>2, ScanStarts, ScanCollects, ScanCleans DEF Scan
<1>2. ASSUME NEW s \in Source, ListFails(s) PROVE ScanIInv'
  <2>1. /\ faults' = faults + 1 /\ faults < MaxFaults /\ UNCHANGED <<source, index, tasks, lost, changes>>
        /\ scan.phase = "list"
        /\ scan' = [scan EXCEPT !.failed = @ \cup {s}, !.todo = {k \in @ : Owner[k] # s}]
    BY <1>2 DEF ListFails
  <2>2. VerdictInv'
    <3>1. UNCHANGED <<ver, present, rows, thumbs, wallRows, wallFiles, tasks, lost>> /\ faults' \in 0..MaxFaults
      BY <1>0, <2>1 DEF TypeOK, source, index
    <3> QED BY <1>0, <3>1 DEF VerdictInv, TypeOK, RowSound, TaskSound, JudgeSound
  <2>3. KeepsCleaning
    BY <2>1 DEF KeepsCleaning
  <2>4. scan' = [scan EXCEPT !.todo = {k \in scan.todo : Owner[k] # s}, !.keep = scan.keep, !.failed = scan.failed \cup {s}]
    BY <2>1, ScanFields DEF ScanState
  <2>5. PICK T \in SUBSET Key, K \in SUBSET Key, F \in SUBSET Source :
          T = {k \in scan.todo : Owner[k] # s} /\ K = scan.keep /\ F = scan.failed \cup {s}
    BY ScanFields
  <2>6. scan' = [scan EXCEPT !.todo = T, !.keep = K, !.failed = F] /\ scan.phase = "list" /\ changes' = changes
    BY <2>1, <2>4, <2>5
  <2> QED BY <2>2, <2>3, <2>6, ScanLists
<1>3. CASE Others /\ UNCHANGED <<scan, changes>>
  <2>1. PICK t \in Task \ Worker, k \in Key :
          StartSync(t, k) \/ StartThumbnail(t, k) \/ \E v \in Versions : StartRetry(t, k, v)
    BY <1>3 DEF Others
  <2>2. VerdictInv'
    BY <1>0, <2>1, StartStep DEF Start
  <2>3. KeepsCleaning
    <3>1. PICK op \in {"sync", "thumb", "retry"}, v \in 0..MaxVersion, i \in 0..MaxId : Begin(t, op, k, v, i)
      BY <1>0, <2>1, RowFields DEF StartSync, StartThumbnail, StartRetry, Versions
    <3>2. op \in Ops \ {"none"}
      BY DEF Ops
    <3> QED BY <1>0, <2>1, <3>1, <3>2, BeginKeepsCleaning
  <2> QED BY <1>0, <1>3, <2>2, <2>3, ScanRests
<1>4. ASSUME NEW t \in Task, Peek(t) \/ Acquire(t) \/ Work(t) \/ Fail(t), UNCHANGED <<scan, changes>> PROVE ScanIInv'
  <2>1. VerdictInv'
    BY <1>0, <1>4, VerdictStep DEF Next, Environment
  <2>2. KeepsCleaning
    BY <1>0, <1>4, WorkKeepsCleaning
  <2> QED BY <1>0, <1>4, <2>1, <2>2, ScanRests
<1>5. CASE Lose /\ UNCHANGED <<scan, changes>>
  <2>1. VerdictInv' /\ KeepsCleaning
    BY <1>0, <1>5, OutsideStep DEF Environment, KeepsCleaning, Lose
  <2> QED BY <1>0, <1>5, <2>1, ScanRests
<1>6. CASE Crash /\ scan' = Resting /\ UNCHANGED changes
  <2>1. VerdictInv'
    BY <1>0, <1>6, OutsideStep DEF Environment
  <2>2. \A t \in Worker : tasks'[t].op = "none"
    BY <1>0, <1>6, IdleFields DEF Crash
  <2>3. scan' \in ScanState /\ scan'.gone = {}
    BY <1>6 DEF ScanState, Resting
  <2>4. ScanTypeOK'
    BY <1>0, <1>6, <2>1, <2>3 DEF ScanTypeOK, VerdictInv
  <2> QED BY <2>1, <2>2, <2>3, <2>4 DEF ScanIInv, ScanInv, CleanupSparesUnlisted, ListingFirst, Busy
<1>7. CASE SourceChange
  <2>1. VerdictInv'
    BY <1>0, <1>7, OutsideStep DEF Environment, SourceChange
  <2>2. scan' = scan /\ changes' \in 0..MaxChanges /\ KeepsCleaning
    BY <1>0, <1>7, ScanConstants DEF SourceChange, Overwrite, Vanish, Reappear, KeepsCleaning
  <2> QED BY <2>1, <2>2, ScanRests
<1>8. CASE UNCHANGED scanVars
  <2>1. UNCHANGED <<vars, scan, changes>>
    BY <1>8 DEF scanVars
  <2>2. VerdictInv' /\ KeepsCleaning
    BY <1>0, <2>1, VerdictStep DEF KeepsCleaning, vars
  <2> QED BY <1>0, <2>1, <2>2, ScanRests
<1> QED BY <1>1, <1>2, <1>3, <1>4, <1>5, <1>6, <1>7, <1>8 DEF ScanNext

\* A scan's cleanup never goes after a photo that it saw or whose source it could
\* not list, whatever the workers, events, failures and restarts do meanwhile
\* (scanner.walk removes what store.missingPhotos returns).
THEOREM CleanupStaysWithinTheListing == ScanSpec => []ScanInv
<1>1. ScanIInv => ScanInv
  BY DEF ScanIInv
<1> QED BY <1>1, ScanInitial, ScanStep, PTL DEF ScanSpec
=============================================================================
