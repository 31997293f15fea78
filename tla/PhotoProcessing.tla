--------------------------- MODULE PhotoProcessing ---------------------------
(***************************************************************************)
(* photoProcessor: bringing one photo of the library up to date.  Scan     *)
(* workers, storage events, uploads, thumbnail requests, scan cleanup and  *)
(* the recovery of rejected photos run as tasks; each takes the lock of a  *)
(* photo key (PhotoLocks, seen here as the mutex it implements), reads the *)
(* source and writes the index row, the thumbnail, the wallpaper rows and  *)
(* the wallpaper files one after the other.  Sources change, calls fail    *)
(* and the process crashes between any two of these steps.                 *)
(*                                                                         *)
(* The source version of a key is a number that only grows; a photo may    *)
(* disappear and come back unchanged.  Files are named after the row id    *)
(* and the version.  The several wallpapers of one version are one item.   *)
(***************************************************************************)
EXTENDS Naturals, FiniteSets

CONSTANTS
  Task,         \* goroutines that process photos
  Key,          \* photo keys
  NoKey,
  MaxVersion,   \* bound: source versions of a key
  MaxId,        \* bound: row ids SQLite hands out
  MaxFaults,    \* bound: failed calls and crashes
  MaxLosses,    \* bound: files lost from the cache directory
  Steady,       \* keys whose source object never changes
  Vanishing,    \* keys whose source object may disappear
  Indexed,      \* keys in the index when the process starts
  Rejected,     \* of those, the ones an older program marked as broken
  WallKeys,     \* keys in the directories that get wallpapers
  BadVersions   \* versions whose bytes cannot be decoded

ASSUME ProcessingConstants ==
  /\ IsFiniteSet(Task) /\ IsFiniteSet(Key) /\ NoKey \notin Key
  /\ MaxVersion \in Nat \ {0} /\ MaxId \in Nat \ {0} /\ MaxFaults \in Nat /\ MaxLosses \in Nat
  /\ Steady \subseteq Key /\ Vanishing \subseteq Key \ Steady
  /\ Rejected \subseteq Indexed /\ Indexed \subseteq Key
  /\ WallKeys \subseteq Key /\ BadVersions \subseteq 1..MaxVersion
  /\ 1 \in BadVersions => Indexed = Rejected  \* only decoded photos became usable

VARIABLES
  ver,        \* ver[k]: version of the source object of k
  present,    \* the keys whose source object exists
  rows,       \* the photos table: Key -> row, or NoRow
  thumbs,     \* thumbnail files, as <<id, version>>
  wallRows,   \* the wallpapers table: id -> version of its rows, 0 for none
  wallFiles,  \* wallpaper files, as <<id, version>>
  tasks,      \* what each task is doing
  faults,     \* failed calls and crashes so far
  lost        \* files lost from the cache directory so far

source == <<ver, present>>
index  == <<rows, thumbs, wallRows, wallFiles>>
vars   == <<ver, present, rows, thumbs, wallRows, wallFiles, tasks, faults, lost>>

Ids      == 1..MaxId
Versions == 1..MaxVersion
Files    == Ids \X Versions
Row      == [id : Ids, version : 0..MaxVersion, broken : BOOLEAN]
NoRow    == [id |-> 0, version |-> 0, broken |-> TRUE]
Ops      == {"none", "listed", "sync", "thumb", "remove", "retry"}
Steps    == {"idle", "peek", "lock", "reread", "stat", "gone", "compare", "absent", "entry",
             "entryStat", "lookup", "fetch", "read", "check", "reject", "pend", "save",
             "recheck", "publish", "old", "walls", "encode", "wallCheck", "replace",
             "oldWalls", "delRow", "delWalls", "delFiles"}

\* The locals of a task: the key it locked, the key it processes, the object
\* version it was given or saw, the version of the bytes it read, and what it
\* remembers of the existing row.
Idle == [op |-> "none", pc |-> "idle", lock |-> NoKey, key |-> NoKey, obj |-> 0,
         data |-> 0, id |-> 0, had |-> FALSE, old |-> 0, cached |-> FALSE]

TaskState == [op : Ops, pc : Steps, lock : Key \cup {NoKey}, key : Key \cup {NoKey},
              obj : 0..MaxVersion, data : 0..MaxVersion, id : 0..MaxId, had : BOOLEAN,
              old : 0..MaxVersion, cached : BOOLEAN]

TypeOK == /\ ver \in [Key -> Versions]
          /\ present \in SUBSET Key
          /\ rows \in [Key -> Row \cup {NoRow}]
          /\ thumbs \in SUBSET Files
          /\ wallRows \in [Ids -> 0..MaxVersion]
          /\ wallFiles \in SUBSET Files
          /\ tasks \in [Task -> TaskState]
          /\ faults \in 0..MaxFaults
          /\ lost \in 0..MaxLosses

\* The index as an earlier run left it: complete rows of version 1 with their
\* files, and rejected rows without.
Init ==
  /\ ver = [k \in Key |-> 1]
  /\ present \in {S \in SUBSET Key : Steady \cup Indexed \subseteq S}
  /\ \E f \in [Indexed -> Ids] :
       /\ \A j, k \in Indexed : f[j] = f[k] => j = k
       /\ \A k \in Indexed : f[k] <= Cardinality(Indexed)
       /\ rows = [k \in Key |-> IF k \in Indexed
                                THEN [id |-> f[k], version |-> 1, broken |-> k \in Rejected]
                                ELSE NoRow]
       /\ thumbs = {<<f[k], 1>> : k \in Indexed \ Rejected}
       /\ wallFiles = {<<f[k], 1>> : k \in (Indexed \ Rejected) \cap WallKeys}
  /\ wallRows = [i \in Ids |-> IF <<i, 1>> \in wallFiles THEN 1 ELSE 0]
  /\ tasks = [t \in Task |-> Idle]
  /\ faults = 0
  /\ lost = 0
-----------------------------------------------------------------------------
IsIndexed(k) == rows[k] # NoRow
Usable(k)    == IsIndexed(k) /\ ~rows[k].broken
ThumbOf(k)   == <<rows[k].id, rows[k].version>>

\* Mutant: a validation is content with any object under the key.
SourceExists(k, v) == k \in present

\* photoProcessor.validate.
SourceIs(k, v) == k \in present /\ ver[k] = v

\* Mutant: a usable row is taken for complete without a look at its file.
CompleteByRow(k) == Usable(k)

\* thumbCache.exists and a decoded size: the photo needs no new thumbnail.
Complete(k) == Usable(k) /\ ThumbOf(k) \in thumbs

\* photoProcessor.wallpapersReady.
WallpapersReady(k) == \/ k \notin WallKeys \/ rows[k].broken
                      \/ wallRows[rows[k].id] = rows[k].version /\ ThumbOf(k) \in wallFiles

UsedIds == {rows[k].id : k \in {j \in Key : IsIndexed(j)}}
\* The rowid SQLite gives a new row of a table without AUTOINCREMENT: one more
\* than the largest in use, so the largest id is used again once its row goes.
NextId == IF UsedIds = {} THEN 1 ELSE 1 + (CHOOSE i \in UsedIds : \A j \in UsedIds : j <= i)

\* store.upsert: the row keeps its id; a new row takes NextId.
UpsertId(k) == IF IsIndexed(k) THEN rows[k].id ELSE NextId
Upsert(k, v, b) == /\ UpsertId(k) <= MaxId
                   /\ rows' = [rows EXCEPT ![k] = [id |-> UpsertId(k), version |-> v, broken |-> b]]

Holds(t) == tasks[t].pc \notin {"idle", "peek", "lock"}
At(t, p) == tasks[t].pc = p
Goto(t, p) == tasks' = [tasks EXCEPT ![t].pc = p]
\* Returning releases the photo lock.
Return(t) == tasks' = [tasks EXCEPT ![t] = Idle]
-----------------------------------------------------------------------------
(* Tasks begin with what their caller knew before it asked for the lock. *)

Begin(t, op, k, v, i) ==
  /\ tasks[t] = Idle
  /\ tasks' = [tasks EXCEPT ![t] = [Idle EXCEPT !.op = op, !.lock = k, !.key = k, !.obj = v,
                       !.id = i, !.pc = IF op = "thumb" THEN "peek" ELSE "lock"]]
  /\ UNCHANGED <<source, index, faults, lost>>

\* ApplyListed: a scan worker, with the object as the listing showed it.
StartListed(t, k) == k \in present /\ Begin(t, "listed", k, ver[k], 0)

\* SyncKey: a storage event or a finished upload names the key and no more.
StartSync(t, k) == Begin(t, "sync", k, 0, 0)

\* Thumbnail: the row of an id is read first ...
StartThumbnail(t, k) == Usable(k) /\ Begin(t, "thumb", k, rows[k].version, rows[k].id)

\* ... and then its file, without any lock: usually that is all.
Peek(t) ==
  /\ At(t, "peek")
  /\ IF <<tasks[t].id, tasks[t].obj>> \in thumbs THEN Return(t) ELSE Goto(t, "lock")
  /\ UNCHANGED <<source, index, faults, lost>>

\* RemoveIfUnchanged: the row was a candidate of a scan's cleanup.
StartRemove(t, k) == IsIndexed(k) /\ Begin(t, "remove", k, rows[k].version, rows[k].id)

\* retryRejected: an entry of the recovery manifest.
StartRetry(t, k, v) == Begin(t, "retry", k, v, 0)

LockFree(k) == \A u \in Task : Holds(u) => tasks[u].lock # k

FirstStep(op) == CASE op = "listed" -> "lookup"
                   [] op = "sync"   -> "stat"
                   [] op = "thumb"  -> "reread"
                   [] op = "remove" -> "compare"
                   [] op = "retry"  -> "entry"

Acquire(t) ==
  /\ At(t, "lock")
  /\ LockFree(tasks[t].lock)
  /\ Goto(t, FirstStep(tasks[t].op))
  /\ UNCHANGED <<source, index, faults, lost>>
-----------------------------------------------------------------------------
(* What each caller does first under the lock. *)

\* Thumbnail reads the row of its id once more.  It goes on with the key of the
\* row it finds now, whose lock it does not hold if the id was used again.
Reread(t) ==
  /\ At(t, "reread")
  /\ \/ /\ \E k \in Key : /\ rows[k].id = tasks[t].id
                          /\ Usable(k) /\ ~Complete(k)
                          /\ tasks' = [tasks EXCEPT ![t].pc = "stat", ![t].key = k, ![t].id = 0]
     \/ /\ ~\E k \in Key : rows[k].id = tasks[t].id /\ Usable(k) /\ ~Complete(k)
        /\ Return(t)
  /\ UNCHANGED <<source, index, faults, lost>>

\* sync: the source as it is now decides.
Stat(t) ==
  /\ At(t, "stat")
  /\ tasks' = IF tasks[t].key \in present
              THEN [tasks EXCEPT ![t].pc = "lookup", ![t].obj = ver[tasks[t].key]]
              ELSE [tasks EXCEPT ![t].pc = "gone"]
  /\ UNCHANGED <<source, index, faults, lost>>

Gone(t) ==
  /\ At(t, "gone")
  /\ IF IsIndexed(tasks[t].key)
     THEN tasks' = [tasks EXCEPT ![t].pc = "delRow", ![t].id = rows[tasks[t].key].id]
     ELSE Return(t)
  /\ UNCHANGED <<source, index, faults, lost>>

\* RemoveIfUnchanged: only the very row that was a candidate, ...
Compare(t) ==
  /\ At(t, "compare")
  /\ LET r == rows[tasks[t].key]
     IN IF r # NoRow /\ r.id = tasks[t].id /\ r.version = tasks[t].obj
        THEN Goto(t, "absent") ELSE Return(t)
  /\ UNCHANGED <<source, index, faults, lost>>

\* Mutant: the cleanup trusts the listing and does not look at the source.
AbsentUnchecked(t) ==
  /\ At(t, "absent")
  /\ Goto(t, "delRow")
  /\ UNCHANGED <<source, index, faults, lost>>

\* ... and only while its source is still absent.
Absent(t) ==
  /\ At(t, "absent")
  /\ IF tasks[t].key \in present THEN Return(t) ELSE Goto(t, "delRow")
  /\ UNCHANGED <<source, index, faults, lost>>

\* retryRejected: the index and then the source must still show the object that
\* the manifest names.
Entry(t) ==
  /\ At(t, "entry")
  /\ LET r == rows[tasks[t].key]
     IN IF r # NoRow /\ r.broken /\ r.version = tasks[t].obj
        THEN Goto(t, "entryStat") ELSE Return(t)
  /\ UNCHANGED <<source, index, faults, lost>>

EntryStat(t) ==
  /\ At(t, "entryStat")
  /\ IF SourceIs(tasks[t].key, tasks[t].obj) THEN Goto(t, "lookup") ELSE Return(t)
  /\ UNCHANGED <<source, index, faults, lost>>
-----------------------------------------------------------------------------
(* process *)

WantsWalls(t) == tasks[t].op # "thumb"

\* The existing row decides whether anything is left to do.
Lookup(t) ==
  /\ At(t, "lookup")
  /\ LET k == tasks[t].key
         same == IsIndexed(k) /\ rows[k].version = tasks[t].obj
         cached == same /\ Complete(k)
     IN IF \/ same /\ rows[k].broken /\ tasks[t].op # "retry"
           \/ cached /\ (~WantsWalls(t) \/ WallpapersReady(k))
        THEN Return(t)
        ELSE tasks' = [tasks EXCEPT ![t].pc = "fetch", ![t].id = rows[k].id,
                         ![t].had = IsIndexed(k), ![t].old = rows[k].version,
                         ![t].cached = cached]
  /\ UNCHANGED <<source, index, faults, lost>>

\* A spool slot is taken and the object validated: a stale listing ends here.
Validate(t) ==
  /\ At(t, "fetch")
  /\ IF SourceIs(tasks[t].key, tasks[t].obj) THEN Goto(t, "read") ELSE Return(t)
  /\ UNCHANGED <<source, index, faults, lost>>

\* readVersion copies the bytes the source has by then.
Fetch(t) ==
  /\ At(t, "read")
  /\ IF tasks[t].key \in present
     THEN tasks' = [tasks EXCEPT ![t].pc = "check", ![t].data = ver[tasks[t].key]]
     ELSE Return(t)
  /\ UNCHANGED <<source, index, faults, lost>>

Verdict(t) == CASE tasks[t].data \in BadVersions -> "reject"
                [] tasks[t].data \notin BadVersions /\ tasks[t].cached -> "walls"
                [] tasks[t].data \notin BadVersions /\ ~tasks[t].cached /\ tasks[t].had -> "save"
                [] OTHER -> "pend"

\* Mutant: what was read counts, whatever the source has become.
CheckUnvalidated(t) ==
  /\ At(t, "check")
  /\ Goto(t, Verdict(t))
  /\ UNCHANGED <<source, index, faults, lost>>

\* The validation after decoding: obsolete bytes neither replace a photo nor
\* mark a new version as broken.
Check(t) ==
  /\ At(t, "check")
  /\ IF SourceIs(tasks[t].key, tasks[t].obj) THEN Goto(t, Verdict(t)) ELSE Return(t)
  /\ UNCHANGED <<source, index, faults, lost>>

\* A confirmed bad image: its row is marked, then its wallpapers and files go.
Reject(t) ==
  /\ At(t, "reject")
  /\ Upsert(tasks[t].key, tasks[t].obj, TRUE)
  /\ tasks' = [tasks EXCEPT ![t].pc = "delWalls", ![t].id = UpsertId(tasks[t].key)]
  /\ UNCHANGED <<source, thumbs, wallRows, wallFiles, faults, lost>>

\* Mutant: the id the insertion returns is dropped.
PendForgetsId(t) ==
  /\ At(t, "pend")
  /\ Upsert(tasks[t].key, 0, TRUE)
  /\ Goto(t, "save")
  /\ UNCHANGED <<source, thumbs, wallRows, wallFiles, faults, lost>>

\* A new photo gets its id from a row that is not usable yet.
Pend(t) ==
  /\ At(t, "pend")
  /\ Upsert(tasks[t].key, 0, TRUE)
  /\ tasks' = [tasks EXCEPT ![t].pc = "save", ![t].id = UpsertId(tasks[t].key)]
  /\ UNCHANGED <<source, thumbs, wallRows, wallFiles, faults, lost>>

Target(t) == <<tasks[t].id, tasks[t].obj>>

\* thumbCache.save: the file appears at once, under its final name.
Save(t) ==
  /\ At(t, "save")
  /\ thumbs' = thumbs \cup {Target(t)}
  /\ Goto(t, "recheck")
  /\ UNCHANGED <<source, rows, wallRows, wallFiles, faults, lost>>

Recheck(t) ==
  /\ At(t, "recheck")
  /\ IF SourceIs(tasks[t].key, tasks[t].obj)
     THEN Goto(t, "publish") /\ UNCHANGED thumbs
     ELSE Return(t) /\ thumbs' = thumbs \ {Target(t)}
  /\ UNCHANGED <<source, rows, wallRows, wallFiles, faults, lost>>

Publish(t) ==
  /\ At(t, "publish")
  /\ Upsert(tasks[t].key, tasks[t].obj, FALSE)
  /\ Goto(t, "old")
  /\ UNCHANGED <<source, thumbs, wallRows, wallFiles, faults, lost>>

\* Mutant: the old file is found by the photo's id alone.
RemoveOldById(t) ==
  /\ At(t, "old")
  /\ thumbs' = IF tasks[t].had THEN {f \in thumbs : f[1] # tasks[t].id} ELSE thumbs
  /\ Goto(t, "walls")
  /\ UNCHANGED <<source, rows, wallRows, wallFiles, faults, lost>>

\* thumbCache.removeOld: the file of the version before, if it is another one.
RemoveOld(t) ==
  /\ At(t, "old")
  /\ thumbs' = IF tasks[t].had /\ tasks[t].old # tasks[t].obj
               THEN thumbs \ {<<tasks[t].id, tasks[t].old>>} ELSE thumbs
  /\ Goto(t, "walls")
  /\ UNCHANGED <<source, rows, wallRows, wallFiles, faults, lost>>

\* Publication precedes the wallpapers, which only scans and events make.
Walls(t) ==
  /\ At(t, "walls")
  /\ IF WantsWalls(t) /\ tasks[t].key \in WallKeys
        /\ ~(wallRows[tasks[t].id] = tasks[t].obj /\ Target(t) \in wallFiles)
     THEN Goto(t, "encode") ELSE Return(t)
  /\ UNCHANGED <<source, index, faults, lost>>

\* saveWallpapers: the files, a last validation, the rows in one transaction,
\* and then the files of other versions.
Encode(t) ==
  /\ At(t, "encode")
  /\ wallFiles' = wallFiles \cup {Target(t)}
  /\ Goto(t, "wallCheck")
  /\ UNCHANGED <<source, rows, thumbs, wallRows, faults, lost>>

WallCheck(t) ==
  /\ At(t, "wallCheck")
  /\ IF SourceIs(tasks[t].key, tasks[t].obj) THEN Goto(t, "replace") ELSE Return(t)
  /\ UNCHANGED <<source, index, faults, lost>>

ReplaceWallpapers(t) ==
  /\ At(t, "replace")
  /\ wallRows' = [wallRows EXCEPT ![tasks[t].id] = tasks[t].obj]
  /\ Goto(t, "oldWalls")
  /\ UNCHANGED <<source, rows, thumbs, wallFiles, faults, lost>>

\* Mutant: the cleanup of wallpaper files keeps only those of the version before.
OldWallsKeepOld(t) ==
  /\ At(t, "oldWalls")
  /\ wallFiles' = {f \in wallFiles : f[1] = tasks[t].id => f[2] = tasks[t].old}
  /\ Return(t)
  /\ UNCHANGED <<source, rows, thumbs, wallRows, faults, lost>>

OldWalls(t) ==
  /\ At(t, "oldWalls")
  /\ wallFiles' = {f \in wallFiles : f[1] = tasks[t].id => f[2] = tasks[t].obj}
  /\ Return(t)
  /\ UNCHANGED <<source, rows, thumbs, wallRows, faults, lost>>
-----------------------------------------------------------------------------
(* remove: the row, then what hangs on its id. *)

DelRow(t) ==
  /\ At(t, "delRow")
  /\ rows' = [k \in Key |-> IF rows[k].id = tasks[t].id THEN NoRow ELSE rows[k]]
  /\ Goto(t, "delWalls")
  /\ UNCHANGED <<source, thumbs, wallRows, wallFiles, faults, lost>>

DelWalls(t) ==
  /\ At(t, "delWalls")
  /\ wallRows' = [wallRows EXCEPT ![tasks[t].id] = 0]
  /\ Goto(t, "delFiles")
  /\ UNCHANGED <<source, rows, thumbs, wallFiles, faults, lost>>

DelFiles(t) ==
  /\ At(t, "delFiles")
  /\ thumbs' = {f \in thumbs : f[1] # tasks[t].id}
  /\ wallFiles' = {f \in wallFiles : f[1] # tasks[t].id}
  /\ Return(t)
  /\ UNCHANGED <<source, rows, wallRows, faults, lost>>
-----------------------------------------------------------------------------
(* Faults and the world outside. *)

\* A database or source call fails, or the task's context ends: the task returns
\* an error.  A thumbnail that could not be validated is taken back.
Fail(t) ==
  /\ tasks[t].pc \notin {"idle", "delFiles", "old", "oldWalls"}
  /\ faults < MaxFaults
  /\ faults' = faults + 1
  /\ thumbs' = IF At(t, "recheck") THEN thumbs \ {Target(t)} ELSE thumbs
  /\ Return(t)
  /\ UNCHANGED <<source, rows, wallRows, wallFiles, lost>>

\* The process dies and starts again: the database and the files stay.
Crash ==
  /\ \E t \in Task : tasks[t] # Idle
  /\ faults < MaxFaults
  /\ faults' = faults + 1
  /\ tasks' = [t \in Task |-> Idle]
  /\ UNCHANGED <<source, index, lost>>

\* A file of the cache directory is lost.
Lose ==
  /\ lost < MaxLosses
  /\ lost' = lost + 1
  /\ \/ \E f \in thumbs : thumbs' = thumbs \ {f} /\ UNCHANGED wallFiles
     \/ \E f \in wallFiles : wallFiles' = wallFiles \ {f} /\ UNCHANGED thumbs
  /\ UNCHANGED <<source, rows, wallRows, tasks, faults>>

Overwrite(k) ==
  /\ k \notin Steady /\ ver[k] < MaxVersion
  /\ ver' = [ver EXCEPT ![k] = @ + 1]
  /\ present' = present \cup {k}
  /\ UNCHANGED <<index, tasks, faults, lost>>

Vanish(k) ==
  /\ k \in Vanishing \cap present
  /\ present' = present \ {k}
  /\ UNCHANGED <<ver, index, tasks, faults, lost>>

Reappear(k) ==
  /\ k \notin present
  /\ present' = present \cup {k}
  /\ UNCHANGED <<ver, index, tasks, faults, lost>>
-----------------------------------------------------------------------------
\* The steps of a task that holds its lock.
Work(t) == \/ Reread(t) \/ Stat(t) \/ Gone(t) \/ Compare(t) \/ Absent(t)
           \/ Entry(t) \/ EntryStat(t) \/ Lookup(t) \/ Validate(t) \/ Fetch(t) \/ Check(t)
           \/ Reject(t) \/ Pend(t) \/ Save(t) \/ Recheck(t) \/ Publish(t)
           \/ RemoveOld(t) \/ Walls(t) \/ Encode(t) \/ WallCheck(t)
           \/ ReplaceWallpapers(t) \/ OldWalls(t)
           \/ DelRow(t) \/ DelWalls(t) \/ DelFiles(t)

Start(t, k) == \/ StartListed(t, k) \/ StartSync(t, k) \/ StartThumbnail(t, k)
               \/ StartRemove(t, k) \/ \E v \in Versions : StartRetry(t, k, v)

Environment == \/ Crash \/ Lose
               \/ \E t \in Task : Fail(t)
               \/ \E k \in Key : Overwrite(k) \/ Vanish(k) \/ Reappear(k)

Next == \/ \E t \in Task : Peek(t) \/ Acquire(t) \/ Work(t) \/ \E k \in Key : Start(t, k)
        \/ Environment

Spec == Init /\ [][Next]_vars
-----------------------------------------------------------------------------
\* A photo the album shows has its thumbnail on the disk, whatever was
\* interrupted (process publishes after thumbCache.save; removeOld and remove
\* come after the row is changed).
UsableHasThumbnail == lost = 0 => \A k \in Key : Usable(k) => ThumbOf(k) \in thumbs

\* The types of index and files, and a thumbnail for whatever is shown.
IndexInv == TypeOK /\ UsableHasThumbnail

\* A wallpaper that is offered (its row matches a usable photo's version) has
\* its file on the disk.
OfferedWallpaperHasFile ==
  lost = 0 => \A k \in Key :
    Usable(k) /\ wallRows[rows[k].id] = rows[k].version => ThumbOf(k) \in wallFiles

\* A version is marked broken only if its own bytes are bad, and is usable only
\* if they are good: never by the bytes of another version.
VerdictIsOfTheVersion ==
  \A k \in Key : IsIndexed(k) /\ rows[k].version # 0 =>
    \/ rows[k].broken <=> rows[k].version \in BadVersions
    \/ k \in Rejected /\ rows[k].version = 1

\* The index never goes back to an earlier version of a photo: an old listing or
\* a slow task cannot overwrite what a later one published.
IndexNeverGoesBack ==
  [][\A k \in Key : IsIndexed(k) /\ IsIndexed(k)' => rows[k].version <= rows'[k].version]_vars

\* A photo whose source object stays as it is stays usable once it is, whatever
\* fails, crashes or is asked of it.
SteadyStaysUsable == [][\A k \in Steady : Usable(k) => Usable(k)']_vars

\* "process holds the photo lock": only the holder of a key's lock processes it.
ProcessHoldsLock ==
  \A t \in Task : Holds(t) => tasks[t].key = tasks[t].lock
=============================================================================
