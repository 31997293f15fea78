----------------------------- MODULE LibraryScan -----------------------------
(***************************************************************************)
(* The scanner (scan.go) on top of PhotoProcessing.  A scan lists every    *)
(* source, hands each listed object to a worker, waits for the workers and *)
(* then removes the rows that no listing showed.  Storage events, uploads  *)
(* and thumbnail requests go on meanwhile.  Together they make the index   *)
(* follow the sources: the only thing that repairs what a crash, a failed  *)
(* call or a missed event left behind is the next scan.                    *)
(***************************************************************************)
EXTENDS PhotoProcessing

CONSTANTS
  Worker,      \* the tasks that belong to the scanner's workers
  Source,      \* configured storages and the local photo directory
  Owner,       \* Owner[k]: the source a key belongs to
  MaxChanges   \* bound: changes of the sources' contents

ASSUME ScanConstants == /\ Worker \subseteq Task
                        /\ Owner \in [Key -> Source]
                        /\ MaxChanges \in Nat

VARIABLES
  scan,     \* the locals of scanner.walk
  changes   \* changes of the sources so far

scanVars == <<vars, scan, changes>>

Resting == [phase |-> "idle", todo |-> {}, keep |-> {}, failed |-> {}, before |-> 0, gone |-> {}]

ScanState == [phase : {"idle", "list", "clean"}, todo : SUBSET Key, keep : SUBSET Key,
              failed : SUBSET Source, before : 0..MaxId, gone : SUBSET (Key \X Row)]

ScanTypeOK == TypeOK /\ scan \in ScanState /\ changes \in 0..MaxChanges

ScanInit == Init /\ scan = Resting /\ changes = 0

Busy(op) == \E t \in Worker : tasks[t].op = op

\* The interval elapses or somebody asked for a scan (store.maxID is read first).
ScanBegin ==
  /\ scan.phase = "idle"
  /\ scan' = [Resting EXCEPT !.phase = "list", !.todo = Key, !.before = NextId - 1]
  /\ UNCHANGED <<vars, changes>>

\* The listing of a source shows an object: a worker slot is taken for it.
ListPresent(k, t) ==
  /\ scan.phase = "list" /\ k \in scan.todo
  /\ StartListed(t, k)
  /\ scan' = [scan EXCEPT !.todo = @ \ {k}, !.keep = @ \cup {k}]
  /\ UNCHANGED changes

ListAbsent(k) ==
  /\ scan.phase = "list" /\ k \in scan.todo \ present
  /\ scan' = [scan EXCEPT !.todo = @ \ {k}]
  /\ UNCHANGED <<vars, changes>>

\* The listing of a source breaks off; the other sources are still listed.
ListFails(s) ==
  /\ scan.phase = "list" /\ s \notin scan.failed
  /\ \E k \in scan.todo : Owner[k] = s
  /\ faults < MaxFaults
  /\ faults' = faults + 1
  /\ scan' = [scan EXCEPT !.failed = @ \cup {s}, !.todo = {k \in @ : Owner[k] # s}]
  /\ UNCHANGED <<source, index, tasks, lost, changes>>

Candidates(excused) ==
  {<<k, rows[k]>> : k \in {j \in Key : /\ IsIndexed(j) /\ rows[j].id <= scan.before
                                       /\ j \notin scan.keep /\ Owner[j] \notin excused}}

Collect(excused) ==
  /\ scan.phase = "list" /\ scan.todo = {} /\ ~Busy("listed")
  /\ scan' = [scan EXCEPT !.phase = "clean", !.gone = Candidates(excused)]
  /\ UNCHANGED <<vars, changes>>

\* Mutant: the rows of a source that could not be listed are candidates too.
MissingWithFailed == Collect({})

\* After the workers are done, the rows no listing showed are candidates
\* (store.missingPhotos).
Missing == Collect(scan.failed)

\* RemoveIfUnchanged, one candidate after the other.
Clean(k, t) ==
  /\ scan.phase = "clean" /\ ~Busy("remove")
  /\ \E r \in Row : /\ <<k, r>> \in scan.gone
                    /\ Begin(t, "remove", k, r.version, r.id)
                    /\ scan' = [scan EXCEPT !.gone = @ \ {<<k, r>>}]
  /\ UNCHANGED changes

ScanEnd ==
  /\ scan.phase = "clean" /\ scan.gone = {} /\ ~Busy("remove")
  /\ scan' = Resting
  /\ UNCHANGED <<vars, changes>>

Scan == \/ ScanBegin \/ Missing \/ ScanEnd
        \/ \E k \in Key : ListAbsent(k) \/ \E t \in Worker : ListPresent(k, t) \/ Clean(k, t)

\* Events, uploads, requests and recovery use goroutines of their own.
Others == \E t \in Task \ Worker, k \in Key :
            StartSync(t, k) \/ StartThumbnail(t, k) \/ \E v \in Versions : StartRetry(t, k, v)

SourceChange ==
  /\ changes < MaxChanges
  /\ \E k \in Key : Overwrite(k) \/ Vanish(k) \/ Reappear(k)
  /\ changes' = changes + 1
  /\ UNCHANGED scan

ScanNext ==
  \/ Scan
  \/ \E s \in Source : ListFails(s)
  \/ (Others \/ \E t \in Task : Peek(t) \/ Acquire(t) \/ Work(t) \/ Fail(t)) /\ UNCHANGED <<scan, changes>>
  \/ Lose /\ UNCHANGED <<scan, changes>>
  \/ Crash /\ scan' = Resting /\ UNCHANGED changes
  \/ SourceChange

ScanSpec == ScanInit /\ [][ScanNext]_scanVars

\* Goroutines run; a lock that is released again and again is granted in arrival
\* order; the scanner's loop scans at every interval.
ScanFairness == /\ WF_scanVars(Scan)
                /\ \A t \in Task : /\ WF_scanVars(Work(t) /\ UNCHANGED <<scan, changes>>)
                                   /\ WF_scanVars(Peek(t) /\ UNCHANGED <<scan, changes>>)
                                   /\ SF_scanVars(Acquire(t) /\ UNCHANGED <<scan, changes>>)

FairScanSpec == ScanSpec /\ ScanFairness
-----------------------------------------------------------------------------
UpToDate(k) ==
  IF k \in present
  THEN /\ rows[k].version = ver[k] /\ rows[k].broken = (ver[k] \in BadVersions)
       /\ Usable(k) => ThumbOf(k) \in thumbs
       /\ Usable(k) /\ k \in WallKeys =>
            wallRows[rows[k].id] = ver[k] /\ ThumbOf(k) \in wallFiles
  ELSE ~IsIndexed(k)

\* Once the sources stop changing and faults stop happening, the index comes to
\* show exactly what the sources hold, with every thumbnail and wallpaper in
\* place, and stays so: scans repair what crashes, failed calls and lost files left
\* behind, and a removal that took the files of the photo that got the freed id.
IndexConverges == <>[](\A k \in Key : UpToDate(k))

\* A scan never goes after a photo it saw, nor after one whose source it could
\* not list (an unmounted directory looks like one without files): neither the
\* candidates nor the removal in progress.
CleanupSparesUnlisted ==
  \A k \in Key :
    (\E r \in Row : <<k, r>> \in scan.gone) \/ (\E t \in Worker : tasks[t].op = "remove" /\ tasks[t].key = k)
      => Owner[k] \notin scan.failed /\ k \notin scan.keep

\* The types of the scan, and a cleanup within what was listed.
ScanInv == ScanTypeOK /\ CleanupSparesUnlisted
=============================================================================
