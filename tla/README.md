# A verification project for web_bijin

web_bijin is a self-hosted photo album: a Go server (`src/*.go`) over photos in
a local directory and in S3 storages, an SQLite index, a cache directory with
thumbnails and wallpapers, and a browser application (`src/frontend`). This
directory holds TLA+ models of its concurrent and stateful parts, TLC
configurations that check them on small instances, and TLAPS proofs.

`PROJECT.json` lists the components, the runs, one mutant per checked property
(a plausible bug that breaks the property), the source lines behind every
definition, the findings, the hazards and the theorems.

## The system

| Part (source) | State | Operations | Met by | Hard part | Correct means |
|---|---|---|---|---|---|
| Photo lock (`photo_processing.go:45-137`) | map key -> counted lock object, gate channel | lock, unlock, give up | everything that writes a photo | the object is dropped by its last user while others look it up | one holder per key; the map holds exactly the keys in use |
| Photo processing (`photo_processing.go`, `photo_recovery.go`, `thumb.go`, `store.go`, `wallpaper.go`) | table `photos`, thumbnail files, table `wallpapers`, wallpaper files | ApplyListed, SyncKey, Thumbnail, RemoveIfUnchanged, retryRejected | scan, events, uploads, requests | sources change under the read; database and files cannot change together; crashes and failed calls | shown photos have their thumbnail; no verdict of another version; nothing goes back; a photo that is there is never lost |
| Scanner (`scan.go`) | the listing in progress | list sources, apply, clean up | the loop, the status page | events work during the scan; a source that cannot be listed looks empty | the index converges to the sources; cleanup spares what it did not see |
| Storage notifications (`events.go`) | `pending` by key | receive, schedule, sync | S3 webhooks | folding, repetition, loss, late arrival, retries | no key is left quiet while out of date; one goroutine per key |
| Single-photo sharing (`sharing.go`, `share_store.go`) | table `photo_shares` with triggers, copy slots | get, create, stop, public media | browser, visitors | delayed requests; a permit that ends during a copy; in-place writers; reused row ids | a link shows what was granted, while it lasts, and never comes back |
| Batch sharing (`batch_sharing.go`, `batch_store.go`) | tables `share_batches`, `share_batch_items`, one goroutine per running task | prepare, start, retry, cancel, run | browser; the permits of single sharing | late goroutines of an older attempt, restarts, newer single-photo actions | one task runs; results tell the truth; a stopped task stays still; newer intent wins |
| Query caches (`query_cache.go`, `query_photos.go`) | revisions, cached values, cached orders | photoChanged, get, photoOrder | every read of the gallery | a load overlaps writes; the commit comes before the revision | what is shown is not older than the last acknowledged change |
| Organize receipts (`organize_receipts.go`, `frontend/lib/album-organizer.ts`) | receipts and their floor; the queue of each open page | apply, look up a receipt, prune; send, check, retry | browser | lost and late answers, pruning at the limit, clocks that differ or go back | each change applied once, in the page's order; the page tells the truth |
| Album and people tables (`organize.go`, `album.go`) | names, albums, assignments | rename, merge, delete, assign | organize receipts, scans | ids used again | no dangling links |
| Uploads (`upload.go`, `frontend/lib/upload-batch.ts`, `upload-http.ts`, `upload.ts`) | tasks with a phase, in memory; the rows of each open page | prepare, transfer to the directory or straight to a storage, verify, complete, retry; run, recover, stop | browser, storages, photo processing | phases change from several goroutines; answers are lost; a transfer lands after it was given up; restarts | "saved" is true; a photo is not refused because of itself; every row comes to a result that can be gone on with |
| Sign-in (`auth.go`, `totp.go`) | misses by address and the last code, both in memory only; signed cookies | attempt, sign out | browser | attempts at the same time, each with a clock it read earlier | a lockout lasts; a code is used once |
| Sources and storages (`source.go`, `storage.go`, `settings.go`) | the configured storages | reload, list, open, put | scan, processing, sharing | reload while operations run | operations use one consistent set |
| Image limits, geometry, orders (`image_limits.go`, `order.go`) | slots of spooling and generation | admission, fit, rank, cursor | processing, gallery | slots held while waiting for slots, weighted waits | no deadlock, no slot lost, a large JPEG alone |
| Recognizer, HTTP server, configuration, sample generator, frontend | one configuration row; otherwise none of interest | prompts, routing, files | all | formats | not a matter of state |

How they interact: scan workers, the goroutines of events and uploads,
thumbnail requests and the recovery of rejected photos all go through
`photoProcessor`, which serializes them per photo key with the photo lock. The
row changes it makes fire the triggers that end permits, and call
`photoChanged`, which advances the revisions of the caches. Batch sharing writes
the same permits as single sharing, in transactions that compare the permit
generation. The scan is the backstop: it repairs what lost notifications,
crashes and failures left behind.

## Modules

| Module | Models | Composes |
|---|---|---|
| `KeyedMutex` | abstract: one mutex per key, whose waiters may give up | |
| `PhotoLocks` | `photoProcessor.lock` | implements `KeyedMutex`; proofs in `PhotoLocksProofs` |
| `PhotoSlots` | what the holder of a lock waits for: spool and generation slots | extends `PhotoLocks`; proofs in `PhotoLocksProofs` |
| `PhotoProcessing` | the steps of all photo tasks between two effects | uses the lock as the mutex it is proved to be; proofs in `PhotoProcessingProofs` |
| `LibraryScan` | `scanner.walk` and its loop | extends `PhotoProcessing`; proofs in `PhotoProcessingProofs` |
| `SharePermits`, `PhotoShares` | abstract permits; the table, triggers and handlers | `PhotoShares` implements `SharePermits`; proofs in `PhotoSharesProofs` |
| `EventHub` | notifications and their goroutines | the sync of `PhotoProcessing` seen as look, work, done or failed; proofs in `EventHubProofs` |
| `QueryCache` | the caches | proofs in `LoginAndCacheProofs` |
| `BatchSharing` | the tasks over many permits | a permit seen as token and generation; proofs in `BatchSharingProofs` |
| `OrganizeReceipts` | the receipts and the pages' queues | proofs in `OrganizeReceiptsProofs` |
| `UploadTasks`, `UploadBatch` | tasks and handlers of the server; the page, the storage and everything between | `UploadBatch` extends `UploadTasks`; a saved photo goes to photo processing, seen as done or failed; proofs in `UploadBatchProofs` |
| `LoginGate` | attempts, lockouts, codes | proofs in `LoginAndCacheProofs` |

`MC*.tla` hold the symmetry sets and functions the configurations name.

### PhotoLocks

`keys` is the map, `users` the counter of each object, `gate` the channel (the
set of callers whose token is in it, at most one), `pc`, `want` and `ref` the
callers. `Enter` is the first critical section of `lock` (look up or create,
count), `Pass` and `GiveUp` are the two cases of its `select`, the admission
check after it, the returned function and `release` are the rest. `Lookup`
allows any garbage object as the new one, so the reuse of memory is included.

### PhotoSlots

What `process` waits for under the lock: `AskSpool`/`TakeSpool` are the spool
slot, `AskGeneration` is the end of the read with what `imageBudget` decided,
`TakeGeneration` the slots of the generation, `EndRead` every way out before it,
`LeaveLine` a context that ends while waiting, `EndGeneration`, `CloseSpool` and
`Unlock` the deferred calls in the order they run. Both semaphores keep a line and
serve its head only, as the library does, so that a large photo at the head makes
all others wait. `PipeNext` runs this together with the steps of the lock.

### PhotoProcessing

Every task has the locals of the Go functions it runs (`key`, `obj` the listed
object version, `data` the version of the bytes read, `id`, `old`, ...) and a
`pc`. One action stands for one call with an effect or an answer others can
change: peek at the row, lock, re-read, stat, look up, fetch, read, validate,
insert pending, save thumbnail, validate again, publish, remove the old
thumbnail, encode wallpapers, validate, replace their rows, remove old files,
delete the row, its wallpapers, its files. `Fail` is an error at any step that
can return one (with the deferred cleanup), `Crash` stops all tasks, `Lose`
takes a file out of the cache directory. Sources overwrite, vanish and reappear
unchanged. The version of an object stands for its modification time and size;
that a writer may change bytes under the same version is modelled in
`PhotoShares`, where the digest matters.

### LibraryScan

`ScanBegin` reads the largest id, `ListPresent`/`ListAbsent` are the listing
(present objects are handed to a worker), `ListFails` is an error of one source,
`Missing` collects the cleanup candidates once the workers are done, `Clean`
removes one by one, `ScanEnd` waits for the next interval. A crash forgets the
scan.

### PhotoShares

A request is formed with the version and generation its page showed, arrives
later (or after a restart, or twice), takes a slot, opens, copies and confirms
the original, and saves or is refused. Triggers are part of the actions that
change the photo row (`Publish`, `PublishBroken`, `Delete`, `Insert`). The
refinement maps the active row of `photo_shares` to `permit`, the tokens saved
to `used`, and what visitors got to `served`.

### EventHub

`pending[k]` is the map entry and its boolean; `gos` are the goroutines.
`Fold`/`Begin` are the two cases of `schedule`, `Look`/`Apply`/`Fail`/`Retry`
the passes of `sync`, `Settle` the critical section that repeats or deletes.
`excused` records keys whose notification was lost, whose pass gave up or whose
process stopped: those wait for the scan.

### QueryCache

`log` holds all states of the photos table, so that a read can be compared with
the states since it began. A write commits first and advances each revision in
a step of its own, in the order of `photoChanged` (a share or a stop moves on the
revision of the shared photos only); a reader peeks, takes
`buildMu`, peeks again, loads, compares and stores.

### BatchSharing

Handlers run under `batchAPI.mu` and are one action each (`Prepare`, `Launch`
for start and retry, `Cancel`, `Forget` for the limit on prepared tasks). The
goroutine looks at an item, reads the original, proceeds and commits permit and
result in one transaction; `Owns` is the SQL condition on status and revision.
`Break` is a database error or a panic at any of these steps, after which the
goroutine comes to `Leave`, the deferred `interruptBatch`. That call may fail as
well, and the code only logs it (`batch_sharing.go:226`): the history variable
`unmarked` has the running attempts for which it did.

### OrganizeReceipts

One action is one outcome of the server's transaction for a call (`AnswerAgain`,
`RefuseTime`, `RefuseExpired`, `Apply`, `Refuse`, `Fail`). The handler reads the
clock before it waits for the connection to the database, so a call carries the
times the clock has shown since it was sent and the transaction uses any of them.
`Prune` cuts at the age or at the first receipt beyond the limit; the limit on
the bytes of all results makes the number that fits any number up to the limit.
A page sends the change at the head of its queue (`Send`, which draws the id
once), and takes the answer (`Receive`), gives up on it (`GiveUp`), looks for the
receipt (`Lookup`) or sends the change again (`Retry`). Ids hold the browser's
time, which may be any. What a change does to the names is left out.

### UploadTasks and UploadBatch

All tasks are for one path, the case in which they meet. `tasks` is the table and
the tasks handlers still point to (`listed` is membership); `original` is the file
or object at the path and the task that wrote it, which a storage keeps as
metadata. A request is a record of `reqs` that goes through the critical sections
of its handler: `Claim`, `Link`, `Linked` for a local transfer; `LookAtTask`,
`StatObject`, `ActOnFinding` for `verifySaved`, where the task may change between
the three; `LookBeforeRetry` and `RetryStarts`. `Land` is a direct transfer in the
storage. A request goes on when its page stopped waiting (`live` is false), also
after a stop or a time limit. `RoutineEnds` is the goroutine of `start`.

A row has the fields of `Row` and the locals of `run`: `step` is the call it makes
next, `recovering` is `recoveryAttempted`. `FirstStep` is `run` up to its first
call, `Finish`, `ShowTask`, `Recover`, `Failed`, `Verified`, `Stopped` are the
functions of those names (`Failed` is the catch), `Send` and `SendFails` are a call
that goes out or does not, `GiveUp` one that is not answered. `old` in `FirstStep`
is the age of a signed link, any, as the clock of the browser is. `Restart` forgets
the tasks and breaks every connection except a direct transfer's.

### LoginGate

`Ask` reads the clocks, `RefuseLocked`, `RefuseWrong` and `Accept` are the three
outcomes of the critical section of `attempt`, in any order of the attempts under
way. `fails` has an entry for every address, `NoFails` where the map has none.
`Restart` empties table and last step, which are in memory only; what is said of
lockouts and codes is therefore said of one process.

## Runs

| Run | Instance | Shows |
|---|---|---|
| `locks` | 3 callers, 2 keys, 2 objects, 1 or 2 slots of each kind | exclusion, exact map, the inductive invariant, refinement of `KeyedMutex`; slots are counted and held under a lock only, a large photo is alone; under fairness every caller comes to an end |
| `processing` | 2 tasks, 2 keys (one steady, one that vanishes, has wallpapers and was rejected by an older program), 3 versions of which the last is bad, 2 ids, 1 fault, 1 lost file | thumbnails and wallpapers match the index, verdicts are of the version, no going back, steady photos stay (`IndexInv` holds `TypeOK` and `UsableHasThumbnail`) |
| `processing_id_reuse` | 2 keys, 3 ids | finding: see below |
| `processing_wrong_lock` | 2 keys, 3 ids | finding: see below |
| `scan` | a scan worker and another task, 2 keys in 2 sources, one indexed that may vanish and one that is new, both with wallpapers, 1 change, 2 ids, 1 fault, 1 lost file | the index converges, also when the new photo gets the freed id and loses its thumbnail to the removal of the other; cleanup spares what was not listed |
| `shares` | 1 row id, 2 requests, 2 contents, 1 new version or repointed storage, 2 tokens, 3 generations | permits match the index; delayed requests are refused; refinement of `SharePermits` |
| `hub` | 2 keys, 2 goroutines, 2 changes each, 2 faults, 2 tries | folding loses nothing; one goroutine per key; passes end and changes arrive |
| `cache` | 2 photos, 2 albums, 2 readers, 2 writes, 2 reads, 1 failed load | reads are current; orders fit their index |
| `batch` | 2 tasks over one photo, 2 goroutines, 2 attempts, 2 tokens, 1 failed call or restart | one task runs, with one goroutine unless its mark failed; results are true; stopped tasks stay still; newer intent wins |
| `organize` | 2 pages with 2 and 1 changes, 2 moments, receipts valid for 1, limit 1, 1 retry, the clock set back once | each change applied at most once; a missing receipt is the truth; what is saved was applied; later changes wait; a refusal has no effect |
| `batch_live` | 1 task over 2 photos, 2 attempts, 1 fault or restart | a running task ends or is marked, unless the mark fails too |
| `uploads` | 1 row, local or S3, 2 tasks, 2 requests at once, table limit 2, 1 restart or file of another program | "saved" is true; a photo is not skipped because of itself; rows rest settled; each task in processing has its goroutine; rows come to rest |

Why the bounds are enough. The races in this code are between two actors over
one photo: two tasks, two requests, two goroutines. A third caller is only
needed in the lock (one inside, one waiting, one that creates the next object)
and is there. Two versions tell "old" from "new" (a third one, which is bad,
shows what is read when a good one is replaced), as many ids as keys make every
id that is freed the next one used, one fault at any step covers each recovery path, and scans
after it are unlimited. Two generations of permits and two tokens make a link
that ended and its successor; three generations let a delayed request see a
stop and a new share. Two attempts are one retry. In `batch` the one fault is a failed call or a restart; the
mark of an attempt that ends unfinished may fail besides, without a bound of its own. In `scan` the
photo that vanishes holds the only id, so the one freed is the one the new photo gets next. Two notifications of a key
while it is synced are one that folds and one that folds into a pass already
marked. `Attempts` is 3 in the code; 2 keeps one retry and one giving up. With a
limit of one receipt the second change prunes the first one's, while the first
one's page is in doubt or its second call is under way.

Two objects are enough for two keys, since an object that was dropped is handed out
again. With one slot the holders of two locks meet in the spool line; with two
they both get there and a large photo of one of them needs what the other holds.
Uploads: the second task is the one prepared after a failed transfer of the first,
the second request is the one sent while an abandoned one is still at work, or the
verification that overtakes a transfer. A second row for the path would be another
program's file for this one, which `Elsewhere` adds. The limit of two tasks makes
`MakeRoom` drop one that is finished. With one disturbance every step of a row meets
a restart, a foreign file or a file that was removed. A foreign file that comes and
goes again takes two: TLC finds no violation there either (2.6 million states), which
takes too long for a run of this project, and the theorems hold for any number.

Each `...Inv` of a run is the type invariant of its module with the small
invariants it needs next to it: `IndexInv`, `ScanInv`, `PermitInv`, `HubInv`,
`CacheInv`, `BatchInv`, `SlotInv`, `UploadInv`.

Symmetry is used over tasks, requests, readers and goroutines in runs without
liveness. `CHECK_DEADLOCK FALSE` is set for the hub, the caches, the batches, the
receipts and the uploads:
all changes done and nothing under way is a legal end there.

`UsableHasThumbnail` holds in `processing` because the key whose id can be freed
can only be taken again by the same key, under the lock of that key: the steady
key keeps its row. In `processing_id_reuse` another key can take it.

### Fairness

* `PhotoSlots`: a caller that holds goes on, reads, decodes and lets go (weak
  fairness; reading and decoding have time limits). The gate is a Go channel, whose
  waiting senders are served in arrival order, hence strong fairness of passing.
  The semaphores need none: their lines are in the model.
* `LibraryScan`: goroutines run (weak), the lock is fair (strong, from the
  above), and the loop scans at every interval (weak fairness of the scan's own
  steps). Nothing is assumed of events, uploads or requests.
* `EventHub`: a notification that is not lost is delivered, and goroutines run;
  the retries are the timers of `sync`.
* `BatchSharing`: the goroutine runs, and reading an original ends by the
  deadline the code sets.

* `UploadBatch`: only the page's own time limits, 30 seconds a call, 15 minutes a
  transfer, 2 minutes of polling, by one weak fairness per row; the server may
  never answer.

Faults, changes and crashes are never fair: they may happen, up to their bound.

## Findings

* `processing_id_reuse` (`photo_processing.go:368`). `remove` deletes the row and
  then every file named after its id, under the lock of the removed key only.
  The `photos` table has no AUTOINCREMENT, so the largest id is handed out again
  at once: another photo inserted between the two steps gets the id, saves and
  publishes its thumbnail, and loses it to the late removal. A shown photo has
  no thumbnail until it is asked for or scanned again. The run `scan` has this case
  too (one photo vanishes, the other one gets its id), and `IndexConverges` shows
  that it is repaired.
* `processing_wrong_lock` (`photo_processing.go:318`). `Thumbnail` locks the key
  of the row it read before the lock and then processes the row it finds under
  it; after an id was used again that is another key, whose lock it does not
  hold, against the comment on `process`.

## Proofs

Each component has an inductive invariant of its own, the strengthening of what the
runs check, and its proof module one lemma per action. Most lemmas are of one shape: a step of one actor that keeps what the others rely on (`StageStep`,
`OwnStep`, `QuieterStep`, `RequestGoesOn`), so that the proof of an action only
shows what that action does. Every inductive invariant was also checked by TLC on
small instances before it was proved.

### PhotoLocksProofs

For every finite set of callers, every set of keys, objects and numbers of slots
(assumptions `LockConstants`, `SlotConstants`):

* `LocksInvariant`: `Spec => []LockInv`
* `LocksExclude`: `Spec => []MutualExclusion`
* `LocksMapExact`: `Spec => []MapHoldsKeysInUse`
* `LocksRefine`: `Spec => ImplementsKeyedMutex`
* `SlotsKeepTheLocks`: `PipeSpec => Spec`
* `SlotsAlwaysCounted`: `PipeSpec => []SlotInv`

Mutual exclusion is not inductive: nothing in it says that two callers who
counted themselves on a key's object counted on the same object. `LockInv` adds
that every caller in progress refers to the object the map has for its key
(`Registered`), that an object serves one key, that its counter is the number of
callers that refer to it (`UsersCounted`, by lemmas on cardinality), that no
entry is without a user, and that a token in a gate is of a caller inside. Then
two callers inside with one key share an object, hence a gate, which holds one
token. The refinement maps a caller to the owner of its key while it is inside.

`SlotsKeepTheLocks` carries all of this over to `PhotoSlots`, whose own steps take
no step of the lock. `SlotIInv` adds to `SlotInv` that a goroutine holds what it
needs exactly while it generates (`SlotsHeld`). The slots taken are the pairs of a
goroutine and a number up to what it holds (`Taken`), so that taking and giving
back are unions and differences of finite sets; a large photo and any other one at
the same time would be more pairs than there are slots.

### PhotoProcessingProofs

For every set of tasks, keys, versions, rejected photos and bounds (assumption
`ProcessingConstants`):

* `ProcessingTyped`: `Spec => []VerdictInv`
* `VerdictsAreTrue`: `Spec => []VerdictIsOfTheVersion`
* `CleanupStaysWithinTheListing`: `ScanSpec => []ScanInv` (`LibraryScan`)
* under `Spec /\ [][OwnIds]_vars`: `ProcessingSound` (`[]ProcInv`),
  `ProcessingIsUnderItsLock` (`[]ProcessHoldsLock`), `ShownPhotosHaveThumbnails`
  (`[]IndexInv`), `OfferedWallpapersHaveFiles` (`[]OfferedWallpaperHasFile`),
  `VersionsOnlyGrow` (`IndexNeverGoesBack`), `SteadyPhotosStay` (`SteadyStaysUsable`)

The verdict of a version needs no condition: a task past its first checks works on
a version the source has had, its bytes are checked to be of that version before
anything is concluded from them (`JudgeSound`), and a row is never ahead of its
source (`RowSound`).

The rest does not hold of the code as it is, which is what `processing_id_reuse` and
`processing_wrong_lock` show. `OwnIds` says that a new row does not get an id that a
task of another photo still remembers. SQLite without AUTOINCREMENT does not keep
it, since it hands out the largest id again; ids that are never used again would.
The theorems say that this is the only cause of the two findings: under `OwnIds`,
for any number of tasks, through all faults and crashes, process works under the
lock of its key and no file is lost. The run `processing` is an instance of the
condition, its one freed id being taken by the key that had it. `ProcInv` adds to
`VerdictInv` that photos are kept apart by locks and ids (`Apart`), that what a
holder has read of its row stays true until it acts on it (`Progress`), which files
there are for which row (`FilesKept`), and that a steady source stays.

A cleanup spares what was not listed because nothing is cleaned up before the
listings are over (`ListingFirst`), and the candidates leave out every key that was
seen and every key of a source that failed.

### PhotoSharesProofs

For all photos, requests and contents and any bounds (assumption `ShareConstants`):

* `SharesAlwaysSound`: `Spec => []ShareIInv`
* `PermitsMatchTheIndex`: `Spec => []PermitInv`
* `DelayedShareNeverUndoesAnEnd`: `Spec => DelayedShareIsRefused`
* `SharesImplementPermits`: `Spec => ImplementsSharePermits`

That a delayed request is refused rests on `GenTells`: the generation of a request
is not above the present one, and when it is the present one, or the present permit
came right after it, no permit has ended since the request was formed. So the single
comparison in `writeShare` decides. The refinement needs `HoldsPermit`: a visitor's
request holds a token that was granted, with the bytes of its permit, and gets to its
last check only with these. Tokens are granted once (`TokensAreFresh`).

### EventHubProofs

For all keys, goroutines, numbers of changes, faults and tries (`HubConstants`):

* `HubAlwaysSound`: `Spec => []HubIInv`
* `OneRoutineAtATime`: `Spec => []HubInv`
* `FoldingLosesNothing`: `Spec => []QuietKeyIsShown`

A quiet key shows its source because of what is true before it gets quiet
(`LastPassSeesAll`): a pass with no other pass ahead, no notification on its way and
nothing excused works on the source as it is, since a change after its look has
either been folded in, which makes another pass, or is on its way.

### BatchSharingProofs

For every finite set of tasks and photos, all goroutines, attempts, faults, versions
and tokens (`BatchConstants`):

* `BatchesAlwaysSound`: `Spec => []BatchIInv`
* `OneTaskOneRunner`: `Spec => []BatchInv`
* `ResultsTellTheTruth`: `Spec => []ResultMatchesPermit`
* `NewerIntentAlwaysWins`: `Spec => NewerIntentWins`
* `EndedTasksStayStill`: `Spec => StoppedStaysStill`

One goroutine per running attempt needs `Attempts`: a goroutine's attempt is never
ahead of its task's, no two goroutines are of the same one, and the running attempt
has one, or none when it is in `unmarked`, which it gets into only as its goroutine
goes. A start raises the attempt, so whoever is left of older ones can never own
the task again. Results stay true because generations never fall (`ItemSound`) and a
runner's copy of an item has the generation of the item itself (`CopySound`).
`GenKept` shows that the bound on generations stops no runner: a task moves a permit
on once at most, as the new generation is one that no task has seen.

### UploadBatchProofs

For any rows, finite sets of tasks and requests, any limit of the table and any number of
disturbances (`UploadConstants`, `BatchConstants`):

* `UploadsAlwaysSound`: `Spec => []UploadIInv`
* `ProcessingIsAlwaysWorkedOn`: `Spec => []UploadInv`
* `SavedIsAlwaysStored`: `Spec => []SavedIsStored`
* `RestingRowsAreSettled`: `Spec => []RestingRowIsSettled`
* `HeldOriginalsStayKnown`: `Spec => []OwnSound`
* `OwnPhotosAreNotSkipped`: `Spec => OwnIsNotSkipped`

The types are the deep part here: how many goroutines one task can have is bounded
only because each verification that still acts on an old look at the task
(`Looking`) can fail a saved task once and let it be retried (`RoutinesBounded`).
`TaskSound` ties phase, goroutines and the original together; `PlaceSound` says what
is known of a task at each step of a request; `RequestsApart` that a row waits for
one request and a task is written by one; `RowShape` what a row may do next.

That a photo is not skipped for its own original needs to know, at every step, for
whom the file or object at the path is. `OwnSound` is about rows that hold it
(`Held`: the original is of a task prepared for the row, or the local transfer of
that task is at work, and no request the row gave up took effect later). Such a row
keeps its task and does not prepare another one unless it was blocked (`HoldsOn`),
the task will not be called skipped or sent again (`Fit`), and no verification that
the row waits for is about to report the original missing or another's
(`AmissSound`). A row gets there only by a transfer it waits for, which it sends
with a task that is fit (`FitToTransfer`), not believing the original absent
(`RowKnows`); in the directory the task itself remembers that it wrote
(`LocalSound`). Most steps bring no original and begin no task (`Calm`); for these
one lemma, `CalmKeeps`, says what is left to show of the row of the step.

The proof found what the bound of one disturbance had hidden, in two places. A
verification whose page has given it up can act on a `Stat` that found a stranger's
object after that object was removed and the row's own was put in its place: it
marks the task as skipped (`upload.go:450-456`). `late` therefore also has the rows
for which that happened. And a link of a direct transfer that is too old stays too
old; the model drops the plan together with the age it does not keep
(`upload-batch.ts:146`).

### OrganizeReceiptsProofs

For every finite set of pages and every number of changes, times, retries and
receipts (assumption `ReceiptConstants`):

* `ReceiptsInvariant`: `Spec => []ReceiptInv`
* `ChangesApplyOnce`: `Spec => []AppliedAtMostOnce`
* `MissingIsTrue`: `Spec => []MissingMeansNotApplied`
* `SavedIsApplied`: `Spec => []ConfirmedIsApplied`
* `PagesInvariant`: `Spec => []PagesInv`
* `ReceiptsTypeOK`: `Spec => []TypeOK`
* `ChangesKeepTheirOrder`: `Spec => []LaterChangesWait`
* `RefusedStaysRefused`: `Spec => []RefusedHasNoEffect`

At most once is not inductive: what keeps a change from being applied again is
its receipt, and that is pruned. `ReceiptInv` says that a change that was applied
has its receipt or an id not above the floor (`AppliedHasReceipt`); that an id is
drawn before the first call and stays (`CallsHaveIds`), so no later draw can
escape the floor; that receipts are of applied changes; and that an "ok" on its
way to a page, or a change a page called saved, was applied. Pruning keeps the
first part because whatever it deletes is not above its cut, and the floor never
falls; the clock appears nowhere in this invariant, which is why it may go back.

`PagesInv` adds the order: a change behind the head of its page's queue has left no
trace on the server (`PagesInOrder`). A refusal of a change that was called once and
in time (`RefusedFor`) means that nothing of it is under way any more and that it was
not applied (`RefusedSound`).

### LoginAndCacheProofs

For all photos, albums, requests and bounds (`CacheConstants`):

* `CachesInductive`: `Spec => []CacheIInv`
* `PagesFitTheirIndex`: `Spec => []CacheInv`
* `ReadsStayCurrent`: `Spec => []ReadsAreCurrent`

A commit comes before its revisions, and `photoChanged` leaves some revisions alone, so
a revision does not name one state of the table. `Serves` says what a value under a
revision is instead: the projection of a state that has every change the present
revision tells of (`Covers`: the acknowledged writes, and those under way that have
already advanced this kind) and is no older than any read that still asks for that
revision. A write keeps this because what it leaves a revision alone for does not
change the projection (`SameRow`); a load has it because it reads the present state.

`OneEach`, that equal snapshot numbers mean equal values, ranges over all copies of
values: in the hands of readers, in the cache and as orders. The index numbers by
loads, so a new number is larger than all in use (`LoadsNumber`). The shared photos
number by the revision, and there it needs the whole protocol: a value numbered with
the present revision is in the cache or in the hands of the one who holds `buildMu`
(`RevisionsNumber`), so nobody can load a second one (`LocksBuild`). `Counted` bounds the
revisions by the writes and the loads by the reads.

In the same module, for all addresses, attempts and times of signing in (no
assumptions), through the instance `Gate` of `LoginGate`:

* `GateInvariant`: `Gate!Spec => []Gate!GateInv`
* `CodesWorkOnce`: `Gate!Spec => []Gate!CodeWorksOnce`
* `LockoutsLast`: `Gate!Spec => Gate!LockoutLasts`

That no two accepted attempts have the same code needs that the last step is not
older than any accepted one (`StepIsNewest`). That a lockout is not ended early by
an attempt of an earlier time, or by the cleanup another address causes, needs that
the time of an attempt under way is not after the clock (`TimesArePast`). Times and
codes range over all numbers, so `LoginGate` has no run. An attempt that read its
time before the last miss may set the time of that miss back (`now` is read before
`mu` is taken); the lockout then counts from the attempt that was decided last.

### Assumptions on the constants

All are evaluated by the runs. Beyond types and finiteness they say:

* `LockConstants`, `HubConstants`: the values that stand for "none" are not among the
  others (an empty path is no key, and so on); `CacheConstants`: `buildMu` being
  free is not one of the readers; `UploadConstants`: task ids are not
  the marks for no task and for tasks of nobody's or a stranger's page;
* `ProcessingConstants`: an older program's rejections are of rows it had indexed,
  and if the contents they have cannot be decoded, none of them is usable;
* `BatchConstants`: the bound on generations has room for one change by each task.

## Only model-checked

* Liveness (`EveryCallerFinishes`, `IndexConverges`, `PassesEnd`, `ChangesArrive`,
  `RunningEnds`, `RowsComeToRest`): TLAPS does not prove liveness under fairness.

Every invariant and every action property of a passing run is proved.

## What the exceptions are

`RefusedHasNoEffect` has two exceptions, both of the code: a page that sends a
change again while its first call is still under way may be told a refusal of
one and have the other applied; and a server clock that was set back refuses an
id as too far ahead before it looks for its receipt
(`organize_receipts.go:140`).

`OwnIsNotSkipped` has one exception, `late`: a request that takes effect after its
page gave it up. For a verification see the proofs above. After a transfer the page may have been told that the original is absent, and
the next attempt finds the page's own file. In the directory this takes a first look
that finds the task waiting, the transfer claiming it, and the second look of the
same verification, at which the page drops its plan (`upload.go:466-483`,
`upload-batch.ts:133`); in a storage, a transfer under way that lands after the
`Stat`. The file is in place and the row says skipped.

`BatchInv` and `RunningEnds` have one exception, `Stranded`: a database failure first
ends the goroutine of a task and then also fails the mark of `interruptBatch`, which
is only logged (`batch_sharing.go:226-228`). The task then keeps running by its
record with nobody at it, and no other task starts, until its owner cancels it or
the process starts again (`interruptRunningBatches`).

`SavedIsStored` says nothing of the phase: a verification that acts on an old `Stat`
may write `error` over the phase of a photo that was saved meanwhile
(`upload.go:459`); `saved` stays, and so does the goroutine.

## Not modelled

* The people tables: a change is one transaction whose order and single effect are
  in `OrganizeReceipts`; inside it SQL constraints do the work. Ids of names are used
  again after a deletion and the code does not tell the two names apart, so there is
  no property of a delayed rename to state.
* Sources and storages: the set of storages is replaced as a whole, an operation
  keeps the one it began with. Changes of storages are in `PhotoShares`.
* The arithmetic of pixels, sizes, ranks and cursors.
* Uploads: the queue of the page (four rows at a time, holds while the browser asks
  whether to leave), selecting and removing rows, checks of paths, the reasons why
  a transfer fails, an answer that cannot be read. Sign-in: cookies, redirects.
* In modelled parts: pixels, formats and decoding (a set of bad versions), the
  texts of states and errors, HTTP formats, the two read-only handlers of batch
  sharing, the parsing of webhooks and the match of a bucket to a storage, cache
  entries larger than a cache.
* Recognizer, HTTP routing, configuration, the sample generator and the
  frontend outside the organize and upload pages: they keep no state that steps interleave
  on. What the frontend sends is modelled as values seen earlier and sent late.
* SQLite, the file system, S3 and Go channels are external: transactions are
  atomic, a rename is atomic, calls may fail.
