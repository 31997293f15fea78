---------------------------- MODULE BatchSharing ----------------------------
(***************************************************************************)
(* Sharing whole albums (batch_sharing.go, batch_store.go).  A task is     *)
(* prepared with the photos it covers and the permit generation seen for   *)
(* each, started, and run by a goroutine one photo after another: look at  *)
(* the photo, read its original, commit the permit and the result in one   *)
(* transaction.  The owner cancels and retries tasks, and shares or stops  *)
(* single photos meanwhile; photos change; requests arrive late or twice;  *)
(* the process dies and starts again.                                      *)
(*                                                                         *)
(* A permit is its token and generation (PhotoShares has the rest).  The   *)
(* version of a photo stands for its key and source version; a row id that *)
(* is used again has a new one.  Handlers and the commits of items run     *)
(* under batchAPI.mu, so each is one action.                               *)
(***************************************************************************)
EXTENDS Naturals, FiniteSets

CONSTANTS
  Batch,       \* task records
  Photo,       \* row ids, ordered as a task goes through them
  Runner,      \* goroutines of batchAPI.run
  MaxVersion,  \* bound: versions of a photo
  MaxGen,      \* bound: generations of a permit
  MaxToken,    \* bound: tokens drawn
  MaxRevision, \* bound: attempts of a task
  MaxFaults    \* bound: failed calls and restarts

ASSUME BatchConstants == /\ IsFiniteSet(Batch) /\ IsFiniteSet(Photo) /\ Photo \subseteq Nat
                         /\ MaxVersion \in Nat \ {0} /\ MaxGen \in Nat /\ MaxToken \in Nat
                         /\ MaxRevision \in Nat /\ MaxFaults \in Nat
                         /\ Cardinality(Batch) <= MaxGen  \* room for every task's own change

VARIABLES
  version,  \* version of each photo, 0 while it is not visible
  shares,   \* photo_shares: token (0 is NULL) and generation
  batches,  \* share_batches with their share_batch_items
  runners,  \* the locals of batchAPI.run and whether its context has ended
  latest,   \* the runner that batchAPI.cancel would end
  drawn, faults,
  unmarked  \* history: running attempts whose goroutine went and could not mark its task

vars == <<version, shares, batches, runners, latest, drawn, faults, unmarked>>

Statuses == {"none", "prepared", "running", "completed", "cancelled", "interrupted", "forgotten"}
\* "out" is a photo the task does not cover.  "at" is the generation of the
\* permit right after a success was committed; the code does not keep it.
NoItem == [status |-> "out", gen |-> 0, version |-> 0, token |-> 0, at |-> 0]
Item   == [status : {"out", "pending", "success", "failed"}, gen : 0..MaxGen,
           version : 0..MaxVersion, token : 0..MaxToken, at : 0..MaxGen]
NoBatch == [status |-> "none", mode |-> "open", revision |-> 0, items |-> [p \in Photo |-> NoItem]]
NoOne   == "nobody"
Resting == [pc |-> "none", batch |-> NoOne, revision |-> 0, photo |-> 0, mode |-> "open",
            gen |-> 0, version |-> 0, token |-> 0, error |-> "", cancelled |-> FALSE]

Share       == [token : 0..MaxToken, gen : 0..MaxGen]
BatchState  == [status : Statuses, mode : {"open", "stop"}, revision : 0..MaxRevision,
                items : [Photo -> Item]]
RunnerState == [pc : {"none", "next", "check", "read", "made", "commit", "leave"},
                batch : Batch \cup {NoOne}, revision : 0..MaxRevision,
                photo : Photo \cup {0}, mode : {"open", "stop"},
                gen : 0..MaxGen, version : 0..MaxVersion, token : 0..MaxToken,
                error : {"", "changed", "newer", "failed"}, cancelled : BOOLEAN]

BatchTypeOK ==
  /\ version \in [Photo -> 0..MaxVersion]
  /\ shares \in [Photo -> Share]
  /\ batches \in [Batch -> BatchState]
  /\ runners \in [Runner -> RunnerState]
  /\ latest \in Runner \cup {NoOne}
  /\ drawn \in 0..MaxToken /\ faults \in 0..MaxFaults
  /\ unmarked \subseteq Batch \X (0..MaxRevision)

Init ==
  /\ version = [p \in Photo |-> 1]
  /\ shares = [p \in Photo |-> [token |-> 0, gen |-> 0]]
  /\ batches = [b \in Batch |-> NoBatch]
  /\ runners = [r \in Runner |-> Resting]
  /\ latest = NoOne
  /\ drawn = 0 /\ faults = 0 /\ unmarked = {}
-----------------------------------------------------------------------------
Active(p) == shares[p].token # 0
\* Every task moves a permit on once at most: these generations are kept for
\* the tasks, so that the bound never stops a runner.
GenLeft(p) == shares[p].gen + Cardinality(Batch) < MaxGen
Retire(p) == /\ GenLeft(p)
             /\ shares' = [shares EXCEPT ![p] = [token |-> 0, gen |-> @.gen + 1]]
Draw == drawn < MaxToken /\ drawn' = drawn + 1

Status(b) == batches[b].status
Running(b) == Status(b) = "running"
SetStatus(b, s) == batches' = [batches EXCEPT ![b].status = s]
Fault == faults < MaxFaults /\ faults' = faults + 1

At(r, s) == runners[r].pc = s
Goto(r, s) == runners' = [runners EXCEPT ![r].pc = s]
\* The locals of the photo at hand end with the body of the loop.
GoOut(r, s) == runners' = [runners EXCEPT ![r] =
  [@ EXCEPT !.pc = s, !.photo = 0, !.mode = "open", !.gen = 0, !.version = 0, !.token = 0, !.error = ""]]
-----------------------------------------------------------------------------
(* Single photos: their owner and the index. *)

\* saveShare of a photo that is not shared.
ShareOne(p) ==
  /\ version[p] # 0 /\ ~Active(p) /\ GenLeft(p)
  /\ Draw
  /\ shares' = [shares EXCEPT ![p] = [token |-> drawn + 1, gen |-> @.gen + 1]]
  /\ UNCHANGED <<version, batches, runners, latest, faults, unmarked>>

StopOne(p) ==
  /\ Active(p) /\ Retire(p)
  /\ UNCHANGED <<version, batches, runners, latest, drawn, faults, unmarked>>

\* The photo changes, goes, or another one gets its id: the triggers end a
\* permit and move the generation on.
PhotoChanges(p) ==
  /\ \E v \in 0..MaxVersion : (v = 0 \/ v > version[p]) /\ v # version[p]
                              /\ version' = [version EXCEPT ![p] = v]
  /\ Retire(p)
  /\ UNCHANGED <<batches, runners, latest, drawn, faults, unmarked>>
-----------------------------------------------------------------------------
(* Handlers. *)

\* prepare: createBatch fixes the range and the generations.
Prepare(b, mode, chosen) ==
  /\ Status(b) = "none"
  /\ chosen # {} /\ \A p \in chosen : version[p] # 0
  /\ batches' = [batches EXCEPT ![b] =
       [status |-> "prepared", mode |-> mode, revision |-> 0,
        items |-> [p \in Photo |-> IF p \in chosen
                                   THEN [NoItem EXCEPT !.status = "pending", !.gen = shares[p].gen,
                                                       !.version = version[p]]
                                   ELSE NoItem]]]
  /\ UNCHANGED <<version, shares, runners, latest, drawn, faults, unmarked>>

\* cleanupBatches: an expired record, or one prepared task too many.  Its random
\* id is never drawn again.
Forget(b) ==
  /\ Status(b) \notin {"none", "running", "forgotten"}
  /\ batches' = [batches EXCEPT ![b] = [NoBatch EXCEPT !.status = "forgotten"]]
  /\ UNCHANGED <<version, shares, runners, latest, drawn, faults, unmarked>>

\* Mutant: failed items get the status of a task.
AgainPrepared(items) == [p \in Photo |-> IF items[p].status = "failed"
                                         THEN [items[p] EXCEPT !.status = "prepared", !.token = 0, !.at = 0]
                                         ELSE items[p]]

\* The results of an earlier attempt that are tried again.
Again(items) == [p \in Photo |-> IF items[p].status = "failed"
                                 THEN [items[p] EXCEPT !.status = "pending", !.token = 0, !.at = 0]
                                 ELSE items[p]]

\* Mutant: tasks are not kept from running beside each other.
AnyNumberRuns == TRUE

NoneRuns == \A c \in Batch : ~Running(c)

\* launch and beginBatchAttempt: a request names the revision it was shown, so
\* that a repeated one starts nothing.  The new goroutine gets a context of its
\* own, and the one before, which has ended or will, is released.
Launch(b, r, revision, retry) ==
  /\ batches[b].revision = revision
  /\ IF retry THEN Status(b) \in {"completed", "cancelled", "interrupted"}
              ELSE Status(b) = "prepared"
  /\ NoneRuns
  /\ batches[b].revision < MaxRevision
  /\ At(r, "none")
  /\ batches' = [batches EXCEPT ![b].status = "running", ![b].revision = @ + 1,
                                ![b].items = IF retry THEN Again(@) ELSE @]
  /\ runners' = [q \in Runner |->
       IF q = r THEN [Resting EXCEPT !.pc = "next", !.batch = b, !.revision = revision + 1]
       ELSE IF q = latest /\ ~At(q, "none") THEN [runners[q] EXCEPT !.cancelled = TRUE] ELSE runners[q]]
  /\ latest' = r
  /\ UNCHANGED <<version, shares, drawn, faults, unmarked>>

\* stop and cancelBatch.
Cancel(b, revision) ==
  /\ Running(b) /\ batches[b].revision = revision
  /\ SetStatus(b, "cancelled")
  /\ runners' = [q \in Runner |-> IF q = latest /\ ~At(q, "none")
                                  THEN [runners[q] EXCEPT !.cancelled = TRUE] ELSE runners[q]]
  /\ unmarked' = unmarked \ {<<b, revision>>}
  /\ UNCHANGED <<version, shares, latest, drawn, faults>>
-----------------------------------------------------------------------------
(* run: one photo after another. *)

Mine(r) == batches[runners[r].batch]
Owns(r) == Mine(r).status = "running" /\ Mine(r).revision = runners[r].revision
Attempt(r) == <<runners[r].batch, runners[r].revision>>
Pending(b) == {p \in Photo : batches[b].items[p].status = "pending"}
First(S) == CHOOSE p \in S : \A q \in S : p <= q

\* The runner keeps a copy of the item and the mode.
Take(r, p) ==
  runners' = [runners EXCEPT ![r].pc = "check", ![r].photo = p, ![r].mode = Mine(r).mode,
                ![r].gen = Mine(r).items[p].gen, ![r].version = Mine(r).items[p].version,
                ![r].error = "", ![r].token = 0]

\* nextBatchItem: the next pending photo; or the attempt completes; or it was
\* cancelled or replaced, and the goroutine goes.
NextItem(r) ==
  /\ At(r, "next")
  /\ LET b == runners[r].batch
     IN \/ /\ runners[r].cancelled \/ ~Owns(r)
           /\ Goto(r, "leave") /\ UNCHANGED batches
        \/ /\ ~runners[r].cancelled /\ Owns(r) /\ Pending(b) = {}
           /\ Goto(r, "leave") /\ SetStatus(b, "completed")
        \/ /\ ~runners[r].cancelled /\ Owns(r) /\ Pending(b) # {}
           /\ Take(r, First(Pending(b)))
           /\ UNCHANGED batches
  /\ UNCHANGED <<version, shares, latest, drawn, faults, unmarked>>

Made(r, e) == runners' = [runners EXCEPT ![r].pc = "made", ![r].error = e]

SameVersion(r) == version[runners[r].photo] = runners[r].version
SameGen(r) == shares[runners[r].photo].gen = runners[r].gen

\* prepareItem compares the photo and its permit with the task's; when the
\* database fails it, that is the result of the photo.
CheckItem(r) ==
  /\ At(r, "check")
  /\ \/ Made(r, "failed")
     \/ ~SameVersion(r) /\ Made(r, "changed")
     \/ SameVersion(r) /\ ~SameGen(r) /\ Made(r, "newer")
     \/ SameVersion(r) /\ SameGen(r)
        /\ IF runners[r].mode = "open" THEN Goto(r, "read") ELSE Made(r, "")
  /\ UNCHANGED <<version, shares, batches, latest, drawn, faults, unmarked>>

\* The original is read for a while; it may have changed or not be readable, or
\* the bytes are fine and a token is drawn.
ReadOriginal(r) ==
  /\ At(r, "read")
  /\ \/ Draw /\ runners' = [runners EXCEPT ![r].pc = "made", ![r].token = drawn + 1]
     \/ \E e \in {"changed", "failed"} : Made(r, e) /\ UNCHANGED drawn
  /\ UNCHANGED <<version, shares, batches, latest, faults, unmarked>>

\* The context is looked at once more, not yet under the lock.
Proceed(r) ==
  /\ At(r, "made")
  /\ IF runners[r].cancelled THEN GoOut(r, "leave") ELSE Goto(r, "commit")
  /\ UNCHANGED <<version, shares, batches, latest, drawn, faults, unmarked>>

\* The permit and the result change together.
Result(r, status, token, share) ==
  LET p == runners[r].photo IN
  /\ shares' = [shares EXCEPT ![p] = share]
  /\ batches' = [batches EXCEPT ![runners[r].batch].items[p] =
                   [@ EXCEPT !.status = status, !.token = token,
                            !.at = IF status = "success" THEN share.gen ELSE 0]]

\* Mutant: the permit is compared when the photo is looked at, and not again
\* when it is written.
ItemErrorOfCheck(r) == runners[r].error

\* batchItemCurrent says why the photo no longer belongs to the task.
ItemError(r) ==
  IF runners[r].error # "" THEN runners[r].error
  ELSE IF ~SameVersion(r) THEN "changed"
  ELSE IF ~SameGen(r) THEN "newer" ELSE ""

\* commitBatchItem of a photo that fails.  A source found changed also ends the
\* permit of the very generation the task knew.
CommitFailure(r) ==
  LET p == runners[r].photo
      swapped == ItemError(r) = "changed" /\ Active(p) /\ SameGen(r)
  IN /\ ItemError(r) # ""
     /\ Result(r, "failed", 0, IF swapped THEN [token |-> 0, gen |-> shares[p].gen + 1] ELSE shares[p])

\* Mutant: the result shows the token just drawn, also when the permit was kept.
CommitOpenShowsDrawn(r) ==
  LET p == runners[r].photo IN
  /\ ItemError(r) = "" /\ runners[r].mode = "open"
  /\ IF Active(p) THEN Result(r, "success", runners[r].token, shares[p])
     ELSE Result(r, "success", runners[r].token, [token |-> runners[r].token, gen |-> shares[p].gen + 1])

\* writeShare without convergence: a working permit is kept, or a new one made;
\* a permit of other bytes is ended.
CommitOpen(r) ==
  LET p == runners[r].photo IN
  /\ ItemError(r) = "" /\ runners[r].mode = "open"
  /\ \/ Active(p) /\ Result(r, "success", shares[p].token, shares[p])
     \/ Active(p) /\ Result(r, "failed", 0, [token |-> 0, gen |-> shares[p].gen + 1])
     \/ /\ ~Active(p)
        /\ Result(r, "success", runners[r].token, [token |-> runners[r].token, gen |-> shares[p].gen + 1])

\* writeStopShare: a photo that is not shared stays as it is.
CommitStop(r) ==
  LET p == runners[r].photo IN
  /\ ItemError(r) = "" /\ runners[r].mode = "stop"
  /\ IF Active(p)
     THEN Result(r, "success", 0, [token |-> 0, gen |-> shares[p].gen + 1])
     ELSE Result(r, "success", 0, shares[p])

CommitItem(r) == CommitFailure(r) \/ CommitOpen(r) \/ CommitStop(r)

\* Mutant: the commit does not look whether the attempt is still the task's.
CommitOrphan(r) ==
  /\ At(r, "commit")
  /\ GoOut(r, "next")
  /\ IF Mine(r).items[runners[r].photo].status = "pending" THEN CommitItem(r) ELSE UNCHANGED <<batches, shares>>
  /\ UNCHANGED <<version, latest, drawn, faults, unmarked>>

\* Unless the attempt has been cancelled or replaced, the photo is committed.
Commit(r) ==
  /\ At(r, "commit")
  /\ GoOut(r, "next")
  /\ IF Owns(r) THEN CommitItem(r) ELSE UNCHANGED <<batches, shares>>
  /\ UNCHANGED <<version, latest, drawn, faults, unmarked>>

\* The database fails, or the goroutine panics.
Break(r) ==
  /\ ~At(r, "none") /\ ~At(r, "leave")
  /\ Fault /\ GoOut(r, "leave")
  /\ UNCHANGED <<version, shares, batches, latest, drawn, unmarked>>

\* Mutant: the task is not marked when its goroutine goes.
LeaveQuietly(r) ==
  /\ At(r, "leave")
  /\ runners' = [runners EXCEPT ![r] = Resting]
  /\ UNCHANGED <<version, shares, batches, latest, drawn, faults, unmarked>>

\* The deferred interruptBatch: an attempt that has not finished is marked.  When
\* that fails too, which is only logged, the task stays running with nobody at it.
\* A failure before (Break) is what brings an unfinished attempt here.
Leave(r) ==
  /\ At(r, "leave")
  /\ \/ Owns(r) /\ SetStatus(runners[r].batch, "interrupted") /\ UNCHANGED unmarked
     \/ Owns(r) /\ unmarked' = unmarked \cup {Attempt(r)} /\ UNCHANGED batches
     \/ ~Owns(r) /\ UNCHANGED <<batches, unmarked>>
  /\ runners' = [runners EXCEPT ![r] = Resting]
  /\ UNCHANGED <<version, shares, latest, drawn, faults>>

\* Mutant: what was left running is not marked when the process starts.
RestartUnmarked ==
  /\ Fault
  /\ runners' = [r \in Runner |-> Resting]
  /\ latest' = NoOne
  /\ UNCHANGED <<version, shares, batches, drawn, unmarked>>

\* The process dies; interruptRunningBatches runs when it starts again.
Restart ==
  /\ Fault
  /\ batches' = [b \in Batch |-> IF Running(b) THEN [batches[b] EXCEPT !.status = "interrupted"]
                                               ELSE batches[b]]
  /\ runners' = [r \in Runner |-> Resting]
  /\ latest' = NoOne /\ unmarked' = {}
  /\ UNCHANGED <<version, shares, drawn>>
-----------------------------------------------------------------------------
Run(r) == NextItem(r) \/ CheckItem(r) \/ ReadOriginal(r) \/ Proceed(r) \/ Commit(r) \/ Leave(r)

Next ==
  \/ \E p \in Photo : ShareOne(p) \/ StopOne(p) \/ PhotoChanges(p)
  \/ \E b \in Batch :
       \/ \E mode \in {"open", "stop"}, chosen \in SUBSET Photo : Prepare(b, mode, chosen)
       \/ Forget(b)
       \/ \E n \in 0..MaxRevision : \/ Cancel(b, n)
                                    \/ \E r \in Runner, retry \in BOOLEAN : Launch(b, r, n, retry)
  \/ \E r \in Runner : Run(r) \/ Break(r)
  \/ Restart

Spec == Init /\ [][Next]_vars

\* The goroutine runs; reading an original ends by its deadline at the latest.
FairSpec == Spec /\ \A r \in Runner : WF_vars(Run(r))
-----------------------------------------------------------------------------
\* The task still runs by its record, but the database failed its goroutine first
\* and then the mark: it waits for its owner's cancel or the next start.
Stranded(b) == Running(b) /\ <<b, batches[b].revision>> \in unmarked

\* One task runs at a time, and the attempt it is in has exactly one goroutine
\* that can still commit, through cancels, retries, failures and restarts: the
\* mark that failed is the only way to lose it, and then nobody is at the task,
\* however late goroutines of older attempts are.
RunningHasItsRunner ==
  /\ \A b, c \in Batch : Running(b) /\ Running(c) => b = c
  /\ \A b \in Batch : Running(b) =>
       Cardinality({r \in Runner : ~At(r, "none") /\ Attempt(r) = <<b, batches[b].revision>>})
         = IF Stranded(b) THEN 0 ELSE 1

\* The types of the tasks, and the runner of the one that is running.
BatchInv == BatchTypeOK /\ RunningHasItsRunner

\* The result of a photo tells the truth about its permit, as long as nothing
\* newer has happened to it: neither a crash, a late runner nor a retry leaves a
\* permit that no result shows, or a result without its permit.
ResultMatchesPermit ==
  \A b \in Batch, p \in Photo :
    LET it == batches[b].items[p]
    IN it.status = "success" /\ shares[p].gen = it.at => shares[p].token = it.token

\* A batch never overrides a newer single-photo action or a change of the photo:
\* a runner only touches a permit of the generation and version that the owner
\* checked when the task was prepared.
NewerIntentWins ==
  [][\A r \in Runner, p \in Photo :
       At(r, "commit") /\ ~At(r, "commit")' /\ shares'[p] # shares[p] =>
         /\ SameGen(r)
         /\ shares'[p].token # 0 => SameVersion(r)]_vars

\* Once cancelled, finished or interrupted, a task changes no permit and no
\* result until its owner retries it, however late its goroutine gets there.
StoppedStaysStill ==
  [][\A b \in Batch : Status(b) \in {"completed", "cancelled", "interrupted"} =>
       /\ batches'[b].status = Status(b) => batches'[b].items = batches[b].items
       /\ \A r \in Runner : runners[r].batch = b /\ At(r, "commit") /\ ~At(r, "commit")' =>
            shares' = shares]_vars

\* A running task ends by itself or is marked, unless the database also fails the
\* mark: that is all that can leave it to its owner or to the next start.
RunningEnds == \A b \in Batch : Running(b) ~> ~Running(b) \/ Stranded(b)
=============================================================================
