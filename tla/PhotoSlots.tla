------------------------------ MODULE PhotoSlots ------------------------------
(***************************************************************************)
(* What a goroutine does while it holds the lock of a photo: process       *)
(* (photo_processing.go) spools the original to a temporary file under one *)
(* slot, and keeps it while it waits for the slots of the generation, all  *)
(* of them for a large JPEG (image_limits.go).  Both limits are semaphores *)
(* (golang.org/x/sync/semaphore) that serve their waiters in order.        *)
(***************************************************************************)
EXTENDS PhotoLocks, Sequences

CONSTANT Workers  \* values of the setting

ASSUME SlotConstants == Workers \subseteq Nat \ {0}

VARIABLES
  workers,    \* thumbCache.workers, the size of both semaphores
  stage,      \* where the holder of a lock stands in process
  need,       \* the generation slots its photo needs
  held,       \* those it has got
  spool,      \* thumbCache.spool: slots taken, goroutines waiting
  generation  \* thumbCache.generation

slotVars == <<workers, stage, need, held, spool, generation>>
pipeVars == <<vars, slotVars>>

Stage == {"none", "spoolWait", "reading", "genWait", "generating", "closing", "ended"}
Semaphore == [cur : 0..workers, line : Seq(Caller)]

SlotTypeOK == /\ workers \in Workers
              /\ stage \in [Caller -> Stage]
              /\ need \in [Caller -> {0, 1, workers}] /\ held \in [Caller -> 0..workers]
              /\ spool \in Semaphore /\ generation \in Semaphore

NoSlots == [cur |-> 0, line |-> <<>>]

PipeInit == /\ Init
            /\ workers \in Workers
            /\ stage = [c \in Caller |-> "none"]
            /\ need = [c \in Caller |-> 0] /\ held = [c \in Caller |-> 0]
            /\ spool = NoSlots /\ generation = NoSlots

At(c, s) == stage[c] = s
Go(c, s) == stage' = [stage EXCEPT ![c] = s]

\* Semaphores: whoever asks joins the line, its head leaves with what it asked for.
Join(sem, c)    == [sem EXCEPT !.line = Append(@, c)]
Served(sem, n)  == [cur |-> sem.cur + n, line |-> Tail(sem.line)]
IsNext(sem, c, n) == sem.line # <<>> /\ Head(sem.line) = c /\ sem.cur + n <= workers
Leaves(sem, c, new) == \E i \in DOMAIN sem.line :
  sem.line[i] = c /\ new = [sem EXCEPT !.line = SubSeq(@, 1, i - 1) \o SubSeq(@, i + 1, Len(@))]
Freed(sem, n)   == [sem EXCEPT !.cur = @ - n]
-----------------------------------------------------------------------------
\* process goes beyond what the index answers.
AskSpool(c) ==
  /\ pc[c] = "holding" /\ At(c, "none")
  /\ Go(c, "spoolWait") /\ spool' = Join(spool, c)
  /\ UNCHANGED <<need, held, generation>>

TakeSpool(c) ==
  /\ At(c, "spoolWait") /\ IsNext(spool, c, 1)
  /\ Go(c, "reading") /\ spool' = Served(spool, 1)
  /\ UNCHANGED <<need, held, generation>>

\* imageBudget: a JPEG above the normal limit takes all slots.
SlotsNeeded == {1, workers}

\* The original is read and its header decides what the generation needs.
AskGeneration(c) ==
  /\ At(c, "reading")
  /\ \E n \in SlotsNeeded : need' = [need EXCEPT ![c] = n]
  /\ Go(c, "genWait") /\ generation' = Join(generation, c)
  /\ UNCHANGED <<held, spool>>

\* Or the source is another one by now, cannot be read, or is no valid photo.
EndRead(c) ==
  /\ At(c, "reading")
  /\ Go(c, "closing")
  /\ UNCHANGED <<need, held, spool, generation>>

\* Mutant: a large photo passes with one slot.
TakeJustOne(c) ==
  /\ At(c, "genWait") /\ IsNext(generation, c, 1)
  /\ held' = [held EXCEPT ![c] = 1]
  /\ Go(c, "generating") /\ generation' = Served(generation, 1)
  /\ UNCHANGED <<need, spool>>

TakeGeneration(c) ==
  /\ At(c, "genWait") /\ IsNext(generation, c, need[c])
  /\ held' = [held EXCEPT ![c] = need[c]]
  /\ Go(c, "generating") /\ generation' = Served(generation, need[c])
  /\ UNCHANGED <<need, spool>>

\* Mutant: whoever gives up waiting for the generation keeps its spool slot.
LeaveKeepsSlot(c) ==
  /\ c \in done
  /\ \/ /\ At(c, "spoolWait") /\ Leaves(spool, c, spool')
        /\ UNCHANGED generation
     \/ /\ At(c, "genWait") /\ Leaves(generation, c, generation')
        /\ UNCHANGED spool
  /\ Go(c, "ended")
  /\ UNCHANGED <<need, held>>

\* Its context ends while it waits in a line.
LeaveLine(c) ==
  /\ c \in done
  /\ \/ /\ At(c, "spoolWait") /\ Go(c, "ended") /\ Leaves(spool, c, spool')
        /\ UNCHANGED generation
     \/ /\ At(c, "genWait") /\ Go(c, "closing") /\ Leaves(generation, c, generation')
        /\ UNCHANGED spool
  /\ UNCHANGED <<need, held>>

\* The deferred calls, the last one first: the generation slots go back, ...
EndGeneration(c) ==
  /\ At(c, "generating")
  /\ held' = [held EXCEPT ![c] = 0]
  /\ Go(c, "closing") /\ generation' = Freed(generation, held[c])
  /\ UNCHANGED <<need, spool>>

\* ... then the temporary file and its slot.
CloseSpool(c) ==
  /\ At(c, "closing")
  /\ Go(c, "ended") /\ spool' = Freed(spool, 1) /\ need' = [need EXCEPT ![c] = 0]
  /\ UNCHANGED <<held, generation>>

Process(c) == \/ AskSpool(c) \/ TakeSpool(c) \/ AskGeneration(c) \/ EndRead(c) \/ TakeGeneration(c)
              \/ LeaveLine(c) \/ EndGeneration(c) \/ CloseSpool(c)

\* The lock is the last to go, or process was not needed.
Unlock(c) == /\ Empty(c) /\ stage[c] \in {"none", "ended"}
             /\ Go(c, "none")
             /\ UNCHANGED <<workers, need, held, spool, generation>>

LockStep(c) == /\ \/ \E k \in Key, o \in Object : Enter(c, k, o)
                  \/ Pass(c) \/ GiveUp(c) \/ Confirm(c) \/ ReleaseRef(c) \/ Cancel(c) \/ NewCall(c)
               /\ UNCHANGED slotVars

PipeNext == \E c \in Caller : LockStep(c) \/ Unlock(c) \/ (Process(c) /\ UNCHANGED <<vars, workers>>)

PipeSpec == PipeInit /\ [][PipeNext]_pipeVars

\* Every goroutine keeps running: reading, decoding and encoding have time limits
\* of their own.  The runtime serves senders blocked on a channel in arrival order,
\* so the gate of a lock that empties again and again lets a given waiter through.
GoesOn(c) == \/ (GiveUp(c) \/ Confirm(c) \/ ReleaseRef(c)) /\ UNCHANGED slotVars
             \/ Unlock(c)
             \/ Process(c) /\ UNCHANGED <<vars, workers>>
PipeFairness == \A c \in Caller : /\ SF_pipeVars(Pass(c) /\ UNCHANGED slotVars)
                                  /\ WF_pipeVars(GoesOn(c))

FairPipeSpec == PipeSpec /\ PipeFairness
-----------------------------------------------------------------------------
\* While a JPEG above the normal limit is decoded, nothing else is: its pixels
\* take the memory of all generations.
LargeIsAlone ==
  \A c, d \in Caller : c # d /\ At(c, "generating") /\ At(d, "generating")
                         => need[c] < workers \/ workers = 1

\* Slots are only held by somebody who also holds the lock of a photo.
SlotsUnderLock == \A c \in Caller : stage[c] # "none" => pc[c] = "holding"

\* The slots taken are those of goroutines in process: none is lost on a way out.
Spooling     == {c \in Caller : stage[c] \in {"reading", "genWait", "generating", "closing"}}
Taken        == {x \in Caller \X (1..workers) : x[2] <= held[x[1]]}
SlotsCounted == spool.cur = Cardinality(Spooling) /\ generation.cur = Cardinality(Taken)

\* The slots of photo processing, together.
SlotInv == SlotTypeOK /\ SlotsUnderLock /\ SlotsCounted /\ LargeIsAlone

\* Whoever asks for the lock of a photo gets it and lets it go again, or leaves:
\* neither a lock, nor slots held by those who wait for more slots, nor a large
\* photo that needs all of them keeps anybody for good.
EveryCallerFinishes == \A c \in Caller : pc[c] # "idle" ~> pc[c] = "idle"
=============================================================================
