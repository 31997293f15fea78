------------------------- MODULE BatchSharingProofs -------------------------
(***************************************************************************)
(* Proofs about BatchSharing, for any number of tasks, photos, goroutines, *)
(* attempts and faults: one task runs, with one goroutine that can still   *)
(* commit; results tell the truth about permits; newer single-photo        *)
(* actions win; a task that has stopped stays still.                       *)
(***************************************************************************)
EXTENDS BatchSharing, FiniteSetTheorems, WellFoundedInduction, TLAPS

\* The goroutines that have not left, and those that look at a photo.
Working(r) == ~At(r, "none")
Handling   == {"check", "read", "made", "commit"}

\* A goroutine belongs to an attempt of its task that is not ahead of the task's
\* own; no two belong to the same one; the running attempt has one unless its mark
\* failed.  An attempt whose mark failed is past and has none.
Attempts ==
  /\ \A r \in Runner : Working(r) =>
       /\ runners[r].batch \in Batch /\ Mine(r).status # "none"
       /\ Mine(r).status = "forgotten" \/ runners[r].revision <= Mine(r).revision
  /\ \A r, q \in Runner :
       Working(r) /\ Working(q) /\ runners[r].batch = runners[q].batch
                  /\ runners[r].revision = runners[q].revision => r = q
  /\ \A b \in Batch : Running(b) =>
       \/ <<b, batches[b].revision>> \in unmarked
       \/ \E r \in Runner : Working(r) /\ runners[r].batch = b /\ runners[r].revision = batches[b].revision
  /\ \A r \in Runner : Working(r) => <<runners[r].batch, runners[r].revision>> \notin unmarked
  /\ \A b \in Batch, n \in 0..MaxRevision : <<b, n>> \in unmarked =>
       batches[b].status # "none" /\ (batches[b].status = "forgotten" \/ n <= batches[b].revision)
  /\ \A b, c \in Batch : Running(b) /\ Running(c) => b = c

\* Its copy of the item has the generation of the task's own, which never changes.
CopySound(r) ==
  runners[r].pc \in Handling =>
    /\ runners[r].photo \in Photo
    /\ \/ Mine(r).status = "forgotten"
       \/ Mine(r).items[runners[r].photo].status # "out" /\ Mine(r).items[runners[r].photo].gen = runners[r].gen

\* Permits only move on from what tasks have seen of them.
ItemSound(b, p) ==
  LET it == batches[b].items[p] IN
  /\ it.gen <= shares[p].gen /\ it.at <= shares[p].gen
  /\ it.status = "success" /\ shares[p].gen = it.at => shares[p].token = it.token

\* The tasks that may still move the permit of a photo on, each once at most.
Live(p) == {b \in Batch : \/ Status(b) = "none"
                          \/ batches[b].items[p].status # "out" /\ batches[b].items[p].gen = shares[p].gen}
GenKept == \A p \in Photo : shares[p].gen + Cardinality(Live(p)) <= MaxGen

BatchIInv == /\ BatchTypeOK
             /\ Attempts
             /\ \A r \in Runner : CopySound(r)
             /\ \A b \in Batch, p \in Photo : ItemSound(b, p)
             /\ GenKept
-----------------------------------------------------------------------------
USE BatchConstants

LEMMA BatchInit == Init => BatchIInv
<1> SUFFICES ASSUME Init PROVE BatchIInv
  OBVIOUS
<1>1. /\ version = [p \in Photo |-> 1] /\ shares = [p \in Photo |-> [token |-> 0, gen |-> 0]]
      /\ batches = [b \in Batch |-> NoBatch] /\ runners = [r \in Runner |-> Resting]
      /\ latest = NoOne /\ drawn = 0 /\ faults = 0 /\ unmarked = {}
  BY DEF Init
<1>2. 1 \in 0..MaxVersion /\ 0 \in 0..MaxToken /\ 0 \in 0..MaxGen /\ 0 \in 0..MaxVersion /\ 0 \in 0..MaxRevision
      /\ 0 \in 0..MaxFaults
  OBVIOUS
<1>3. NoItem \in Item /\ NoBatch \in BatchState
  BY <1>2 DEF NoItem, Item, NoBatch, BatchState, Statuses
<1>4. Resting \in RunnerState
  BY <1>2 DEF Resting, RunnerState
<1>5. BatchTypeOK
  BY <1>1, <1>2, <1>3, <1>4 DEF BatchTypeOK, Share
<1>6. Attempts /\ \A r \in Runner : CopySound(r)
  BY <1>1 DEF Attempts, CopySound, Working, At, Resting, Handling, Running, Status, NoBatch
<1>7. \A b \in Batch, p \in Photo : ItemSound(b, p)
  BY <1>1 DEF ItemSound, NoBatch, NoItem
<1>8. GenKept
  <2> SUFFICES ASSUME NEW p \in Photo PROVE shares[p].gen + Cardinality(Live(p)) <= MaxGen
    BY DEF GenKept
  <2>1. Live(p) \in SUBSET Batch
    BY DEF Live
  <2>2. Cardinality(Live(p)) <= Cardinality(Batch) /\ Cardinality(Live(p)) \in Nat /\ Cardinality(Batch) \in Nat
    BY <2>1, FS_Subset, FS_CardinalityType
  <2>3. shares[p].gen = 0
    BY <1>1
  <2> QED BY <2>2, <2>3
<1> QED BY <1>5, <1>6, <1>7, <1>8 DEF BatchIInv

\* The fields of each record are what they are declared to be.
LEMMA ShareFields ==
  ASSUME BatchTypeOK, NEW p \in Photo
  PROVE  shares[p] \in Share /\ shares[p].token \in 0..MaxToken /\ shares[p].gen \in 0..MaxGen
<1>1. shares[p] \in Share
  BY DEF BatchTypeOK
<1> QED BY <1>1 DEF Share

LEMMA BatchFields ==
  ASSUME BatchTypeOK, NEW b \in Batch
  PROVE  /\ batches[b] \in BatchState /\ batches[b].status \in Statuses /\ batches[b].mode \in {"open", "stop"}
         /\ batches[b].revision \in 0..MaxRevision /\ batches[b].items \in [Photo -> Item]
<1>1. batches[b] \in BatchState
  BY DEF BatchTypeOK
<1> QED BY <1>1 DEF BatchState

LEMMA ItemFields ==
  ASSUME BatchTypeOK, NEW b \in Batch, NEW p \in Photo
  PROVE  LET it == batches[b].items[p]
         IN  /\ it \in Item /\ it.status \in {"out", "pending", "success", "failed"}
             /\ it.gen \in 0..MaxGen /\ it.version \in 0..MaxVersion
             /\ it.token \in 0..MaxToken /\ it.at \in 0..MaxGen
<1>1. batches[b].items[p] \in Item
  BY BatchFields
<1> QED BY <1>1 DEF Item

LEMMA RunnerFields ==
  ASSUME BatchTypeOK, NEW r \in Runner
  PROVE  /\ runners[r] \in RunnerState
         /\ runners[r].pc \in {"none", "next", "check", "read", "made", "commit", "leave"}
         /\ runners[r].batch \in Batch \cup {NoOne} /\ runners[r].revision \in 0..MaxRevision
         /\ runners[r].photo \in Photo \cup {0} /\ runners[r].mode \in {"open", "stop"}
         /\ runners[r].gen \in 0..MaxGen /\ runners[r].version \in 0..MaxVersion
         /\ runners[r].token \in 0..MaxToken /\ runners[r].cancelled \in BOOLEAN
         /\ runners[r].error \in {"", "changed", "newer", "failed"}
<1>1. runners[r] \in RunnerState
  BY DEF BatchTypeOK
<1> QED BY <1>1 DEF RunnerState

\* Fewer tasks that may move a permit leave at least as much room.
LEMMA FewerLive ==
  ASSUME NEW p \in Photo, NEW L, Live(p)' \subseteq L, L \subseteq Batch, shares'[p].gen \in Nat,
         shares'[p].gen + Cardinality(L) <= MaxGen
  PROVE  (shares[p].gen + Cardinality(Live(p)) <= MaxGen)'
<1>1. IsFiniteSet(L) /\ Cardinality(L) \in Nat
  BY FS_Subset, FS_CardinalityType
<1>2. Cardinality(Live(p)') <= Cardinality(L) /\ Cardinality(Live(p)') \in Nat
  BY <1>1, FS_Subset, FS_CardinalityType
<1> QED BY <1>1, <1>2

Gone == [NoBatch EXCEPT !.status = "forgotten"]

\* Steps that start nothing: tasks stop, end or are forgotten, goroutines go on
\* with what they have.
LEMMA QuieterStep ==
  ASSUME BatchIInv, BatchTypeOK', shares' = shares,
         \A b \in Batch : \/ batches'[b] = Gone
                          \/ /\ batches'[b].items = batches[b].items
                             /\ batches'[b].revision = batches[b].revision
                             /\ batches'[b].status = "none" => batches[b].status = "none"
                             /\ batches[b].status = "forgotten" => batches'[b].status = "forgotten"
                             /\ batches'[b].status = "running" => batches[b].status = "running",
         \A r \in Runner : runners'[r].pc # "none" =>
           /\ runners[r].pc # "none" /\ runners'[r].batch = runners[r].batch
           /\ runners'[r].revision = runners[r].revision
           /\ runners'[r].pc \in Handling =>
                runners[r].pc \in Handling /\ runners'[r].photo = runners[r].photo /\ runners'[r].gen = runners[r].gen,
         \A r \in Runner : runners[r].pc # "none" /\ runners'[r].pc = "none" =>
           \/ batches'[runners[r].batch].status # "running"
           \/ runners[r].revision # batches[runners[r].batch].revision
           \/ <<runners[r].batch, runners[r].revision>> \in unmarked',
         \A b \in Batch : batches'[b].status = "running" /\ <<b, batches[b].revision>> \in unmarked =>
           <<b, batches[b].revision>> \in unmarked',
         \A b \in Batch, n \in 0..MaxRevision : <<b, n>> \in unmarked' \ unmarked =>
           \E r \in Runner : /\ runners[r].pc # "none" /\ runners'[r].pc = "none"
                             /\ runners[r].batch = b /\ runners[r].revision = n
  PROVE  BatchIInv'
<1>1. Gone.status = "forgotten" /\ Gone.revision = 0 /\ Gone.items = [p \in Photo |-> NoItem]
  BY DEF Gone, NoBatch
<1>2. \A b \in Batch : /\ batches'[b].status = "running" => batches[b].status = "running" /\ batches'[b].revision = batches[b].revision
                       /\ batches[b].status = "forgotten" => batches'[b].status = "forgotten"
                       /\ batches'[b].status = "forgotten" \/ batches'[b].revision = batches[b].revision
                       /\ batches'[b].status = "forgotten" \/ batches'[b].items = batches[b].items
                       /\ batches'[b].status = "none" => batches[b].status = "none"
  BY <1>1
<1>3. Attempts'
  <2>1. \A r \in Runner : runners'[r].pc # "none" =>
          /\ runners'[r].batch \in Batch /\ batches'[runners'[r].batch].status # "none"
          /\ \/ batches'[runners'[r].batch].status = "forgotten"
             \/ runners'[r].revision <= batches'[runners'[r].batch].revision
    BY <1>2 DEF BatchIInv, Attempts, Working, At, Mine
  <2>2. \A r, q \in Runner : runners'[r].pc # "none" /\ runners'[q].pc # "none"
          /\ runners'[r].batch = runners'[q].batch /\ runners'[r].revision = runners'[q].revision => r = q
    BY DEF BatchIInv, Attempts, Working, At
  <2>3. ASSUME NEW b \in Batch, batches'[b].status = "running"
        PROVE  \/ <<b, batches'[b].revision>> \in unmarked'
               \/ \E r \in Runner : runners'[r].pc # "none" /\ runners'[r].batch = b
                                     /\ runners'[r].revision = batches'[b].revision
    <3>1. batches[b].status = "running" /\ batches'[b].revision = batches[b].revision
      BY <1>2, <2>3
    <3>2. CASE <<b, batches[b].revision>> \in unmarked
      BY <2>3, <3>1, <3>2
    <3>3. CASE \E r \in Runner : runners[r].pc # "none" /\ runners[r].batch = b
                                 /\ runners[r].revision = batches[b].revision
      BY <2>3, <3>1, <3>3
    <3> QED BY <3>1, <3>2, <3>3 DEF BatchIInv, Attempts, Working, At, Running, Status
  <2>4. \A b, c \in Batch : batches'[b].status = "running" /\ batches'[c].status = "running" => b = c
    BY <1>2 DEF BatchIInv, Attempts, Running, Status
  <2>5. ASSUME NEW r \in Runner, runners'[r].pc # "none", <<runners'[r].batch, runners'[r].revision>> \in unmarked'
        PROVE  FALSE
    <3>1. /\ runners[r].pc # "none" /\ runners'[r].batch = runners[r].batch
          /\ runners'[r].revision = runners[r].revision
      BY <2>5
    <3>2. PICK c \in Batch, n \in 0..MaxRevision : c = runners[r].batch /\ n = runners[r].revision
      BY <3>1, RunnerFields DEF BatchIInv, Attempts, Working, At
    <3>3. <<c, n>> \in unmarked' \ unmarked
      BY <2>5, <3>1, <3>2 DEF BatchIInv, Attempts, Working, At
    <3>4. PICK q \in Runner : /\ runners[q].pc # "none" /\ runners'[q].pc = "none"
                              /\ runners[q].batch = c /\ runners[q].revision = n
      BY <3>3
    <3>5. q = r
      BY <3>1, <3>2, <3>4 DEF BatchIInv, Attempts, Working, At
    <3> QED BY <2>5, <3>4, <3>5
  <2>6. ASSUME NEW b \in Batch, NEW n \in 0..MaxRevision, <<b, n>> \in unmarked'
        PROVE  batches'[b].status # "none" /\ (batches'[b].status = "forgotten" \/ n <= batches'[b].revision)
    <3>1. batches[b].status # "none" /\ (batches[b].status = "forgotten" \/ n <= batches[b].revision)
      <4>1. CASE <<b, n>> \in unmarked
        BY <4>1 DEF BatchIInv, Attempts
      <4>2. CASE <<b, n>> \notin unmarked
        BY <2>6, <4>2 DEF BatchIInv, Attempts, Working, At, Mine
      <4> QED BY <4>1, <4>2
    <3> QED BY <1>2, <3>1
  <2> QED BY <2>1, <2>2, <2>3, <2>4, <2>5, <2>6 DEF Attempts, Working, At, Mine, Running, Status
<1>4. ASSUME NEW r \in Runner PROVE CopySound(r)'
  <2> SUFFICES ASSUME runners'[r].pc \in Handling
               PROVE  /\ runners'[r].photo \in Photo
                      /\ \/ Mine(r)'.status = "forgotten"
                         \/ /\ Mine(r)'.items[runners'[r].photo].status # "out"
                            /\ Mine(r)'.items[runners'[r].photo].gen = runners'[r].gen
    BY DEF CopySound
  <2>1. runners'[r].pc # "none"
    BY DEF Handling
  <2>2. runners[r].pc \in Handling /\ runners'[r].batch = runners[r].batch /\ runners'[r].photo = runners[r].photo
        /\ runners'[r].gen = runners[r].gen /\ runners[r].batch \in Batch /\ CopySound(r)
    BY <2>1 DEF BatchIInv, Attempts, Working, At
  <2> QED BY <1>2, <2>2 DEF CopySound, Mine
<1>5. ASSUME NEW b \in Batch, NEW p \in Photo PROVE ItemSound(b, p)'
  <2>1. CASE batches'[b] = Gone
    BY <1>1, <2>1, ShareFields DEF ItemSound, NoItem, BatchIInv
  <2>2. CASE batches'[b].items = batches[b].items
    BY <2>2 DEF ItemSound, BatchIInv
  <2> QED BY <2>1, <2>2
<1>6. ASSUME NEW p \in Photo PROVE (shares[p].gen + Cardinality(Live(p)) <= MaxGen)'
  <2>1. ASSUME NEW b \in Batch, b \in Live(p)' PROVE b \in Live(p)
    <3>1. batches'[b].status = "none" \/ (batches'[b].items[p].status # "out" /\ batches'[b].items[p].gen = shares[p].gen)
      BY <2>1 DEF Live, Status
    <3>2. batches'[b] # Gone
      <4>1. NoItem.status = "out" /\ Gone.items[p] = NoItem
        BY <1>1 DEF NoItem
      <4> QED BY <1>1, <3>1, <4>1
    <3>3. batches[b].status = "none" \/ (batches[b].items[p].status # "out" /\ batches[b].items[p].gen = shares[p].gen)
      BY <3>1, <3>2
    <3> QED BY <3>3 DEF Live, Status
  <2>2. Live(p)' \subseteq Live(p) /\ Live(p) \subseteq Batch
    BY <2>1 DEF Live
  <2>3. shares'[p].gen \in Nat
    BY ShareFields DEF BatchIInv
  <2>4. shares'[p].gen + Cardinality(Live(p)) <= MaxGen
    BY DEF BatchIInv, GenKept
  <2> QED BY <2>2, <2>3, <2>4, FewerLive
<1> QED BY <1>3, <1>4, <1>5, <1>6 DEF BatchIInv, GenKept

\* One goroutine moves.
Moves(r) == runners' \in [Runner -> RunnerState] /\ \A q \in Runner : q # r => runners'[q] = runners[q]

LEMMA MovesTo ==
  ASSUME BatchTypeOK, NEW r \in Runner, NEW s \in RunnerState, runners' = [runners EXCEPT ![r] = s]
  PROVE  Moves(r) /\ runners'[r] = s
  BY DEF BatchTypeOK, Moves

LEMMA RunnerGoes ==
  ASSUME BatchTypeOK, NEW r \in Runner, NEW pc \in {"next", "check", "read", "made", "commit", "leave"}, Goto(r, pc)
  PROVE  /\ Moves(r)
         /\ runners'[r].pc = pc /\ runners'[r].batch = runners[r].batch /\ runners'[r].revision = runners[r].revision
         /\ runners'[r].photo = runners[r].photo /\ runners'[r].gen = runners[r].gen
         /\ runners'[r].version = runners[r].version /\ runners'[r].mode = runners[r].mode
<1> DEFINE s == [runners[r] EXCEPT !.pc = pc]
<1>1. runners' = [runners EXCEPT ![r] = s]
  BY DEF Goto
<1>2. /\ s \in RunnerState
      /\ s.pc = pc /\ s.batch = runners[r].batch /\ s.revision = runners[r].revision
      /\ s.photo = runners[r].photo /\ s.gen = runners[r].gen
      /\ s.version = runners[r].version /\ s.mode = runners[r].mode
  BY RunnerFields DEF RunnerState
<1> HIDE DEF s
<1> QED BY <1>1, <1>2, MovesTo

\* A goroutine that has done with its photo.
LEMMA RunnerGoesOut ==
  ASSUME BatchTypeOK, NEW r \in Runner, NEW pc \in {"next", "leave"}, GoOut(r, pc)
  PROVE  /\ Moves(r)
         /\ runners'[r].pc = pc /\ runners'[r].batch = runners[r].batch /\ runners'[r].revision = runners[r].revision
<1> DEFINE s == [runners[r] EXCEPT !.pc = pc, !.photo = 0, !.mode = "open", !.gen = 0, !.version = 0,
                   !.token = 0, !.error = ""]
<1>1. runners' = [runners EXCEPT ![r] = s]
  BY DEF GoOut
<1>2. s \in RunnerState /\ s.pc = pc /\ s.batch = runners[r].batch /\ s.revision = runners[r].revision
  <2>1. 0 \in 0..MaxGen /\ 0 \in 0..MaxVersion /\ 0 \in 0..MaxToken
    OBVIOUS
  <2> QED BY <2>1, RunnerFields DEF RunnerState
<1> HIDE DEF s
<1> QED BY <1>1, <1>2, MovesTo

\* A goroutine that goes on with the photo it has.
LEMMA RunnerGoesOn ==
  ASSUME BatchIInv, NEW r \in Runner, Moves(r), runners[r].pc # "none", runners'[r].pc # "none",
         runners'[r].batch = runners[r].batch, runners'[r].revision = runners[r].revision,
         runners'[r].pc \in Handling =>
           runners[r].pc \in Handling /\ runners'[r].photo = runners[r].photo /\ runners'[r].gen = runners[r].gen,
         UNCHANGED <<version, shares, batches, latest, unmarked>>, drawn' \in 0..MaxToken, faults' \in 0..MaxFaults
  PROVE  BatchIInv'
<1>1. BatchTypeOK'
  BY DEF BatchIInv, BatchTypeOK, Moves
<1> QED BY <1>1, QuieterStep DEF Moves

LEMMA CheckStep ==
  ASSUME BatchIInv, NEW r \in Runner, CheckItem(r) \/ ReadOriginal(r) \/ Proceed(r) \/ Break(r)
  PROVE  BatchIInv'
<1>1. /\ UNCHANGED <<version, shares, batches, latest, unmarked>> /\ runners[r].pc # "none"
      /\ drawn' \in 0..MaxToken /\ faults' \in 0..MaxFaults
  <2>1. drawn \in 0..MaxToken /\ faults \in 0..MaxFaults
    BY DEF BatchIInv, BatchTypeOK
  <2>2. Draw => drawn' \in 0..MaxToken
    BY <2>1 DEF Draw
  <2>3. Fault => faults' \in 0..MaxFaults
    BY <2>1 DEF Fault
  <2> QED BY <2>1, <2>2, <2>3 DEF CheckItem, ReadOriginal, Proceed, Break, At
<1>2. CASE GoOut(r, "leave")
  BY <1>1, <1>2, RunnerGoesOut, RunnerGoesOn DEF BatchIInv, Handling
<1>3. ASSUME runners[r].pc \in Handling, NEW pc \in Handling, Goto(r, pc) PROVE BatchIInv'
  BY <1>1, <1>3, RunnerGoes, RunnerGoesOn DEF BatchIInv, Handling
<1>4. ASSUME runners[r].pc \in Handling, NEW e \in {"", "changed", "newer", "failed"}, NEW n \in 0..MaxToken,
             runners' = [runners EXCEPT ![r].pc = "made", ![r].error = e, ![r].token = n]
      PROVE  BatchIInv'
  <2> DEFINE s == [runners[r] EXCEPT !.pc = "made", !.error = e, !.token = n]
  <2>1. runners' = [runners EXCEPT ![r] = s]
    BY <1>4
  <2>2. /\ s \in RunnerState /\ s.pc = "made" /\ s.batch = runners[r].batch
        /\ s.revision = runners[r].revision /\ s.photo = runners[r].photo /\ s.gen = runners[r].gen
    BY RunnerFields DEF RunnerState, BatchIInv
  <2> HIDE DEF s
  <2>3. Moves(r) /\ runners'[r] = s
    BY <2>1, <2>2, MovesTo DEF BatchIInv
  <2> QED BY <1>1, <1>4, <2>2, <2>3, RunnerGoesOn
<1>5. ASSUME runners[r].pc \in Handling, NEW e \in {"", "changed", "newer", "failed"}, Made(r, e) PROVE BatchIInv'
  <2> DEFINE s == [runners[r] EXCEPT !.pc = "made", !.error = e]
  <2>1. runners' = [runners EXCEPT ![r] = s]
    BY <1>5 DEF Made
  <2>2. /\ s \in RunnerState /\ s.pc = "made" /\ s.batch = runners[r].batch
        /\ s.revision = runners[r].revision /\ s.photo = runners[r].photo /\ s.gen = runners[r].gen
    BY RunnerFields DEF RunnerState, BatchIInv
  <2> HIDE DEF s
  <2>3. Moves(r) /\ runners'[r] = s
    BY <2>1, <2>2, MovesTo DEF BatchIInv
  <2> QED BY <1>1, <1>5, <2>2, <2>3, RunnerGoesOn
<1>6. CASE ReadOriginal(r) /\ ~\E e \in {"changed", "failed"} : Made(r, e)
  <2> DEFINE s == [runners[r] EXCEPT !.pc = "made", !.token = drawn + 1]
  <2>1. runners' = [runners EXCEPT ![r] = s] /\ drawn + 1 \in 0..MaxToken /\ runners[r].pc \in Handling
    <3>1. Draw /\ runners' = [runners EXCEPT ![r] = s] /\ runners[r].pc = "read"
      BY <1>6 DEF ReadOriginal, At
    <3>2. drawn + 1 \in 0..MaxToken
      BY <3>1 DEF Draw, BatchIInv, BatchTypeOK
    <3> QED BY <3>1, <3>2 DEF Handling
  <2>2. /\ s \in RunnerState /\ s.pc = "made" /\ s.batch = runners[r].batch
        /\ s.revision = runners[r].revision /\ s.photo = runners[r].photo /\ s.gen = runners[r].gen
    BY <2>1, RunnerFields DEF RunnerState, BatchIInv
  <2> HIDE DEF s
  <2>3. Moves(r) /\ runners'[r] = s
    BY <2>1, <2>2, MovesTo DEF BatchIInv
  <2> QED BY <1>1, <2>1, <2>2, <2>3, RunnerGoesOn
<1>7. CASE CheckItem(r)
  BY <1>3, <1>5, <1>7 DEF CheckItem, At, Handling
<1>8. CASE ReadOriginal(r)
  BY <1>5, <1>6, <1>8 DEF ReadOriginal, At, Handling
<1>9. CASE Proceed(r)
  BY <1>2, <1>3, <1>9 DEF Proceed, At, Handling
<1> QED BY <1>2, <1>7, <1>8, <1>9 DEF Break

\* The status of tasks.
LEMMA StatusTyped ==
  ASSUME BatchTypeOK, NEW b \in Batch, NEW s \in Statuses, SetStatus(b, s)
  PROVE  /\ batches' \in [Batch -> BatchState]
         /\ \A c \in Batch : c # b => batches'[c] = batches[c]
         /\ batches'[b].status = s /\ batches'[b].items = batches[b].items
         /\ batches'[b].revision = batches[b].revision /\ batches'[b].mode = batches[b].mode
<1> DEFINE new == [batches[b] EXCEPT !.status = s]
<1>1. batches' = [batches EXCEPT ![b] = new]
  BY DEF SetStatus
<1>2. /\ new \in BatchState /\ new.status = s /\ new.items = batches[b].items
      /\ new.revision = batches[b].revision /\ new.mode = batches[b].mode
  BY BatchFields DEF BatchState
<1> HIDE DEF new
<1> QED BY <1>1, <1>2 DEF BatchTypeOK

\* Contexts that end leave the goroutines where they are.
LEMMA Cancelled ==
  ASSUME BatchTypeOK, NEW S \in SUBSET Runner,
         runners' = [q \in Runner |-> IF q \in S THEN [runners[q] EXCEPT !.cancelled = TRUE] ELSE runners[q]]
  PROVE  runners' \in [Runner -> RunnerState] /\ \A q \in Runner :
           /\ runners'[q].pc = runners[q].pc /\ runners'[q].batch = runners[q].batch
           /\ runners'[q].revision = runners[q].revision /\ runners'[q].photo = runners[q].photo
           /\ runners'[q].gen = runners[q].gen
<1> SUFFICES ASSUME NEW q \in Runner
             PROVE  /\ runners'[q] \in RunnerState
                    /\ runners'[q].pc = runners[q].pc /\ runners'[q].batch = runners[q].batch
                    /\ runners'[q].revision = runners[q].revision /\ runners'[q].photo = runners[q].photo
                    /\ runners'[q].gen = runners[q].gen
  OBVIOUS
<1>1. runners[q] \in RunnerState
  BY RunnerFields
<1>2. CASE q \notin S
  BY <1>1, <1>2
<1>3. CASE q \in S
  <2> DEFINE s == [runners[q] EXCEPT !.cancelled = TRUE]
  <2>1. runners'[q] = s
    BY <1>3
  <2>2. /\ s \in RunnerState /\ s.pc = runners[q].pc /\ s.batch = runners[q].batch
        /\ s.revision = runners[q].revision /\ s.photo = runners[q].photo /\ s.gen = runners[q].gen
    BY <1>1 DEF RunnerState
  <2> HIDE DEF s
  <2> QED BY <2>1, <2>2
<1> QED BY <1>2, <1>3

LEMMA CancelStep ==
  ASSUME BatchIInv, NEW b \in Batch, NEW n \in 0..MaxRevision, Cancel(b, n)
  PROVE  BatchIInv'
<1> DEFINE S == {q \in Runner : q = latest /\ ~At(q, "none")}
<1>1. runners' = [q \in Runner |-> IF q \in S THEN [runners[q] EXCEPT !.cancelled = TRUE] ELSE runners[q]]
  BY DEF Cancel
<1>2. S \in SUBSET Runner
  OBVIOUS
<1> HIDE DEF S
<1>3. runners' \in [Runner -> RunnerState] /\ \A q \in Runner :
           /\ runners'[q].pc = runners[q].pc /\ runners'[q].batch = runners[q].batch
           /\ runners'[q].revision = runners[q].revision /\ runners'[q].photo = runners[q].photo
           /\ runners'[q].gen = runners[q].gen
  BY <1>1, <1>2, Cancelled DEF BatchIInv
<1>4. "cancelled" \in Statuses /\ SetStatus(b, "cancelled") /\ batches[b].status = "running"
      /\ UNCHANGED <<version, shares, latest, drawn, faults>>
      /\ unmarked' = unmarked \ {<<b, n>>}
  BY DEF Statuses, Cancel, Running, Status
<1>5. /\ batches' \in [Batch -> BatchState]
      /\ \A c \in Batch : c # b => batches'[c] = batches[c]
      /\ batches'[b].status = "cancelled" /\ batches'[b].items = batches[b].items
      /\ batches'[b].revision = batches[b].revision
  BY <1>4, StatusTyped DEF BatchIInv
<1>6. BatchTypeOK'
  BY <1>3, <1>4, <1>5 DEF BatchIInv, BatchTypeOK
<1>7. /\ \A c \in Batch : batches'[c].status = "running" /\ <<c, batches[c].revision>> \in unmarked =>
           <<c, batches[c].revision>> \in unmarked'
      /\ \A c \in Batch, k \in 0..MaxRevision : <<c, k>> \notin unmarked' \ unmarked
  BY <1>4, <1>5
<1> QED BY <1>3, <1>4, <1>5, <1>6, <1>7, QuieterStep

\* The next photo of a task is one of its photos.
LEMMA FirstIsIn ==
  ASSUME NEW S \in SUBSET Photo, S # {}
  PROVE  First(S) \in S
<1> DEFINE R == OpToRel(<, Nat)
<1>1. S \subseteq Nat
  OBVIOUS
<1>2. \A x, y \in Nat : x < y => <<x, y>> \in R
  BY DEF OpToRel
<1>3. PICK m \in S : \A x \in S : <<x, m>> \notin R
  BY <1>1, WFMin, NatLessThanWellFounded
<1> HIDE DEF R
<1>4. ASSUME NEW x \in S PROVE m <= x
  <2>1. x \in Nat /\ m \in Nat
    BY <1>1
  <2>2. ~(x < m)
    BY <1>2, <1>3, <2>1
  <2> QED BY <2>1, <2>2
<1> QED BY <1>3, <1>4 DEF First

\* The goroutine takes a copy of the item; nothing that counts for others moves.
LEMMA TakeStep ==
  ASSUME BatchIInv, NEW r \in Runner, runners[r].pc = "next", Mine(r).status = "running",
         NEW p \in Pending(runners[r].batch), Take(r, p),
         UNCHANGED <<version, shares, batches, latest, drawn, faults, unmarked>>
  PROVE  BatchIInv'
<1>1. runners[r].batch \in Batch /\ p \in Photo /\ Mine(r).items[p].status = "pending"
  BY DEF BatchIInv, Attempts, Working, At, Pending, Mine
<1>2. PICK it \in Item, m \in {"open", "stop"} : it = Mine(r).items[p] /\ m = Mine(r).mode
  BY <1>1, ItemFields, BatchFields DEF BatchIInv, Mine
<1> DEFINE s == [runners[r] EXCEPT !.pc = "check", !.photo = p, !.mode = m, !.gen = it.gen,
                   !.version = it.version, !.error = "", !.token = 0]
<1>3. runners' = [runners EXCEPT ![r] = s]
  BY <1>2 DEF Take
<1>4. /\ s \in RunnerState /\ s.pc = "check" /\ s.batch = runners[r].batch
      /\ s.revision = runners[r].revision /\ s.photo = p /\ s.gen = it.gen
  <2>1. it.gen \in 0..MaxGen /\ it.version \in 0..MaxVersion /\ 0 \in 0..MaxToken
    BY DEF Item
  <2> QED BY <1>1, <2>1, RunnerFields DEF RunnerState, BatchIInv
<1> HIDE DEF s
<1>5. Moves(r) /\ runners'[r] = s
  BY <1>3, <1>4, MovesTo DEF BatchIInv
<1>6. BatchTypeOK'
  BY <1>5 DEF BatchIInv, BatchTypeOK, Moves
<1>7. Attempts'
  BY <1>4, <1>5 DEF BatchIInv, Attempts, Working, At, Mine, Running, Status, Moves
<1>8. ASSUME NEW q \in Runner PROVE CopySound(q)'
  <2>1. CASE q # r
    BY <1>5, <2>1 DEF BatchIInv, CopySound, Mine, Moves
  <2>2. CASE q = r
    BY <1>1, <1>2, <1>4, <1>5, <2>2 DEF CopySound, Mine
  <2> QED BY <2>1, <2>2
<1>9. (\A b \in Batch, p1 \in Photo : ItemSound(b, p1))' /\ GenKept'
  BY DEF BatchIInv, ItemSound, GenKept, Live, Status
<1> QED BY <1>6, <1>7, <1>8, <1>9 DEF BatchIInv

LEMMA NextItemStep ==
  ASSUME BatchIInv, NEW r \in Runner, NextItem(r)
  PROVE  BatchIInv'
<1>1. runners[r].pc = "next" /\ UNCHANGED <<version, shares, latest, drawn, faults, unmarked>>
      /\ runners[r].batch \in Batch /\ drawn \in 0..MaxToken /\ faults \in 0..MaxFaults
  BY DEF NextItem, At, BatchIInv, Attempts, Working, BatchTypeOK
<1>2. CASE Goto(r, "leave") /\ UNCHANGED batches
  BY <1>1, <1>2, RunnerGoes, RunnerGoesOn DEF BatchIInv, Handling
<1>3. CASE Goto(r, "leave") /\ SetStatus(runners[r].batch, "completed") /\ Owns(r)
  <2>1. /\ Moves(r) /\ runners'[r].pc = "leave" /\ runners'[r].batch = runners[r].batch
        /\ runners'[r].revision = runners[r].revision
    BY <1>3, RunnerGoes DEF BatchIInv
  <2>2. PICK b \in Batch : b = runners[r].batch
    BY <1>1
  <2>3. /\ batches' \in [Batch -> BatchState]
        /\ \A c \in Batch : c # b => batches'[c] = batches[c]
        /\ batches'[b].status = "completed" /\ batches'[b].items = batches[b].items
        /\ batches'[b].revision = batches[b].revision
    BY <1>3, <2>2, StatusTyped DEF BatchIInv, Statuses
  <2>4. BatchTypeOK'
    BY <1>1, <2>1, <2>3 DEF BatchIInv, BatchTypeOK, Moves
  <2>5. batches[b].status = "running" /\ shares' = shares
    BY <1>1, <1>3, <2>2 DEF Owns, Mine
  <2>6. \A q \in Runner : runners'[q].pc # "none" =>
           /\ runners[q].pc # "none" /\ runners'[q].batch = runners[q].batch
           /\ runners'[q].revision = runners[q].revision
           /\ runners'[q].pc \in Handling =>
                runners[q].pc \in Handling /\ runners'[q].photo = runners[q].photo /\ runners'[q].gen = runners[q].gen
    BY <1>1, <2>1 DEF Moves, Handling
  <2>7. \A q \in Runner : runners[q].pc # "none" => runners'[q].pc # "none"
    BY <2>1 DEF Moves
  <2>8. unmarked' = unmarked
    BY <1>1
  <2> QED BY <2>3, <2>4, <2>5, <2>6, <2>7, <2>8, QuieterStep
<1>4. CASE Owns(r) /\ Pending(runners[r].batch) # {} /\ Take(r, First(Pending(runners[r].batch))) /\ UNCHANGED batches
  <2>1. PICK p : p = First(Pending(runners[r].batch))
    OBVIOUS
  <2>2. Pending(runners[r].batch) \in SUBSET Photo
    BY DEF Pending
  <2>3. p \in Pending(runners[r].batch)
    BY <1>4, <2>1, <2>2, FirstIsIn
  <2>4. Mine(r).status = "running" /\ Take(r, p)
    BY <1>4, <2>1 DEF Owns
  <2> QED BY <1>1, <1>4, <2>3, <2>4, TakeStep
<1> QED BY <1>2, <1>3, <1>4 DEF NextItem

\* A goroutine that goes leaves no task running behind it, or it is in the record of those that do.
LEMMA RestingTyped == Resting \in RunnerState /\ Resting.pc = "none"
  BY DEF Resting, RunnerState

LEMMA LeaveStep ==
  ASSUME BatchIInv, NEW r \in Runner, Leave(r)
  PROVE  BatchIInv'
<1>1. runners[r].pc = "leave" /\ UNCHANGED <<version, shares, latest, drawn, faults>> /\ runners[r].batch \in Batch
  BY DEF Leave, At, BatchIInv, Attempts, Working
<1>2. Moves(r) /\ runners'[r] = Resting /\ Resting.pc = "none"
  BY RestingTyped, MovesTo DEF Leave, BatchIInv
<1>3. PICK b \in Batch : b = runners[r].batch
  BY <1>1
<1>4. /\ batches' \in [Batch -> BatchState]
      /\ \A c \in Batch : c # b => batches'[c] = batches[c]
      /\ batches'[b].items = batches[b].items /\ batches'[b].revision = batches[b].revision
      /\ \/ /\ batches'[b].status = "interrupted" /\ batches[b].status = "running"
            /\ unmarked' = unmarked
         \/ batches'[b] = batches[b] /\ unmarked' = unmarked \cup {<<b, runners[r].revision>>}
         \/ /\ batches'[b] = batches[b] /\ unmarked' = unmarked
            /\ batches[b].status = "running" => runners[r].revision # batches[b].revision
  <2>1. CASE Owns(r) /\ SetStatus(runners[r].batch, "interrupted") /\ UNCHANGED unmarked
    <3>1. SetStatus(b, "interrupted") /\ batches[b].status = "running" /\ "interrupted" \in Statuses
      BY <1>3, <2>1 DEF Owns, Mine, Statuses
    <3> QED BY <2>1, <3>1, StatusTyped DEF BatchIInv
  <2>2. CASE unmarked' = unmarked \cup {Attempt(r)} /\ UNCHANGED batches
    BY <1>3, <2>2 DEF Attempt, BatchIInv, BatchTypeOK
  <2>3. CASE ~Owns(r) /\ UNCHANGED <<batches, unmarked>>
    BY <1>3, <2>3 DEF Owns, Mine, BatchIInv, BatchTypeOK
  <2> QED BY <2>1, <2>2, <2>3 DEF Leave
<1>5. BatchTypeOK'
  <2>1. <<b, runners[r].revision>> \in Batch \X (0..MaxRevision)
    BY RunnerFields DEF BatchIInv
  <2> QED BY <1>1, <1>2, <1>4, <2>1 DEF BatchIInv, BatchTypeOK, Moves
<1>6. \A q \in Runner : runners'[q].pc # "none" => q # r /\ runners'[q] = runners[q]
  BY <1>2 DEF Moves
<1>7. \A q \in Runner : runners[q].pc # "none" /\ runners'[q].pc = "none" => q = r
  BY <1>2 DEF Moves
<1>8. \A c \in Batch, n \in 0..MaxRevision : <<c, n>> \in unmarked' \ unmarked => c = b /\ n = runners[r].revision
  BY <1>4
<1>9. unmarked \subseteq unmarked' /\ runners[r].pc # "none" /\ runners'[r].pc = "none" /\ shares' = shares
  BY <1>1, <1>2, <1>4
<1>10. \A q \in Runner : runners[q].pc # "none" /\ runners'[q].pc = "none" =>
         \/ batches'[runners[q].batch].status # "running"
         \/ runners[q].revision # batches[runners[q].batch].revision
         \/ <<runners[q].batch, runners[q].revision>> \in unmarked'
  BY <1>3, <1>4, <1>7
<1>11. \A c \in Batch : /\ batches'[c].items = batches[c].items
                        /\ batches'[c].revision = batches[c].revision
                        /\ batches'[c].status = "none" => batches[c].status = "none"
                        /\ batches[c].status = "forgotten" => batches'[c].status = "forgotten"
                        /\ batches'[c].status = "running" => batches[c].status = "running"
  BY <1>4
<1>12. \A c \in Batch, n \in 0..MaxRevision : <<c, n>> \in unmarked' \ unmarked =>
         \E q \in Runner : /\ runners[q].pc # "none" /\ runners'[q].pc = "none"
                           /\ runners[q].batch = c /\ runners[q].revision = n
  BY <1>3, <1>8, <1>9
<1>13. \A q \in Runner : runners'[q].pc # "none" =>
         /\ runners[q].pc # "none" /\ runners'[q].batch = runners[q].batch
         /\ runners'[q].revision = runners[q].revision
         /\ runners'[q].pc \in Handling =>
              runners[q].pc \in Handling /\ runners'[q].photo = runners[q].photo /\ runners'[q].gen = runners[q].gen
  BY <1>6
<1> QED BY <1>5, <1>9, <1>10, <1>11, <1>12, <1>13, QuieterStep

LEMMA RestartStep ==
  ASSUME BatchIInv, Restart
  PROVE  BatchIInv'
<1>1. /\ faults' \in 0..MaxFaults /\ UNCHANGED <<version, shares, drawn>> /\ latest' = NoOne /\ unmarked' = {}
      /\ runners' = [r \in Runner |-> Resting]
      /\ batches' = [b \in Batch |-> IF Running(b) THEN [batches[b] EXCEPT !.status = "interrupted"] ELSE batches[b]]
  BY DEF Restart, Fault, BatchIInv, BatchTypeOK
<1>2. \A r \in Runner : runners'[r].pc = "none"
  BY <1>1, RestingTyped
<1>3. ASSUME NEW b \in Batch
      PROVE  /\ batches'[b] \in BatchState
             /\ batches'[b].items = batches[b].items /\ batches'[b].revision = batches[b].revision
             /\ \/ batches'[b].status = "interrupted" /\ batches[b].status = "running"
                \/ batches'[b].status = batches[b].status /\ batches[b].status # "running"
  <2>1. CASE Running(b)
    <3> DEFINE new == [batches[b] EXCEPT !.status = "interrupted"]
    <3>1. batches'[b] = new
      BY <1>1, <2>1
    <3>2. new \in BatchState /\ new.status = "interrupted" /\ new.items = batches[b].items /\ new.revision = batches[b].revision
      BY BatchFields DEF BatchState, BatchIInv, Statuses
    <3> HIDE DEF new
    <3> QED BY <2>1, <3>1, <3>2 DEF Running, Status
  <2>2. CASE ~Running(b)
    BY <1>1, <2>2, BatchFields DEF Running, Status, BatchIInv
  <2> QED BY <2>1, <2>2
<1>4. BatchTypeOK'
  <2>1. batches' \in [Batch -> BatchState] /\ runners' \in [Runner -> RunnerState]
    BY <1>1, <1>3, RestingTyped
  <2> QED BY <1>1, <2>1 DEF BatchIInv, BatchTypeOK
<1>5. shares' = shares /\ \A b \in Batch : batches'[b].status # "running"
  BY <1>1, <1>3
<1>6. \A r \in Runner : runners[r].pc # "none" => runners[r].batch \in Batch
  BY DEF BatchIInv, Attempts, Working, At
<1>7. unmarked' = {}
  BY <1>1
<1> QED BY <1>2, <1>3, <1>4, <1>5, <1>6, <1>7, QuieterStep

LEMMA ForgetStep ==
  ASSUME BatchIInv, NEW b \in Batch, Forget(b)
  PROVE  BatchIInv'
<1>1. batches' = [batches EXCEPT ![b] = Gone] /\ UNCHANGED <<version, shares, runners, latest, drawn, faults, unmarked>>
  BY DEF Forget, Gone
<1>2. Gone \in BatchState
  <2>1. NoItem \in Item
    BY DEF NoItem, Item
  <2> QED BY <2>1 DEF Gone, NoBatch, BatchState, Statuses
<1> HIDE DEF Gone
<1>3. batches' \in [Batch -> BatchState] /\ batches'[b] = Gone /\ \A c \in Batch : c # b => batches'[c] = batches[c]
  BY <1>1, <1>2 DEF BatchIInv, BatchTypeOK
<1>4. BatchTypeOK'
  BY <1>1, <1>3 DEF BatchIInv, BatchTypeOK
<1> QED BY <1>1, <1>3, <1>4, QuieterStep

\* Tasks that see a photo for the first time see the generation of its permit.
LEMMA NewItem ==
  ASSUME BatchTypeOK, NEW p \in Photo
  PROVE  LET it == [NoItem EXCEPT !.status = "pending", !.gen = shares[p].gen, !.version = version[p]]
         IN  it \in Item /\ it.status = "pending" /\ it.gen = shares[p].gen /\ it.at = 0
<1>1. shares[p].gen \in 0..MaxGen /\ version[p] \in 0..MaxVersion /\ 0 \in 0..MaxGen /\ 0 \in 0..MaxToken
  BY ShareFields DEF BatchTypeOK
<1> QED BY <1>1 DEF NoItem, Item

LEMMA PrepareStep ==
  ASSUME BatchIInv, NEW b \in Batch, NEW mode \in {"open", "stop"}, NEW chosen \in SUBSET Photo,
         Prepare(b, mode, chosen)
  PROVE  BatchIInv'
<1>1. batches[b].status = "none" /\ UNCHANGED <<version, shares, runners, latest, drawn, faults, unmarked>>
  BY DEF Prepare, Status
<1> DEFINE F == [p \in Photo |-> IF p \in chosen
                                 THEN [NoItem EXCEPT !.status = "pending", !.gen = shares[p].gen, !.version = version[p]]
                                 ELSE NoItem]
           new == [status |-> "prepared", mode |-> mode, revision |-> 0, items |-> F]
<1>2. \A p \in Photo : /\ F[p] \in Item
                       /\ F[p].status \in {"out", "pending"}
                       /\ F[p].status = "pending" => F[p].gen = shares[p].gen
                       /\ F[p].gen <= shares[p].gen /\ F[p].at <= shares[p].gen
  <2> SUFFICES ASSUME NEW p \in Photo
               PROVE  /\ F[p] \in Item
                      /\ F[p].status \in {"out", "pending"}
                      /\ F[p].status = "pending" => F[p].gen = shares[p].gen
                      /\ F[p].gen <= shares[p].gen /\ F[p].at <= shares[p].gen
    OBVIOUS
  <2>1. shares[p].gen \in 0..MaxGen
    BY ShareFields DEF BatchIInv
  <2>2. CASE p \in chosen
    <3>1. PICK it : it = [NoItem EXCEPT !.status = "pending", !.gen = shares[p].gen, !.version = version[p]]
      OBVIOUS
    <3>2. it \in Item /\ it.status = "pending" /\ it.gen = shares[p].gen /\ it.at = 0
      BY <3>1, NewItem DEF BatchIInv
    <3>3. F[p] = it
      BY <2>2, <3>1
    <3> HIDE DEF F
    <3> QED BY <2>1, <3>2, <3>3
  <2>3. CASE p \notin chosen
    <3>1. NoItem \in Item /\ NoItem.status = "out" /\ NoItem.gen = 0 /\ NoItem.at = 0
      BY DEF NoItem, Item
    <3> QED BY <2>1, <2>3, <3>1
  <2> QED BY <2>2, <2>3
<1>3. F \in [Photo -> Item]
  BY <1>2
<1>4. batches' = [batches EXCEPT ![b] = new]
  BY DEF Prepare
<1> HIDE DEF F
<1>5. new \in BatchState /\ new.status = "prepared" /\ new.items = F /\ new.revision = 0
  BY <1>3 DEF BatchState, Statuses
<1> HIDE DEF new
<1>6. batches' \in [Batch -> BatchState] /\ batches'[b] = new /\ \A c \in Batch : c # b => batches'[c] = batches[c]
  BY <1>4, <1>5 DEF BatchIInv, BatchTypeOK
<1>7. BatchTypeOK'
  BY <1>1, <1>6 DEF BatchIInv, BatchTypeOK
<1>8. \A r \in Runner : runners[r].pc # "none" => runners[r].batch # b
  BY <1>1 DEF BatchIInv, Attempts, Working, At, Mine
<1>9. Attempts'
  BY <1>1, <1>5, <1>6, <1>8 DEF BatchIInv, Attempts, Working, At, Mine, Running, Status
<1>10. ASSUME NEW r \in Runner PROVE CopySound(r)'
  <2>1. runners[r].pc \in Handling => runners[r].pc # "none" /\ runners[r].batch \in Batch
    BY DEF Handling, BatchIInv, Attempts, Working, At
  <2> QED BY <1>1, <1>6, <1>8, <2>1 DEF CopySound, Mine, BatchIInv
<1>11. ASSUME NEW c \in Batch, NEW p \in Photo PROVE ItemSound(c, p)'
  <2>1. CASE c = b
    BY <1>1, <1>2, <1>5, <1>6, <2>1 DEF ItemSound
  <2>2. CASE c # b
    BY <1>1, <1>6, <2>2 DEF ItemSound, BatchIInv
  <2> QED BY <2>1, <2>2
<1>12. ASSUME NEW p \in Photo PROVE (shares[p].gen + Cardinality(Live(p)) <= MaxGen)'
  <2>1. b \in Live(p)
    BY <1>1 DEF Live, Status
  <2>2. ASSUME NEW c \in Batch, c # b, c \in Live(p)' PROVE c \in Live(p)
    BY <1>1, <1>6, <2>2 DEF Live, Status
  <2>3. Live(p)' \subseteq Live(p) /\ Live(p) \subseteq Batch
    BY <2>1, <2>2 DEF Live
  <2>4. shares'[p].gen \in Nat /\ shares'[p].gen + Cardinality(Live(p)) <= MaxGen
    <3>1. shares[p].gen \in 0..MaxGen
      BY ShareFields DEF BatchIInv
    <3>2. shares[p].gen \in Nat
      BY <3>1
    <3>3. shares[p].gen + Cardinality(Live(p)) <= MaxGen
      BY DEF BatchIInv, GenKept
    <3>4. shares' = shares
      BY <1>1
    <3> QED BY <3>2, <3>3, <3>4
  <2> QED BY <2>3, <2>4, FewerLive
<1> QED BY <1>7, <1>9, <1>10, <1>11, <1>12 DEF BatchIInv, GenKept

\* What is tried again is pending; what is pending is not out of the task.
LEMMA AgainTyped ==
  ASSUME NEW items \in [Photo -> Item]
  PROVE  /\ Again(items) \in [Photo -> Item]
         /\ \A p \in Photo : /\ Again(items)[p].gen = items[p].gen
                             /\ Again(items)[p].status = "out" <=> items[p].status = "out"
                             /\ Again(items)[p].at \in {0, items[p].at}
                             /\ Again(items)[p].status = "success" => Again(items)[p] = items[p]
<1> SUFFICES ASSUME NEW p \in Photo
             PROVE  /\ Again(items)[p] \in Item
                    /\ Again(items)[p].gen = items[p].gen
                    /\ Again(items)[p].status = "out" <=> items[p].status = "out"
                    /\ Again(items)[p].at \in {0, items[p].at}
                    /\ Again(items)[p].status = "success" => Again(items)[p] = items[p]
  BY DEF Again
<1>1. PICK it \in Item : it = items[p]
  OBVIOUS
<1>2. CASE it.status = "failed"
  <2> DEFINE new == [it EXCEPT !.status = "pending", !.token = 0, !.at = 0]
  <2>1. Again(items)[p] = new
    BY <1>1, <1>2 DEF Again
  <2>2. new \in Item /\ new.status = "pending" /\ new.gen = it.gen /\ new.at = 0
    <3>1. 0 \in 0..MaxToken /\ 0 \in 0..MaxGen
      OBVIOUS
    <3> QED BY <3>1 DEF Item
  <2> HIDE DEF new
  <2> QED BY <1>1, <1>2, <2>1, <2>2
<1>3. CASE it.status # "failed"
  BY <1>1, <1>3 DEF Again
<1> QED BY <1>2, <1>3

LEMMA LaunchStep ==
  ASSUME BatchIInv, NEW b \in Batch, NEW r \in Runner, NEW n \in 0..MaxRevision, NEW retry \in BOOLEAN,
         Launch(b, r, n, retry)
  PROVE  BatchIInv'
<1>1. /\ batches[b].revision = n /\ n + 1 \in 0..MaxRevision /\ runners[r].pc = "none"
      /\ batches[b].status \in {"prepared", "completed", "cancelled", "interrupted"}
      /\ \A c \in Batch : batches[c].status # "running"
      /\ latest' = r /\ UNCHANGED <<version, shares, drawn, faults, unmarked>>
  BY BatchFields DEF Launch, Status, Running, NoneRuns, At, BatchIInv
<1>2. PICK I : I = IF retry THEN Again(batches[b].items) ELSE batches[b].items
  OBVIOUS
<1>3. /\ I \in [Photo -> Item]
      /\ \A p \in Photo : /\ I[p].gen = batches[b].items[p].gen
                          /\ I[p].status = "out" <=> batches[b].items[p].status = "out"
                          /\ I[p].at \in {0, batches[b].items[p].at}
                          /\ I[p].status = "success" => I[p] = batches[b].items[p]
  <2>1. batches[b].items \in [Photo -> Item]
    BY BatchFields DEF BatchIInv
  <2>2. CASE retry
    BY <1>2, <2>1, <2>2, AgainTyped
  <2>3. CASE ~retry
    BY <1>2, <2>1, <2>3
  <2> QED BY <2>2, <2>3
<1> DEFINE new == [batches[b] EXCEPT !.status = "running", !.revision = n + 1, !.items = I]
           one == [Resting EXCEPT !.pc = "next", !.batch = b, !.revision = n + 1]
<1>4. batches' = [batches EXCEPT ![b] = new]
  BY <1>1, <1>2 DEF Launch
<1>5. new \in BatchState /\ new.status = "running" /\ new.revision = n + 1 /\ new.items = I
  BY <1>1, <1>3, BatchFields DEF BatchState, Statuses, BatchIInv
<1>6. one \in RunnerState /\ one.pc = "next" /\ one.batch = b /\ one.revision = n + 1
  BY <1>1, RestingTyped DEF RunnerState, Resting
<1> HIDE DEF new
<1>7. batches' \in [Batch -> BatchState] /\ batches'[b] = new /\ \A c \in Batch : c # b => batches'[c] = batches[c]
  BY <1>4, <1>5 DEF BatchIInv, BatchTypeOK
<1>8. \A q \in Runner : \/ q = r /\ runners'[q] = one
                        \/ q # r /\ runners'[q] \in {runners[q], [runners[q] EXCEPT !.cancelled = TRUE]}
  BY DEF Launch
<1> HIDE DEF one
<1>9. ASSUME NEW q \in Runner, q # r
      PROVE  /\ runners'[q] \in RunnerState /\ runners'[q].pc = runners[q].pc /\ runners'[q].batch = runners[q].batch
             /\ runners'[q].revision = runners[q].revision /\ runners'[q].photo = runners[q].photo
             /\ runners'[q].gen = runners[q].gen
  <2> DEFINE s == [runners[q] EXCEPT !.cancelled = TRUE]
  <2>1. runners[q] \in RunnerState
    BY RunnerFields DEF BatchIInv
  <2>2. /\ s \in RunnerState /\ s.pc = runners[q].pc /\ s.batch = runners[q].batch
        /\ s.revision = runners[q].revision /\ s.photo = runners[q].photo /\ s.gen = runners[q].gen
    BY <2>1 DEF RunnerState
  <2>3. runners'[q] = runners[q] \/ runners'[q] = s
    BY <1>8, <1>9
  <2> HIDE DEF s
  <2> QED BY <2>1, <2>2, <2>3
<1>10. BatchTypeOK'
  <2>1. runners' \in [Runner -> RunnerState]
    <3>1. \A q \in Runner : runners'[q] \in RunnerState
      BY <1>6, <1>8, <1>9
    <3>2. runners' = [q \in Runner |-> runners'[q]]
      BY DEF Launch
    <3> QED BY <3>1, <3>2
  <2> QED BY <1>1, <1>7, <2>1 DEF BatchIInv, BatchTypeOK
<1>11. \A q \in Runner : runners[q].pc # "none" => /\ runners[q].batch \in Batch
                                                   /\ runners[q].batch = b => runners[q].revision <= n
  BY <1>1 DEF BatchIInv, Attempts, Working, At, Mine
<1>12. \A q \in Runner : runners[q].revision \in Nat
  <2> SUFFICES ASSUME NEW q \in Runner PROVE runners[q].revision \in Nat
    OBVIOUS
  <2>1. runners[q].revision \in 0..MaxRevision
    BY RunnerFields DEF BatchIInv
  <2> QED BY <2>1
<1>13. Attempts'
  <2>1. \A q \in Runner : runners'[q].pc # "none" /\ q # r /\ runners'[q].batch = b => runners'[q].revision < n + 1
    BY <1>9, <1>11, <1>12
  <2>2. \A q \in Runner : runners'[q].pc # "none" =>
          /\ runners'[q].batch \in Batch /\ batches'[runners'[q].batch].status # "none"
          /\ batches'[runners'[q].batch].status = "forgotten" \/ runners'[q].revision <= batches'[runners'[q].batch].revision
    <3> SUFFICES ASSUME NEW q \in Runner, runners'[q].pc # "none"
                 PROVE  /\ runners'[q].batch \in Batch /\ batches'[runners'[q].batch].status # "none"
                        /\ \/ batches'[runners'[q].batch].status = "forgotten"
                           \/ runners'[q].revision <= batches'[runners'[q].batch].revision
      OBVIOUS
    <3>1. CASE q = r
      BY <1>5, <1>6, <1>7, <1>8, <3>1
    <3>2. CASE q # r /\ runners'[q].batch = b
      BY <1>5, <1>7, <1>9, <1>12, <2>1, <3>2
    <3>3. CASE q # r /\ runners'[q].batch # b
      BY <1>7, <1>9, <1>11, <3>3 DEF BatchIInv, Attempts, Working, At, Mine
    <3> QED BY <3>1, <3>2, <3>3
  <2>3. \A q1, q2 \in Runner : runners'[q1].pc # "none" /\ runners'[q2].pc # "none"
          /\ runners'[q1].batch = runners'[q2].batch /\ runners'[q1].revision = runners'[q2].revision => q1 = q2
    <3> SUFFICES ASSUME NEW q1 \in Runner, NEW q2 \in Runner, runners'[q1].pc # "none", runners'[q2].pc # "none",
                        runners'[q1].batch = runners'[q2].batch, runners'[q1].revision = runners'[q2].revision
                 PROVE  q1 = q2
      OBVIOUS
    <3>1. CASE q1 = r \/ q2 = r
      BY <1>1, <1>6, <1>8, <2>1, <3>1
    <3>2. CASE q1 # r /\ q2 # r
      BY <1>9, <3>2 DEF BatchIInv, Attempts, Working, At
    <3> QED BY <3>1, <3>2
  <2>4. \A c \in Batch : batches'[c].status = "running" => c = b
    BY <1>1, <1>7
  <2>5. runners'[r].pc # "none" /\ runners'[r].batch = b /\ runners'[r].revision = batches'[b].revision
    BY <1>5, <1>6, <1>7, <1>8
  <2>6. \A c \in Batch, k \in 0..MaxRevision : <<c, k>> \in unmarked' =>
          /\ batches'[c].status # "none" /\ (batches'[c].status = "forgotten" \/ k <= batches'[c].revision)
          /\ c = b => k # n + 1
    <3>1. \A c \in Batch, k \in 0..MaxRevision : <<c, k>> \in unmarked =>
            batches[c].status # "none" /\ (batches[c].status = "forgotten" \/ k <= batches[c].revision)
      BY DEF BatchIInv, Attempts
    <3> QED BY <1>1, <1>5, <1>7, <3>1
  <2>7. ASSUME NEW q \in Runner, runners'[q].pc # "none"
        PROVE  <<runners'[q].batch, runners'[q].revision>> \notin unmarked'
    <3>1. CASE q = r
      BY <1>1, <1>6, <1>8, <2>6, <3>1
    <3>2. CASE q # r
      BY <1>1, <1>9, <2>7, <3>2 DEF BatchIInv, Attempts, Working, At
    <3> QED BY <3>1, <3>2
  <2> QED BY <2>2, <2>3, <2>4, <2>5, <2>6, <2>7 DEF Attempts, Working, At, Mine, Running, Status
<1>14. ASSUME NEW q \in Runner PROVE CopySound(q)'
  <2>1. CASE q = r
    BY <1>6, <1>8, <2>1 DEF CopySound, Handling
  <2>2. CASE q # r
    <3>1. runners[q].pc \in Handling => runners[q].batch \in Batch
      BY <1>11 DEF Handling
    <3>2. CopySound(q)
      BY DEF BatchIInv
    <3>3. runners'[q].pc = runners[q].pc /\ runners'[q].batch = runners[q].batch /\ runners'[q].photo = runners[q].photo
          /\ runners'[q].gen = runners[q].gen
      BY <1>9, <2>2
    <3>4. CASE runners[q].batch = b
      BY <1>1, <1>3, <1>5, <1>7, <3>2, <3>3, <3>4 DEF CopySound, Mine
    <3>5. CASE runners[q].batch # b
      BY <1>7, <3>1, <3>2, <3>3, <3>5 DEF CopySound, Mine
    <3> QED BY <3>4, <3>5
  <2> QED BY <2>1, <2>2
<1>15. ASSUME NEW c \in Batch, NEW p \in Photo PROVE ItemSound(c, p)'
  <2>1. CASE c = b
    <3>1. ItemSound(b, p) /\ shares[p].gen \in Nat
      BY ShareFields DEF BatchIInv
    <3>2. batches'[b].items[p] = I[p] /\ shares' = shares
      BY <1>1, <1>5, <1>7
    <3> QED BY <1>3, <2>1, <3>1, <3>2 DEF ItemSound
  <2>2. CASE c # b
    BY <1>1, <1>7, <2>2 DEF ItemSound, BatchIInv
  <2> QED BY <2>1, <2>2
<1>16. ASSUME NEW p \in Photo PROVE (shares[p].gen + Cardinality(Live(p)) <= MaxGen)'
  <2>1. ASSUME NEW c \in Batch, c \in Live(p)' PROVE c \in Live(p)
    <3>1. CASE c = b
      BY <1>1, <1>3, <1>5, <1>7, <2>1, <3>1 DEF Live, Status
    <3>2. CASE c # b
      BY <1>1, <1>7, <2>1, <3>2 DEF Live, Status
    <3> QED BY <3>1, <3>2
  <2>2. Live(p)' \subseteq Live(p) /\ Live(p) \subseteq Batch
    BY <2>1 DEF Live
  <2>3. shares'[p].gen \in Nat /\ shares'[p].gen + Cardinality(Live(p)) <= MaxGen
    <3>1. shares[p].gen \in 0..MaxGen
      BY ShareFields DEF BatchIInv
    <3>2. shares[p].gen \in Nat
      BY <3>1
    <3>3. shares[p].gen + Cardinality(Live(p)) <= MaxGen
      BY DEF BatchIInv, GenKept
    <3>4. shares' = shares
      BY <1>1
    <3> QED BY <3>2, <3>3, <3>4
  <2> QED BY <2>2, <2>3, FewerLive
<1> QED BY <1>10, <1>13, <1>14, <1>15, <1>16 DEF BatchIInv, GenKept

\* A single photo is shared, stopped or changed: no task has seen the new
\* generation of its permit.
LEMMA PermitMoves ==
  ASSUME BatchIInv, NEW p \in Photo, NEW t \in 0..MaxToken, GenLeft(p),
         shares' = [shares EXCEPT ![p] = [token |-> t, gen |-> shares[p].gen + 1]],
         UNCHANGED <<batches, runners, latest, faults, unmarked>>,
         version' \in [Photo -> 0..MaxVersion], drawn' \in 0..MaxToken
  PROVE  BatchIInv'
<1>1. /\ shares[p].gen \in Nat /\ Cardinality(Batch) \in Nat /\ shares[p].gen + 1 + Cardinality(Batch) <= MaxGen
      /\ shares[p].gen + 1 \in 0..MaxGen
  <2>1. shares[p].gen \in 0..MaxGen
    BY ShareFields DEF BatchIInv
  <2>2. Cardinality(Batch) \in Nat
    BY FS_CardinalityType
  <2> QED BY <2>1, <2>2 DEF GenLeft
<1> DEFINE s == [token |-> t, gen |-> shares[p].gen + 1]
<1>2. s \in Share /\ s.gen = shares[p].gen + 1
  BY <1>1 DEF Share
<1> HIDE DEF s
<1>3. shares' \in [Photo -> Share] /\ shares'[p].gen = shares[p].gen + 1
      /\ \A q \in Photo : q # p => shares'[q] = shares[q]
  BY <1>2 DEF BatchIInv, BatchTypeOK, s
<1>4. BatchTypeOK'
  BY <1>3 DEF BatchIInv, BatchTypeOK
<1>5. Attempts' /\ \A r \in Runner : CopySound(r)'
  BY DEF BatchIInv, Attempts, CopySound, Working, At, Mine, Running, Status
<1>6. ASSUME NEW b \in Batch, NEW q \in Photo PROVE ItemSound(b, q)'
  <2>1. ItemSound(b, q) /\ batches[b].items[q].gen \in Nat /\ batches[b].items[q].at \in Nat
    <3>1. batches[b].items[q].gen \in 0..MaxGen /\ batches[b].items[q].at \in 0..MaxGen
      BY ItemFields DEF BatchIInv
    <3> QED BY <3>1 DEF BatchIInv
  <2>2. CASE q = p
    BY <1>1, <1>3, <2>1, <2>2 DEF ItemSound
  <2>3. CASE q # p
    BY <1>3, <2>1, <2>3 DEF ItemSound
  <2> QED BY <2>2, <2>3
<1>7. ASSUME NEW q \in Photo PROVE (shares[q].gen + Cardinality(Live(q)) <= MaxGen)'
  <2>1. CASE q = p
    <3>1. Live(q)' \subseteq Batch
      BY DEF Live
    <3>2. shares'[q].gen \in Nat /\ shares'[q].gen + Cardinality(Batch) <= MaxGen
      BY <1>1, <1>3, <2>1
    <3> QED BY <3>1, <3>2, FewerLive
  <2>2. CASE q # p
    <3>1. Live(q)' \subseteq Live(q) /\ Live(q) \subseteq Batch
      BY <1>3, <2>2 DEF Live, Status
    <3>2. shares[q].gen \in 0..MaxGen /\ shares[q].gen + Cardinality(Live(q)) <= MaxGen
      BY ShareFields DEF BatchIInv, GenKept
    <3>3. shares'[q].gen \in Nat /\ shares'[q].gen + Cardinality(Live(q)) <= MaxGen
      BY <1>3, <2>2, <3>2
    <3> QED BY <3>1, <3>3, FewerLive
  <2> QED BY <2>1, <2>2
<1> QED BY <1>4, <1>5, <1>6, <1>7 DEF BatchIInv, GenKept

LEMMA SinglePhotoStep ==
  ASSUME BatchIInv, NEW p \in Photo, ShareOne(p) \/ StopOne(p) \/ PhotoChanges(p)
  PROVE  BatchIInv'
<1>1. drawn \in 0..MaxToken /\ version \in [Photo -> 0..MaxVersion] /\ 0 \in 0..MaxToken
  BY DEF BatchIInv, BatchTypeOK
<1>2. CASE ShareOne(p)
  <2>1. drawn + 1 \in 0..MaxToken /\ drawn' = drawn + 1
    BY <1>1, <1>2 DEF ShareOne, Draw
  <2>2. GenLeft(p) /\ shares' = [shares EXCEPT ![p] = [token |-> drawn + 1, gen |-> shares[p].gen + 1]]
        /\ UNCHANGED <<version, batches, runners, latest, faults, unmarked>>
    BY <1>2 DEF ShareOne
  <2> QED BY <1>1, <2>1, <2>2, PermitMoves
<1>3. Retire(p) => GenLeft(p) /\ shares' = [shares EXCEPT ![p] = [token |-> 0, gen |-> shares[p].gen + 1]]
  BY DEF Retire
<1>4. CASE StopOne(p)
  BY <1>1, <1>3, <1>4, PermitMoves DEF StopOne
<1>5. CASE PhotoChanges(p)
  <2>1. version' \in [Photo -> 0..MaxVersion]
    BY <1>1, <1>5 DEF PhotoChanges
  <2> QED BY <1>1, <1>3, <1>5, <2>1, PermitMoves DEF PhotoChanges
<1> QED BY <1>2, <1>4, <1>5

\* A permit and its result change together: the permit stays, and the result
\* shows it; or it moves on from the generation the task knew.
LEMMA ResultStep ==
  ASSUME BatchIInv, NEW r \in Runner, runners[r].pc = "commit", GoOut(r, "next"), Owns(r),
         NEW st \in {"success", "failed"}, NEW t \in 0..MaxToken, NEW s,
         Result(r, st, t, s),
         \/ s = shares[runners[r].photo]
         \/ /\ SameGen(r)
            /\ \E k \in 0..MaxToken : s = [token |-> k, gen |-> shares[runners[r].photo].gen + 1],
         st = "success" => t = s.token,
         UNCHANGED <<version, latest, drawn, faults, unmarked>>
  PROVE  BatchIInv'
<1>1. PICK b \in Batch, p \in Photo : b = runners[r].batch /\ p = runners[r].photo
  BY DEF BatchIInv, Attempts, Working, At, CopySound, Handling
<1>2. /\ batches[b].status = "running" /\ batches[b].items[p].status # "out"
      /\ batches[b].items[p].gen = runners[r].gen
  BY <1>1 DEF Owns, Mine, BatchIInv, CopySound, Handling
<1>3. /\ shares[p] \in Share /\ shares[p].gen \in 0..MaxGen /\ IsFiniteSet(Live(p)) /\ Cardinality(Live(p)) \in Nat
      /\ shares[p].gen + Cardinality(Live(p)) <= MaxGen
  <2>1. Live(p) \subseteq Batch
    BY DEF Live
  <2>2. IsFiniteSet(Live(p)) /\ Cardinality(Live(p)) \in Nat
    BY <2>1, FS_Subset, FS_CardinalityType
  <2> QED BY <2>2, ShareFields DEF BatchIInv, GenKept
<1>4. SameGen(r) => b \in Live(p) /\ Cardinality(Live(p) \ {b}) = Cardinality(Live(p)) - 1
                    /\ Cardinality(Live(p) \ {b}) \in Nat
  <2> SUFFICES ASSUME SameGen(r)
               PROVE  b \in Live(p) /\ Cardinality(Live(p) \ {b}) = Cardinality(Live(p)) - 1
                      /\ Cardinality(Live(p) \ {b}) \in Nat
    OBVIOUS
  <2>1. b \in Live(p)
    BY <1>1, <1>2 DEF Live, SameGen
  <2>2. Cardinality(Live(p) \ {b}) = Cardinality(Live(p)) - 1 /\ IsFiniteSet(Live(p) \ {b})
    BY <1>3, <2>1, FS_RemoveElement
  <2> QED BY <2>1, <2>2, FS_CardinalityType
<1>5. /\ s \in Share /\ s.gen \in 0..MaxGen /\ s.token \in 0..MaxToken
      /\ \/ s = shares[p]
         \/ SameGen(r) /\ s.gen = shares[p].gen + 1 /\ shares[p].gen + 1 + Cardinality(Live(p) \ {b}) <= MaxGen
  <2>1. CASE s = shares[p]
    BY <2>1, ShareFields DEF BatchIInv
  <2>2. CASE SameGen(r) /\ \E k \in 0..MaxToken : s = [token |-> k, gen |-> shares[p].gen + 1]
    <3>1. shares[p].gen + 1 + Cardinality(Live(p) \ {b}) <= MaxGen /\ shares[p].gen + 1 \in 0..MaxGen
      BY <1>3, <1>4, <2>2
    <3> QED BY <2>2, <3>1 DEF Share
  <2> QED BY <1>1, <2>1, <2>2
<1>6. PICK it \in Item : it = batches[b].items[p]
  BY ItemFields DEF BatchIInv
<1> DEFINE at   == IF st = "success" THEN s.gen ELSE 0
           new  == [it EXCEPT !.status = st, !.token = t, !.at = at]
           task == [batches[b] EXCEPT !.items = [batches[b].items EXCEPT ![p] = new]]
<1>7. batches' = [batches EXCEPT ![b] = task] /\ shares' = [shares EXCEPT ![p] = s]
  BY <1>1, <1>6 DEF Result
<1>8. /\ new \in Item /\ new.status = st /\ new.token = t /\ new.gen = it.gen
      /\ new.at \in 0..MaxGen /\ new.at <= s.gen /\ (st = "success" => new.at = s.gen)
  <2>1. at \in 0..MaxGen /\ at <= s.gen /\ (st = "success" => at = s.gen)
    BY <1>5
  <2> HIDE DEF at
  <2> QED BY <2>1 DEF Item
<1> HIDE DEF new
<1>9. /\ task \in BatchState /\ task.status = "running" /\ task.revision = batches[b].revision
      /\ task.items[p] = new /\ \A q \in Photo : q # p => task.items[q] = batches[b].items[q]
  BY <1>2, <1>8, BatchFields DEF BatchState, BatchIInv
<1> HIDE DEF task
<1>10. /\ batches' \in [Batch -> BatchState] /\ batches'[b] = task
       /\ \A c \in Batch : c # b => batches'[c] = batches[c]
       /\ shares' \in [Photo -> Share] /\ shares'[p] = s
       /\ \A q \in Photo : q # p => shares'[q] = shares[q]
  BY <1>5, <1>7, <1>9 DEF BatchIInv, BatchTypeOK
<1>11. /\ Moves(r) /\ runners'[r].pc = "next" /\ runners'[r].batch = runners[r].batch
       /\ runners'[r].revision = runners[r].revision
  BY RunnerGoesOut DEF BatchIInv
<1>12. BatchTypeOK'
  BY <1>10, <1>11 DEF BatchIInv, BatchTypeOK, Moves
<1>13. \A c \in Batch : batches'[c].status = batches[c].status /\ batches'[c].revision = batches[c].revision
  BY <1>2, <1>9, <1>10
<1>14. \A q \in Runner : /\ runners'[q].batch = runners[q].batch /\ runners'[q].revision = runners[q].revision
                         /\ runners'[q].pc = "none" <=> runners[q].pc = "none"
                         /\ runners'[q].pc \in Handling => runners'[q] = runners[q]
  BY <1>11 DEF Moves, Handling
<1>15. Attempts'
  <2>1. unmarked' = unmarked
    OBVIOUS
  <2>2. \A q \in Runner : Working(q)' <=> Working(q)
    BY <1>14 DEF Working, At
  <2>3. \A c \in Batch : Running(c)' <=> Running(c)
    BY <1>13 DEF Running, Status
  <2>4. \A q \in Runner : Working(q) => runners[q].batch \in Batch
    BY DEF BatchIInv, Attempts
  <2>5. /\ \A q \in Runner : Working(q) =>
             /\ Mine(q)'.status = Mine(q).status /\ Mine(q)'.revision = Mine(q).revision
    BY <1>13, <1>14, <2>4 DEF Mine
  <2> QED BY <1>13, <1>14, <2>1, <2>2, <2>3, <2>4, <2>5 DEF BatchIInv, Attempts
<1>16. \A c \in Batch, q \in Photo : /\ batches'[c].items[q].gen = batches[c].items[q].gen
                                     /\ batches'[c].items[q].status = "out" <=> batches[c].items[q].status = "out"
                                     /\ batches'[c].items[q] = batches[c].items[q] \/ (c = b /\ q = p)
  <2>1. ASSUME NEW c \in Batch, NEW q \in Photo
        PROVE  /\ batches'[c].items[q].gen = batches[c].items[q].gen
               /\ batches'[c].items[q].status = "out" <=> batches[c].items[q].status = "out"
               /\ batches'[c].items[q] = batches[c].items[q] \/ (c = b /\ q = p)
    <3>1. CASE c # b
      BY <1>10, <3>1
    <3>2. CASE c = b /\ q # p
      BY <1>9, <1>10, <3>2
    <3>3. CASE c = b /\ q = p
      BY <1>2, <1>6, <1>8, <1>9, <1>10, <3>3
    <3> QED BY <3>1, <3>2, <3>3
  <2> QED BY <2>1
<1>17. ASSUME NEW q \in Runner PROVE CopySound(q)'
  <2> SUFFICES ASSUME runners'[q].pc \in Handling
               PROVE  /\ runners'[q].photo \in Photo
                      /\ \/ Mine(q)'.status = "forgotten"
                         \/ /\ Mine(q)'.items[runners'[q].photo].status # "out"
                            /\ Mine(q)'.items[runners'[q].photo].gen = runners'[q].gen
    BY DEF CopySound
  <2>1. runners'[q] = runners[q] /\ runners[q].pc # "none"
    BY <1>14 DEF Handling
  <2>2. CopySound(q) /\ runners[q].batch \in Batch
    BY <2>1 DEF BatchIInv, Attempts, Working, At
  <2>3. PICK c \in Batch, x \in Photo : c = runners[q].batch /\ x = runners[q].photo
    BY <2>1, <2>2 DEF CopySound
  <2>4. batches[c].status = "forgotten" \/ (batches[c].items[x].status # "out" /\ batches[c].items[x].gen = runners[q].gen)
    BY <2>1, <2>2, <2>3 DEF CopySound, Mine
  <2>5. batches'[c].status = "forgotten" \/ (batches'[c].items[x].status # "out" /\ batches'[c].items[x].gen = runners[q].gen)
    BY <1>13, <1>16, <2>4
  <2> QED BY <2>1, <2>3, <2>5 DEF Mine
<1>18. ASSUME NEW c \in Batch, NEW q \in Photo PROVE ItemSound(c, q)'
  <2>1. /\ ItemSound(c, q) /\ batches[c].items[q].gen \in 0..MaxGen /\ batches[c].items[q].at \in 0..MaxGen
        /\ shares[q].gen \in 0..MaxGen
    BY ItemFields, ShareFields DEF BatchIInv
  <2>2. CASE q # p
    BY <1>10, <1>16, <2>1, <2>2 DEF ItemSound
  <2>3. CASE q = p /\ c # b
    BY <1>5, <1>10, <1>16, <2>1, <2>3 DEF ItemSound
  <2>4. CASE q = p /\ c = b
    BY <1>5, <1>6, <1>8, <1>9, <1>10, <2>1, <2>4 DEF ItemSound
  <2> QED BY <2>2, <2>3, <2>4
<1>19. ASSUME NEW q \in Photo PROVE (shares[q].gen + Cardinality(Live(q)) <= MaxGen)'
  <2>1. CASE shares'[q].gen = shares[q].gen
    <3>1. Live(q)' \subseteq Live(q) /\ Live(q) \subseteq Batch
      BY <1>13, <1>16, <2>1 DEF Live, Status
    <3>2. shares[q].gen \in 0..MaxGen /\ shares[q].gen + Cardinality(Live(q)) <= MaxGen
      BY ShareFields DEF BatchIInv, GenKept
    <3>3. shares'[q].gen \in Nat /\ shares'[q].gen + Cardinality(Live(q)) <= MaxGen
      BY <2>1, <3>2
    <3> QED BY <3>1, <3>3, FewerLive
  <2>2. CASE q = p /\ SameGen(r) /\ s.gen = shares[p].gen + 1
             /\ shares[p].gen + 1 + Cardinality(Live(p) \ {b}) <= MaxGen
    <3>1. ASSUME NEW c \in Batch, c \in Live(p)' PROVE c \in Live(p) \ {b}
      <4>1. batches[c].items[p].gen <= shares[p].gen /\ batches[c].items[p].gen \in 0..MaxGen
        <5>1. batches[c].items[p].gen \in 0..MaxGen
          BY ItemFields DEF BatchIInv
        <5> QED BY <5>1 DEF BatchIInv, ItemSound
      <4>2. batches'[c].items[p].gen # shares'[p].gen
        <5>1. shares'[p].gen = shares[p].gen + 1 /\ batches'[c].items[p].gen = batches[c].items[p].gen
          BY <1>10, <1>16, <2>2
        <5> QED BY <1>3, <4>1, <5>1
      <4>3. batches[c].status = "none"
        BY <1>13, <3>1, <4>2 DEF Live, Status
      <4> QED BY <1>2, <4>3 DEF Live, Status
    <3>2. Live(q)' \subseteq Live(p) \ {b} /\ Live(p) \ {b} \subseteq Batch
      BY <2>2, <3>1 DEF Live
    <3>3. shares'[q].gen \in Nat /\ shares'[q].gen + Cardinality(Live(p) \ {b}) <= MaxGen
      BY <1>3, <1>10, <2>2
    <3> QED BY <3>2, <3>3, FewerLive
  <2> QED BY <1>5, <1>10, <2>1, <2>2
<1> QED BY <1>12, <1>15, <1>17, <1>18, <1>19 DEF BatchIInv, GenKept

\* Every outcome of commitBatchItem is such a result.
LEMMA CommitStep ==
  ASSUME BatchIInv, NEW r \in Runner, Commit(r)
  PROVE  BatchIInv'
<1>1. runners[r].pc = "commit" /\ GoOut(r, "next") /\ UNCHANGED <<version, latest, drawn, faults, unmarked>>
  BY DEF Commit, At
<1>2. CASE ~Owns(r)
  <2>1. UNCHANGED <<batches, shares>> /\ drawn' \in 0..MaxToken /\ faults' \in 0..MaxFaults
    BY <1>1, <1>2 DEF Commit, BatchIInv, BatchTypeOK
  <2> QED BY <1>1, <2>1, RunnerGoesOut, RunnerGoesOn DEF BatchIInv, Handling
<1>3. PICK p \in Photo : p = runners[r].photo
  BY <1>1 DEF BatchIInv, CopySound, Handling
<1>4. shares[p].token \in 0..MaxToken /\ runners[r].token \in 0..MaxToken /\ 0 \in 0..MaxToken
  <2>1. shares[p].token \in 0..MaxToken
    BY ShareFields DEF BatchIInv
  <2>2. runners[r].token \in 0..MaxToken
    BY RunnerFields DEF BatchIInv
  <2> QED BY <2>1, <2>2
<1>5. CASE Owns(r) /\ CommitFailure(r)
  <2>1. PICK s : Result(r, "failed", 0, s) /\ \/ s = shares[p]
                                              \/ SameGen(r) /\ s = [token |-> 0, gen |-> shares[p].gen + 1]
    BY <1>3, <1>5 DEF CommitFailure
  <2> QED BY <1>1, <1>3, <1>4, <1>5, <2>1, ResultStep
<1>6. ItemError(r) = "" => SameGen(r)
  BY DEF ItemError
<1>7. CASE Owns(r) /\ CommitOpen(r)
  <2>1. SameGen(r)
    BY <1>6, <1>7 DEF CommitOpen
  <2>2. CASE Result(r, "success", shares[p].token, shares[p])
    BY <1>1, <1>3, <1>4, <1>7, <2>2, ResultStep
  <2>3. CASE Result(r, "failed", 0, [token |-> 0, gen |-> shares[p].gen + 1])
    BY <1>1, <1>3, <1>4, <1>7, <2>1, <2>3, ResultStep
  <2>4. CASE Result(r, "success", runners[r].token, [token |-> runners[r].token, gen |-> shares[p].gen + 1])
    BY <1>1, <1>3, <1>4, <1>7, <2>1, <2>4, ResultStep
  <2> QED BY <1>3, <1>7, <2>2, <2>3, <2>4 DEF CommitOpen
<1>8. CASE Owns(r) /\ CommitStop(r)
  <2>1. SameGen(r)
    BY <1>6, <1>8 DEF CommitStop
  <2>2. CASE Result(r, "success", 0, [token |-> 0, gen |-> shares[p].gen + 1])
    BY <1>1, <1>3, <1>4, <1>8, <2>1, <2>2, ResultStep
  <2>3. CASE ~Active(p) /\ Result(r, "success", 0, shares[p])
    BY <1>1, <1>3, <1>4, <1>8, <2>3, ResultStep DEF Active
  <2> QED BY <1>3, <1>8, <2>2, <2>3 DEF CommitStop
<1> QED BY <1>2, <1>5, <1>7, <1>8 DEF Commit, CommitItem
-----------------------------------------------------------------------------
LEMMA BatchStep == BatchIInv /\ [Next]_vars => BatchIInv'
<1> SUFFICES ASSUME BatchIInv, [Next]_vars PROVE BatchIInv'
  OBVIOUS
<1>1. CASE \E p \in Photo : ShareOne(p) \/ StopOne(p) \/ PhotoChanges(p)
  BY <1>1, SinglePhotoStep
<1>2. ASSUME NEW b \in Batch, \E mode \in {"open", "stop"}, chosen \in SUBSET Photo : Prepare(b, mode, chosen)
      PROVE  BatchIInv'
  BY <1>2, PrepareStep
<1>3. CASE \E b \in Batch : Forget(b)
  BY <1>3, ForgetStep
<1>4. ASSUME NEW b \in Batch, NEW n \in 0..MaxRevision,
             Cancel(b, n) \/ \E r \in Runner, retry \in BOOLEAN : Launch(b, r, n, retry)
      PROVE  BatchIInv'
  BY <1>4, CancelStep, LaunchStep
<1>5. ASSUME NEW r \in Runner, Run(r) \/ Break(r) PROVE BatchIInv'
  BY <1>5, NextItemStep, CheckStep, CommitStep, LeaveStep DEF Run
<1>6. CASE Restart
  BY <1>6, RestartStep
<1>7. CASE UNCHANGED vars
  BY <1>7 DEF vars, BatchIInv, BatchTypeOK, Attempts, CopySound, ItemSound, GenKept, Live, Working, At, Mine,
              Running, Status
<1> QED BY <1>1, <1>2, <1>3, <1>4, <1>5, <1>6, <1>7 DEF Next

\* At any time a task that runs has the one goroutine that may commit for it, or
\* its mark has failed and it has none; results and permits agree, and the
\* generations suffice.
THEOREM BatchesAlwaysSound == Spec => []BatchIInv
  BY BatchInit, BatchStep, PTL DEF Spec

\* One task runs at a time.  Its attempt has exactly one goroutine, through every
\* cancel, retry, failure and restart, or interruptBatch has failed for it, and
\* then it has none (launch, run).
THEOREM OneTaskOneRunner == Spec => []BatchInv
<1>1. ASSUME BatchIInv PROVE BatchInv
  <2>1. \A b, c \in Batch : Running(b) /\ Running(c) => b = c
    BY <1>1 DEF BatchIInv, Attempts
  <2>2. ASSUME NEW b \in Batch, Running(b)
        PROVE  Cardinality({r \in Runner : ~At(r, "none") /\ Attempt(r) = <<b, batches[b].revision>>})
                 = IF Stranded(b) THEN 0 ELSE 1
    <3> DEFINE R == {r \in Runner : ~At(r, "none") /\ Attempt(r) = <<b, batches[b].revision>>}
    <3>1. R = {r \in Runner : Working(r) /\ runners[r].batch = b /\ runners[r].revision = batches[b].revision}
      BY DEF Working, Attempt
    <3> HIDE DEF R
    <3>2. CASE Stranded(b)
      <4>1. R = {}
        BY <1>1, <3>1, <3>2 DEF BatchIInv, Attempts, Stranded
      <4> QED BY <3>2, <4>1, FS_EmptySet DEF R
    <3>3. CASE ~Stranded(b)
      <4>1. PICK r \in Runner : Working(r) /\ runners[r].batch = b /\ runners[r].revision = batches[b].revision
        BY <1>1, <2>2, <3>3 DEF BatchIInv, Attempts, Stranded
      <4>2. \A q \in Runner : Working(q) /\ runners[q].batch = b /\ runners[q].revision = batches[b].revision => q = r
        BY <1>1, <4>1 DEF BatchIInv, Attempts
      <4>3. R = {r}
        BY <3>1, <4>1, <4>2
      <4> QED BY <3>3, <4>3, FS_Singleton DEF R
    <3> QED BY <3>2, <3>3
  <2> QED BY <1>1, <2>1, <2>2 DEF BatchInv, BatchIInv, RunningHasItsRunner
<1> QED BY <1>1, BatchesAlwaysSound, PTL

\* A result that nothing newer has overtaken shows the permit of its photo as it
\* is: commitBatchItem writes both or none, and no late runner writes one.
THEOREM ResultsTellTheTruth == Spec => []ResultMatchesPermit
<1>1. BatchIInv => ResultMatchesPermit
  BY DEF BatchIInv, ItemSound, ResultMatchesPermit
<1> QED BY <1>1, BatchesAlwaysSound, PTL

\* Permits that change while a goroutine leaves its commit change by that commit.
LEMMA CommitOnly ==
  ASSUME BatchIInv, Next, NEW r \in Runner, At(r, "commit"), ~At(r, "commit")', shares' # shares
  PROVE  Commit(r) /\ Owns(r) /\ CommitItem(r)
<1>1. ~\E p \in Photo : ShareOne(p) \/ StopOne(p) \/ PhotoChanges(p)
  BY DEF ShareOne, StopOne, PhotoChanges, At
<1>2. \A b \in Batch : \A mode \in {"open", "stop"}, chosen \in SUBSET Photo : ~Prepare(b, mode, chosen)
  BY DEF Prepare
<1>3. \A b \in Batch : ~Forget(b)
  BY DEF Forget
<1>4. \A b \in Batch, n \in 0..MaxRevision : /\ ~Cancel(b, n)
                                             /\ \A q \in Runner, retry \in BOOLEAN : ~Launch(b, q, n, retry)
  BY DEF Cancel, Launch
<1>5. ~Restart /\ \A q \in Runner : ~Break(q)
  BY DEF Restart, Break
<1>6. PICK q \in Runner : Run(q)
  BY <1>1, <1>2, <1>3, <1>4, <1>5 DEF Next
<1>7. Commit(q)
  BY <1>6 DEF Run, NextItem, CheckItem, ReadOriginal, Proceed, Leave
<1>8. q = r
  BY <1>7, RunnerGoesOut DEF Commit, BatchIInv, Moves, At
<1> QED BY <1>7, <1>8 DEF Commit

\* A goroutine only moves a permit of the generation its task was prepared with,
\* and only makes one for the version of the photo it was prepared with
\* (batchItemCurrent inside the transaction of commitBatchItem).
THEOREM NewerIntentAlwaysWins == Spec => NewerIntentWins
<1> DEFINE A == \A r \in Runner, p \in Photo :
       At(r, "commit") /\ ~At(r, "commit")' /\ shares'[p] # shares[p] =>
         /\ SameGen(r)
         /\ shares'[p].token # 0 => SameVersion(r)
<1>1. ASSUME BatchIInv, Next PROVE A
  <2> SUFFICES ASSUME NEW r \in Runner, NEW p \in Photo, At(r, "commit"), ~At(r, "commit")', shares'[p] # shares[p]
               PROVE  SameGen(r) /\ (shares'[p].token # 0 => SameVersion(r))
    OBVIOUS
  <2>1. CommitItem(r)
    BY <1>1, CommitOnly
  <2>2. CASE ItemError(r) = ""
    BY <2>2 DEF ItemError
  <2>3. CASE ItemError(r) # ""
    <3>1. CommitFailure(r)
      BY <2>1, <2>3 DEF CommitItem, CommitOpen, CommitStop
    <3>2. PICK x : x = runners[r].photo
      OBVIOUS
    <3>3. PICK s : /\ shares' = [shares EXCEPT ![x] = s]
                   /\ s = shares[x] \/ (SameGen(r) /\ s = [token |-> 0, gen |-> shares[x].gen + 1])
      BY <3>1, <3>2 DEF CommitFailure, Result
    <3>4. x = p /\ shares'[p] = s
      BY <1>1, <3>3 DEF BatchIInv, BatchTypeOK
    <3> QED BY <3>3, <3>4
  <2> QED BY <2>2, <2>3
<1>3. BatchIInv /\ [Next]_vars => [A]_vars
  BY <1>1
<1> QED BY <1>3, BatchesAlwaysSound, PTL DEF Spec, NewerIntentWins

\* A task that has ended keeps its results until its owner starts it again, and
\* its goroutine, however late, changes no permit (the check of the attempt in
\* commitBatchItem).
THEOREM EndedTasksStayStill == Spec => StoppedStaysStill
<1> DEFINE Stopped == {"completed", "cancelled", "interrupted"}
           A == \A b \in Batch : Status(b) \in Stopped =>
       /\ batches'[b].status = Status(b) => batches'[b].items = batches[b].items
       /\ \A r \in Runner : runners[r].batch = b /\ At(r, "commit") /\ ~At(r, "commit")' => shares' = shares
<1>1. ASSUME BatchIInv, Next, NEW b \in Batch, batches[b].status \in Stopped, batches'[b].status = batches[b].status
      PROVE  batches'[b].items = batches[b].items
  <2>1. CASE \E p \in Photo : ShareOne(p) \/ StopOne(p) \/ PhotoChanges(p)
    BY <2>1 DEF ShareOne, StopOne, PhotoChanges
  <2>2. ASSUME NEW c \in Batch, NEW mode \in {"open", "stop"}, NEW chosen \in SUBSET Photo, Prepare(c, mode, chosen)
        PROVE  batches'[b].items = batches[b].items
    BY <1>1, <2>2 DEF Prepare, Status, BatchIInv, BatchTypeOK
  <2>3. ASSUME NEW c \in Batch, Forget(c) PROVE batches'[b].items = batches[b].items
    <3>1. Gone.status = "forgotten" /\ batches' = [batches EXCEPT ![c] = Gone]
      BY <2>3 DEF Forget, Gone, NoBatch
    <3> QED BY <1>1, <3>1 DEF BatchIInv, BatchTypeOK
  <2>4. ASSUME NEW c \in Batch, NEW s \in Statuses, SetStatus(c, s) PROVE batches'[b].items = batches[b].items
    BY <2>4, <1>1, StatusTyped DEF BatchIInv
  <2>5. ASSUME NEW c \in Batch, NEW n \in 0..MaxRevision, Cancel(c, n) PROVE batches'[b].items = batches[b].items
    BY <2>4, <2>5 DEF Cancel, Statuses
  <2>6. ASSUME NEW c \in Batch, NEW n \in 0..MaxRevision, NEW r \in Runner, NEW retry \in BOOLEAN, Launch(c, r, n, retry)
        PROVE  batches'[b].items = batches[b].items
    <3>1. PICK I : I = IF retry THEN Again(batches[c].items) ELSE batches[c].items
      OBVIOUS
    <3> DEFINE new == [batches[c] EXCEPT !.status = "running", !.revision = batches[c].revision + 1, !.items = I]
    <3>2. batches' = [batches EXCEPT ![c] = new]
      BY <2>6, <3>1 DEF Launch
    <3>3. new.status = "running"
      BY <1>1, BatchFields DEF BatchState, BatchIInv
    <3> HIDE DEF new
    <3> QED BY <1>1, <3>2, <3>3 DEF BatchIInv, BatchTypeOK
  <2>7. ASSUME NEW r \in Runner, Break(r) \/ CheckItem(r) \/ ReadOriginal(r) \/ Proceed(r)
        PROVE  batches'[b].items = batches[b].items
    BY <2>7 DEF Break, CheckItem, ReadOriginal, Proceed
  <2>8. ASSUME NEW r \in Runner, NextItem(r) \/ Leave(r) PROVE batches'[b].items = batches[b].items
    <3>1. runners[r].batch \in Batch
      BY <1>1, <2>8 DEF NextItem, Leave, At, BatchIInv, Attempts, Working
    <3>2. UNCHANGED batches \/ \E s \in {"completed", "interrupted"} : SetStatus(runners[r].batch, s)
      BY <2>8 DEF NextItem, Leave
    <3> QED BY <2>4, <3>1, <3>2 DEF Statuses
  <2>9. ASSUME NEW r \in Runner, Commit(r) PROVE batches'[b].items = batches[b].items
    <3>1. CASE runners[r].batch = b
      BY <1>1, <2>9, <3>1 DEF Commit, Owns, Mine
    <3>2. CASE runners[r].batch # b /\ Owns(r)
      <4>1. CommitItem(r)
        BY <2>9, <3>2 DEF Commit
      <4>2. PICK st, t, s : Result(r, st, t, s)
        <5>1. CASE CommitFailure(r)
          BY <5>1 DEF CommitFailure
        <5>2. CASE CommitOpen(r)
          BY <5>2 DEF CommitOpen
        <5>3. CASE CommitStop(r)
          BY <5>3 DEF CommitStop
        <5> QED BY <4>1, <5>1, <5>2, <5>3 DEF CommitItem
      <4>3. PICK c, new : c # b /\ batches' = [batches EXCEPT ![c] = new]
        BY <3>2, <4>2 DEF Result
      <4> QED BY <1>1, <4>3 DEF BatchIInv, BatchTypeOK
    <3>3. CASE ~Owns(r)
      BY <2>9, <3>3 DEF Commit
    <3> QED BY <3>1, <3>2, <3>3
  <2>10. CASE Restart
    BY <1>1, <2>10 DEF Restart, Running, Status
  <2> QED BY <1>1, <2>1, <2>2, <2>3, <2>5, <2>6, <2>7, <2>8, <2>9, <2>10 DEF Next, Run
<1>2. ASSUME BatchIInv, Next, NEW b \in Batch, batches[b].status \in Stopped, NEW r \in Runner, runners[r].batch = b,
             At(r, "commit"), ~At(r, "commit")'
      PROVE  shares' = shares
  <2>1. ~Owns(r)
    BY <1>2 DEF Owns, Mine
  <2> QED BY <1>2, <2>1, CommitOnly
<1>3. ASSUME BatchIInv, Next PROVE A
  BY <1>1, <1>2, <1>3 DEF Status
<1>4. BatchIInv /\ [Next]_vars => [A]_vars
  BY <1>3
<1> QED BY <1>4, BatchesAlwaysSound, PTL DEF Spec, StoppedStaysStill
=============================================================================
