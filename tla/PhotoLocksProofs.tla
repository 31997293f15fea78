-------------------------- MODULE PhotoLocksProofs --------------------------
(***************************************************************************)
(* Proofs about PhotoLocks: LockInv is inductive for any number of callers *)
(* and keys, hence mutual exclusion and a map that holds exactly the keys  *)
(* in use, and every step is a step of KeyedMutex or a stutter.  Then      *)
(* about PhotoSlots: what happens under a lock keeps the locks, and no     *)
(* slot is lost, for any number of slots.                                  *)
(***************************************************************************)
EXTENDS PhotoSlots, FiniteSetTheorems, TLAPS

USE LockConstants

\* The callers counted on an object are finitely many.
LEMMA RefsFinite ==
  \A o : IsFiniteSet(Refs(o)) /\ Cardinality(Refs(o)) \in Nat
<1>1. TAKE o
<1>2. Refs(o) \in SUBSET Caller
  BY DEF Refs
<1> QED
  BY <1>2, FS_Subset, FS_CardinalityType

\* An object has count zero exactly when nobody refers to it, and count one
\* exactly when one caller does (releaseRef's test).
LEMMA CountMeaning ==
  ASSUME NEW o
  PROVE  /\ Cardinality(Refs(o)) = 0 <=> Refs(o) = {}
         /\ Cardinality(Refs(o)) = 1 <=> \E c : Refs(o) = {c}
BY RefsFinite, FS_EmptySet, FS_Singleton

\* The initial state has no entry, no caller and no token.
LEMMA InitLockInv == Init => LockInv
<1> SUFFICES ASSUME Init PROVE LockInv
  OBVIOUS
<1>1. \A o \in Object : Refs(o) = {}
  BY DEF Init, Refs
<1>2. UsersCounted
  BY <1>1, FS_EmptySet DEF UsersCounted, Init
<1> QED
  BY <1>2 DEF Init, LockInv, TypeOK, Registered, OneKeyPerObject, EntriesUsed,
              TokenIsInside, Inside, Step

\* Naming a key keeps the invariant: the caller joins the object the map has,
\* or a new object that nobody else can reach.
LEMMA EnterLockInv ==
  ASSUME LockInv, NEW c \in Caller, NEW k \in Key, NEW o \in Object, Enter(c, k, o)
  PROVE  LockInv'
<1> USE DEF LockInv
<1>1. TypeOK'
  BY DEF Enter, TypeOK, Step
<1>2. ref[c] = NoObject /\ c \notin Refs(o)
  BY DEF Enter, Registered, Refs, TypeOK
<1>3. Refs(o)' = Refs(o) \cup {c}
  BY DEF Refs, Enter, TypeOK
<1>4. \A p \in Object \ {o} : Refs(p)' = Refs(p)
  BY <1>2 DEF Refs, Enter, TypeOK
<1>5. keys[k] = NoObject => Refs(o) = {}
  BY DEF Enter, Lookup, Garbage, Refs
<1>6. Registered'
  BY DEF Enter, Registered, TypeOK, Lookup
<1>7. UsersCounted'
  <2>1. users'[o] = Cardinality(Refs(o)) + 1
    <3>1. CASE keys[k] = NoObject
      <4>1. users'[o] = 1
        BY <3>1 DEF Enter, TypeOK
      <4>2. Cardinality(Refs(o)) = 0
        BY <3>1, <1>5, FS_EmptySet
      <4> QED BY <4>1, <4>2
    <3>2. CASE keys[k] # NoObject
      BY <3>2 DEF Enter, TypeOK, UsersCounted
    <3> QED BY <3>1, <3>2
  <2>2. Cardinality(Refs(o)') = Cardinality(Refs(o)) + 1
    BY <1>2, <1>3, RefsFinite, FS_AddElement
  <2> QED
    BY <2>1, <2>2, <1>4 DEF Enter, TypeOK, UsersCounted
<1>8. OneKeyPerObject'
  BY DEF Enter, OneKeyPerObject, Lookup, Garbage, TypeOK
<1>9. EntriesUsed'
  BY DEF Enter, EntriesUsed, Lookup, Registered, TypeOK
<1>10. TokenIsInside'
  BY <1>5 DEF Enter, TokenIsInside, Inside, Registered, Lookup, Garbage, TypeOK
<1> QED
  BY <1>1, <1>6, <1>7, <1>8, <1>9, <1>10

\* Steps that leave the map and the references alone keep the counting part.
LEMMA StillCounted ==
  ASSUME LockInv, UNCHANGED <<keys, users, want, ref>>,
         \A c \in Caller : pc'[c] = "idle" <=> pc[c] = "idle"
  PROVE  Registered' /\ UsersCounted' /\ OneKeyPerObject' /\ EntriesUsed'
BY DEF LockInv, Registered, UsersCounted, OneKeyPerObject, EntriesUsed, Refs

\* Being admitted puts the only token into an empty gate.
LEMMA PassLockInv ==
  ASSUME LockInv, NEW c \in Caller, Pass(c)
  PROVE  LockInv'
<1>1. TypeOK'
  BY DEF Pass, LockInv, TypeOK, Step, Registered
<1>2. Registered' /\ UsersCounted' /\ OneKeyPerObject' /\ EntriesUsed'
  BY StillCounted DEF Pass, LockInv, TypeOK
<1>3. TokenIsInside'
  BY DEF Pass, LockInv, TypeOK, TokenIsInside, Inside, Registered
<1> QED
  BY <1>1, <1>2, <1>3 DEF LockInv

\* Steps that only move a caller or its context.
LEMMA MoveLockInv ==
  ASSUME LockInv, NEW c \in Caller,
         GiveUp(c) \/ Confirm(c) \/ Cancel(c) \/ NewCall(c)
  PROVE  LockInv'
<1>1. TypeOK'
  BY DEF GiveUp, Confirm, Cancel, NewCall, LockInv, TypeOK, Step
<1>2. Registered' /\ UsersCounted' /\ OneKeyPerObject' /\ EntriesUsed'
  BY StillCounted DEF GiveUp, Confirm, Cancel, NewCall, LockInv, TypeOK
<1>3. TokenIsInside'
  BY DEF GiveUp, Confirm, Cancel, NewCall, LockInv, TypeOK, TokenIsInside, Inside
<1> QED
  BY <1>1, <1>2, <1>3 DEF LockInv

\* Emptying the gate takes out the caller's own token.
LEMMA EmptyLockInv ==
  ASSUME LockInv, NEW c \in Caller, Empty(c)
  PROVE  LockInv'
<1>1. TypeOK'
  BY DEF Empty, LockInv, TypeOK, Step
<1>2. Registered' /\ UsersCounted' /\ OneKeyPerObject' /\ EntriesUsed'
  BY StillCounted DEF Empty, LockInv, TypeOK
<1>3. ref[c] \in Object /\ gate' = [gate EXCEPT ![ref[c]] = {}]
  BY DEF Empty, LockInv, Registered, TypeOK
<1>4. \A d \in Caller \ {c} : Inside(d) => ref[d] # ref[c]
  BY DEF Empty, LockInv, TokenIsInside, Inside, TypeOK, Registered
<1>5. \A p \in Object : \A d \in gate'[p] : d # c /\ d \in gate[p]
  BY <1>3 DEF LockInv, TokenIsInside, TypeOK
<1>6. \A d \in Caller : Inside(d)' => d # c /\ Inside(d)
  BY DEF Empty, LockInv, TypeOK, Inside
<1>7. \A d \in Caller \ {c} : Inside(d)' <=> Inside(d)
  BY DEF Empty, LockInv, TypeOK, Inside
<1>8. ref' = ref
  BY DEF Empty
<1>9. TokenIsInside'
  <2>1. \A p \in Object : \A d, e \in gate'[p] : d = e
    BY <1>5 DEF LockInv, TokenIsInside
  <2>2. \A p \in Object : \A d \in gate'[p] : Inside(d)' /\ ref'[d] = p
    BY <1>5, <1>7, <1>8 DEF LockInv, TokenIsInside, TypeOK
  <2>3. \A d \in Caller : Inside(d)' => d \in gate'[ref'[d]]
    BY <1>3, <1>4, <1>6, <1>8 DEF LockInv, TokenIsInside, TypeOK
  <2> QED
    BY <2>1, <2>2, <2>3 DEF TokenIsInside
<1> QED
  BY <1>1, <1>2, <1>9 DEF LockInv

\* Letting go drops the map entry exactly when nobody else counts on it.
LEMMA ReleaseLockInv ==
  ASSUME LockInv, NEW c \in Caller, ReleaseRef(c)
  PROVE  LockInv'
<1> USE DEF LockInv
<1>0. PICK o \in Object : ref[c] = o
  BY DEF ReleaseRef, Registered
<1>1. ref[c] = o /\ want[c] \in Key /\ keys[want[c]] = o /\ c \in Refs(o)
  BY <1>0 DEF ReleaseRef, Registered, Refs
<1>2. Refs(o)' = Refs(o) \ {c}
  BY <1>1 DEF ReleaseRef, LetGo, Refs, TypeOK
<1>3. \A p \in Object \ {o} : Refs(p)' = Refs(p)
  BY <1>1 DEF ReleaseRef, LetGo, Refs, TypeOK
<1>4. users[o] = Cardinality(Refs(o)) /\ users[o] \in Nat /\ users[o] # 0
  BY <1>1, CountMeaning DEF UsersCounted, TypeOK
<1>5. users[o] = 1 <=> Refs(o) = {c}
  BY <1>1, <1>4, CountMeaning
<1>6. TypeOK'
  BY <1>1, <1>4 DEF ReleaseRef, LetGo, TypeOK, Step
<1>7. Registered'
  BY <1>1, <1>5 DEF ReleaseRef, LetGo, Registered, TypeOK, Refs, OneKeyPerObject
<1>8. UsersCounted'
  <2>1. Cardinality(Refs(o)') = Cardinality(Refs(o)) - 1
    BY <1>1, <1>2, RefsFinite, FS_RemoveElement
  <2>2. users'[o] = Cardinality(Refs(o)')
    BY <2>1, <1>1, <1>4 DEF ReleaseRef, TypeOK
  <2>3. \A p \in Object \ {o} : users'[p] = Cardinality(Refs(p)')
    BY <1>1, <1>3 DEF ReleaseRef, TypeOK, UsersCounted
  <2> QED
    BY <2>2, <2>3 DEF UsersCounted
<1>9. OneKeyPerObject'
  BY <1>1 DEF ReleaseRef, OneKeyPerObject, TypeOK
<1>10. EntriesUsed'
  BY <1>1, <1>5 DEF ReleaseRef, LetGo, EntriesUsed, OneKeyPerObject, TypeOK, Refs
<1>11. TokenIsInside'
  BY <1>1 DEF ReleaseRef, LetGo, TokenIsInside, Inside, TypeOK, Registered
<1> QED
  BY <1>6, <1>7, <1>8, <1>9, <1>10, <1>11

\* Every step keeps LockInv.
LEMMA NextLockInv == LockInv /\ [Next]_vars => LockInv'
<1> SUFFICES ASSUME LockInv, [Next]_vars PROVE LockInv'
  OBVIOUS
<1>1. CASE Next
  BY <1>1, EnterLockInv, PassLockInv, MoveLockInv, EmptyLockInv, ReleaseLockInv DEF Next
<1>2. CASE UNCHANGED vars
  BY <1>2 DEF vars, LockInv, TypeOK, Registered, UsersCounted, Refs, OneKeyPerObject,
              EntriesUsed, TokenIsInside, Inside
<1> QED
  BY <1>1, <1>2

\* LockInv holds in every state of photoProcessor.lock, with any callers and keys.
THEOREM LocksInvariant == Spec => []LockInv
BY InitLockInv, NextLockInv, PTL DEF Spec

\* Two callers that hold the same key are the same caller.
LEMMA InvMutex == LockInv => MutualExclusion
BY DEF LockInv, MutualExclusion, TokenIsInside, Inside, Registered

\* A key is in the map exactly while some caller wants it.
LEMMA InvMap == LockInv => MapHoldsKeysInUse
BY DEF LockInv, MapHoldsKeysInUse, EntriesUsed, Registered, OneKeyPerObject, TypeOK

\* No photo is ever processed by two goroutines at once.
THEOREM LocksExclude == Spec => []MutualExclusion
BY LocksInvariant, InvMutex, PTL

\* The map neither leaks entries nor loses one that is in use.
THEOREM LocksMapExact == Spec => []MapHoldsKeysInUse
BY LocksInvariant, InvMap, PTL
-----------------------------------------------------------------------------
USE DEF KeyMutex!kmVars

\* What KeyedMutex sees as the owner's key.
Owner == [c \in Caller |-> IF Inside(c) THEN want[c] ELSE NoKey]

\* The initial states agree.
LEMMA InitRefines == Init => KeyMutex!KMInit
BY DEF Init, KeyMutex!KMInit, Inside

\* Naming a key is Ask; the owner does not change.
LEMMA EnterRefines ==
  ASSUME LockInv, NEW c \in Caller, NEW k \in Key, NEW o \in Object, Enter(c, k, o)
  PROVE  want[c] = NoKey /\ want' = [want EXCEPT ![c] = k] /\ Owner' = Owner
BY DEF Enter, LockInv, Registered, TypeOK, Owner, Inside

\* Being admitted is Grant: the gate was empty, so nobody owned the key.
LEMMA PassRefines ==
  ASSUME LockInv, NEW c \in Caller, Pass(c)
  PROVE  /\ want[c] # NoKey /\ Owner[c] = NoKey
         /\ \A d \in Caller : Owner[d] # want[c]
         /\ Owner' = [Owner EXCEPT ![c] = want[c]]
         /\ UNCHANGED want
<1>1. want[c] \in Key /\ ref[c] \in Object /\ keys[want[c]] = ref[c]
  BY DEF Pass, LockInv, Registered
<1>2. ~Inside(c)
  BY DEF Pass, Inside
<1>3. \A d \in Caller : Inside(d) => want[d] # want[c]
  BY <1>1 DEF Pass, LockInv, TokenIsInside, Registered, Inside
<1>4. \A d \in Caller \ {c} : pc'[d] = pc[d] /\ want'[d] = want[d]
  BY DEF Pass, LockInv, TypeOK
<1>5. Inside(c)' /\ want'[c] = want[c]
  BY DEF Pass, LockInv, TypeOK, Inside
<1>6. Owner' = [Owner EXCEPT ![c] = want[c]]
  BY <1>1, <1>4, <1>5 DEF Owner, Inside
<1> QED
  BY <1>1, <1>2, <1>3, <1>6 DEF Pass, Owner

\* Emptying the gate is Yield.
LEMMA EmptyRefines ==
  ASSUME LockInv, NEW c \in Caller, Empty(c)
  PROVE  Owner[c] # NoKey /\ Owner' = [Owner EXCEPT ![c] = NoKey] /\ UNCHANGED want
<1>1. Inside(c) /\ want[c] \in Key
  BY DEF Empty, LockInv, Registered, Inside
<1>2. ~Inside(c)' /\ \A d \in Caller \ {c} : Inside(d)' <=> Inside(d)
  BY DEF Empty, LockInv, TypeOK, Inside
<1>3. UNCHANGED want
  BY DEF Empty
<1> QED
  BY <1>1, <1>2, <1>3 DEF Owner

\* Dropping the reference is Forget.
LEMMA ReleaseRefines ==
  ASSUME LockInv, NEW c \in Caller, ReleaseRef(c)
  PROVE  want[c] # NoKey /\ Owner[c] = NoKey /\ want' = [want EXCEPT ![c] = NoKey] /\ Owner' = Owner
BY DEF ReleaseRef, LetGo, LockInv, Registered, TypeOK, Owner, Inside

\* The other steps are not visible to KeyedMutex.
LEMMA MoveRefines ==
  ASSUME LockInv, NEW c \in Caller,
         GiveUp(c) \/ Confirm(c) \/ Cancel(c) \/ NewCall(c)
  PROVE  want' = want /\ Owner' = Owner
BY DEF GiveUp, Confirm, Cancel, NewCall, LockInv, TypeOK, Owner, Inside

\* Every step of the lock is a step of KeyedMutex or leaves it unchanged.
LEMMA NextRefines == LockInv /\ [Next]_vars => [KeyMutex!KMNext]_(KeyMutex!kmVars)
<1> SUFFICES ASSUME LockInv, [Next]_vars PROVE [KeyMutex!KMNext]_(KeyMutex!kmVars)
  OBVIOUS
<1> USE DEF KeyMutex!KMNext, Owner
<1>1. ASSUME NEW c \in Caller, NEW k \in Key, NEW o \in Object, Enter(c, k, o)
      PROVE  KeyMutex!KMNext
  BY <1>1, EnterRefines DEF KeyMutex!Ask
<1>2. ASSUME NEW c \in Caller, Pass(c) PROVE KeyMutex!KMNext
  BY <1>2, PassRefines DEF KeyMutex!Grant
<1>3. ASSUME NEW c \in Caller, Empty(c) PROVE KeyMutex!KMNext
  BY <1>3, EmptyRefines DEF KeyMutex!Yield
<1>4. ASSUME NEW c \in Caller, ReleaseRef(c) PROVE KeyMutex!KMNext
  BY <1>4, ReleaseRefines DEF KeyMutex!Forget
<1>5. ASSUME NEW c \in Caller, GiveUp(c) \/ Confirm(c) \/ Cancel(c) \/ NewCall(c)
      PROVE  UNCHANGED KeyMutex!kmVars
  BY <1>5, MoveRefines
<1>6. CASE UNCHANGED vars
  BY <1>6 DEF vars, Inside
<1> QED
  BY <1>1, <1>2, <1>3, <1>4, <1>5, <1>6 DEF Next

\* photoProcessor.lock implements one mutex per photo key.
THEOREM LocksRefine == Spec => ImplementsKeyedMutex
BY InitRefines, InitLockInv, NextLockInv, NextRefines, PTL DEF Spec, ImplementsKeyedMutex, KeyMutex!KMSpec
-----------------------------------------------------------------------------
USE SlotConstants

\* A goroutine holds what it needs while it generates, and nothing before or after.
SlotsHeld ==
  \A c \in Caller : /\ held[c] = IF stage[c] = "generating" THEN need[c] ELSE 0
                    /\ stage[c] \in {"genWait", "generating"} => need[c] \in {1, workers}

\* The inductive invariant of the slots.
SlotIInv == TypeOK /\ SlotTypeOK /\ SlotsUnderLock /\ SlotsCounted /\ SlotsHeld

\* The slots, and what is written on them, are numbers.
LEMMA SlotNumbers ==
  ASSUME SlotTypeOK
  PROVE  /\ workers \in Nat \ {0} /\ spool \in Semaphore /\ generation \in Semaphore
         /\ \A c \in Caller : need[c] \in 0..workers /\ held[c] \in 0..workers
BY DEF SlotTypeOK

\* What the operations of a semaphore do to it.
LEMMA JoinTyped ==
  ASSUME SlotTypeOK, NEW sem \in Semaphore, NEW c \in Caller
  PROVE  Join(sem, c) \in Semaphore /\ Join(sem, c).cur = sem.cur
BY DEF Join, Semaphore

LEMMA ServedTyped ==
  ASSUME SlotTypeOK, NEW sem \in Semaphore, NEW c \in Caller, NEW n \in Nat, IsNext(sem, c, n)
  PROVE  Served(sem, n) \in Semaphore /\ Served(sem, n).cur = sem.cur + n
<1>1. sem.cur \in Nat /\ sem.cur + n \in 0..workers /\ Tail(sem.line) \in Seq(Caller)
  BY SlotNumbers DEF IsNext, Semaphore
<1> QED BY <1>1 DEF Served, Semaphore

LEMMA LeavesTyped ==
  ASSUME SlotTypeOK, NEW sem \in Semaphore, NEW c \in Caller, NEW new, Leaves(sem, c, new)
  PROVE  new \in Semaphore /\ new.cur = sem.cur
<1>1. PICK line \in Seq(Caller) : line = sem.line
  BY DEF Semaphore
<1>2. PICK i \in DOMAIN line : new = [sem EXCEPT !.line = SubSeq(line, 1, i - 1) \o SubSeq(line, i + 1, Len(line))]
  BY <1>1 DEF Leaves
<1>3. SubSeq(line, 1, i - 1) \o SubSeq(line, i + 1, Len(line)) \in Seq(Caller)
  OBVIOUS
<1> QED BY <1>2, <1>3 DEF Semaphore

LEMMA FreedTyped ==
  ASSUME SlotTypeOK, NEW sem \in Semaphore, NEW n \in Nat, n <= sem.cur
  PROVE  Freed(sem, n) \in Semaphore /\ Freed(sem, n).cur = sem.cur - n
<1>1. sem.cur \in 0..workers /\ workers \in Nat /\ sem.cur - n \in 0..workers
  BY SlotNumbers DEF Semaphore
<1> QED BY <1>1 DEF Freed, Semaphore

\* The slots of one goroutine, as pairs.
LEMMA OwnSlots ==
  ASSUME NEW c \in Caller, NEW n \in Nat
  PROVE  IsFiniteSet({c} \X (1..n)) /\ Cardinality({c} \X (1..n)) = n
<1>1. IsFiniteSet({c}) /\ Cardinality({c}) = 1
  BY FS_Singleton
<1>2. IsFiniteSet(1..n) /\ Cardinality(1..n) = n
  BY FS_Interval
<1>3. IsFiniteSet({c} \X (1..n)) /\ Cardinality({c} \X (1..n)) = Cardinality({c}) * Cardinality(1..n)
  BY <1>1, <1>2, FS_Product
<1> QED BY <1>1, <1>2, <1>3

LEMMA CountsFinite ==
  ASSUME SlotTypeOK
  PROVE  /\ IsFiniteSet(Spooling) /\ Cardinality(Spooling) \in Nat
         /\ IsFiniteSet(Taken) /\ Cardinality(Taken) \in Nat
<1>1. IsFiniteSet(1..workers)
  BY SlotNumbers, FS_Interval
<1>2. IsFiniteSet(Caller \X (1..workers))
  BY <1>1, FS_Product
<1>3. Taken \in SUBSET (Caller \X (1..workers)) /\ Spooling \in SUBSET Caller
  BY DEF Taken, Spooling
<1>4. IsFiniteSet(Taken) /\ IsFiniteSet(Spooling)
  BY <1>2, <1>3, FS_Subset
<1> QED BY <1>4, FS_CardinalityType

\* One goroutine takes slots it did not have, or gives back all it had.
LEMMA TakenMoves ==
  ASSUME SlotTypeOK, workers' = workers, NEW c \in Caller, held' \in [Caller -> 0..workers],
         \A d \in Caller : d # c => held'[d] = held[d],
         held[c] = 0 \/ held'[c] = 0
  PROVE  Cardinality(Taken)' = Cardinality(Taken) + held'[c] - held[c]
<1>1. held[c] \in 0..workers /\ held'[c] \in 0..workers /\ workers \in Nat
  BY SlotNumbers
<1>2. IsFiniteSet(Taken) /\ Cardinality(Taken) \in Nat
  BY CountsFinite
<1>3. CASE held[c] = 0
  <2> DEFINE Own == {c} \X (1..held'[c])
  <2>1. Taken' = Taken \cup Own
    BY <1>1, <1>3 DEF Taken
  <2>2. Taken \cap Own = {}
    BY <1>1, <1>3 DEF Taken
  <2>3. IsFiniteSet(Own) /\ Cardinality(Own) = held'[c]
    BY <1>1, OwnSlots
  <2> HIDE DEF Own
  <2>4. Cardinality(Taken \cup Own) = Cardinality(Taken) + Cardinality(Own) - Cardinality(Taken \cap Own)
    BY <1>2, <2>3, FS_Union
  <2>5. Cardinality(Taken \cap Own) = 0
    BY <2>2, FS_EmptySet
  <2> QED BY <1>1, <1>2, <1>3, <2>1, <2>3, <2>4, <2>5
<1>4. CASE held'[c] = 0
  <2> DEFINE Own == {c} \X (1..held[c])
  <2>1. Taken' = Taken \ Own
    BY <1>1, <1>4 DEF Taken
  <2>2. Taken \cap Own = Own
    BY <1>1 DEF Taken
  <2>3. Cardinality(Own) = held[c]
    <3>1. held[c] \in Nat
      BY <1>1
    <3> QED BY <3>1, OwnSlots
  <2> HIDE DEF Own
  <2>4. Cardinality(Taken \ Own) = Cardinality(Taken) - Cardinality(Taken \cap Own)
    BY <1>2, FS_Difference
  <2> QED BY <1>1, <1>2, <1>4, <2>1, <2>2, <2>3, <2>4
<1> QED BY <1>3, <1>4

\* The stages at which a goroutine has its spool slot.
Spooled == {"reading", "genWait", "generating", "closing"}

\* One goroutine goes on in process, and both semaphores count what it took and
\* gave back.
LEMMA StageStep ==
  ASSUME SlotIInv, NEW c \in Caller, NEW s \in Stage, Go(c, s), UNCHANGED <<vars, workers>>, pc[c] = "holding",
         need' \in [Caller -> {0, 1, workers}], held' \in [Caller -> 0..workers],
         spool' \in Semaphore, generation' \in Semaphore,
         \A d \in Caller : d # c => need'[d] = need[d] /\ held'[d] = held[d],
         stage[c] = "generating" => s # "generating",
         held'[c] = IF s = "generating" THEN need'[c] ELSE 0,
         s \in {"genWait", "generating"} => need'[c] \in {1, workers},
         spool'.cur = IF s \in Spooled THEN IF stage[c] \in Spooled THEN spool.cur ELSE spool.cur + 1
                                       ELSE IF stage[c] \in Spooled THEN spool.cur - 1 ELSE spool.cur,
         generation'.cur = generation.cur + held'[c] - held[c]
  PROVE  SlotIInv'
<1>1. stage' \in [Caller -> Stage] /\ stage'[c] = s /\ \A d \in Caller : d # c => stage'[d] = stage[d]
  BY DEF SlotIInv, SlotTypeOK, Go
<1>2. TypeOK'
  BY DEF SlotIInv, TypeOK, vars
<1>3. SlotTypeOK'
  BY <1>1 DEF SlotIInv, SlotTypeOK, Semaphore
<1>4. SlotsUnderLock'
  BY <1>1 DEF SlotIInv, SlotsUnderLock, vars
<1>5. SlotsHeld'
  BY <1>1 DEF SlotIInv, SlotsHeld
<1>6. spool'.cur = Cardinality(Spooling)'
  <2>1. IsFiniteSet(Spooling) /\ Cardinality(Spooling) \in Nat /\ spool.cur = Cardinality(Spooling)
    BY CountsFinite DEF SlotIInv, SlotsCounted
  <2>2. c \in Spooling <=> stage[c] \in Spooled
    BY DEF Spooling, Spooled
  <2>3. CASE s \in Spooled
    <3>1. Spooling' = Spooling \cup {c}
      BY <1>1, <2>3 DEF Spooling, Spooled
    <3>2. Cardinality(Spooling \cup {c}) = IF c \in Spooling THEN Cardinality(Spooling) ELSE Cardinality(Spooling) + 1
      BY <2>1, FS_AddElement
    <3> QED BY <2>1, <2>2, <2>3, <3>1, <3>2
  <2>4. CASE s \notin Spooled
    <3>1. Spooling' = Spooling \ {c}
      BY <1>1, <2>4 DEF Spooling, Spooled
    <3>2. Cardinality(Spooling \ {c}) = IF c \in Spooling THEN Cardinality(Spooling) - 1 ELSE Cardinality(Spooling)
      BY <2>1, FS_RemoveElement
    <3> QED BY <2>1, <2>2, <2>4, <3>1, <3>2
  <2> QED BY <2>3, <2>4
<1>7. generation'.cur = Cardinality(Taken)'
  <2>1. held[c] = 0 \/ held'[c] = 0
    BY DEF SlotIInv, SlotsHeld
  <2>2. Cardinality(Taken)' = Cardinality(Taken) + held'[c] - held[c]
    BY <2>1, TakenMoves DEF SlotIInv
  <2> QED BY <2>2 DEF SlotIInv, SlotsCounted
<1> QED BY <1>2, <1>3, <1>4, <1>5, <1>6, <1>7 DEF SlotIInv, SlotsCounted

LEMMA ProcessStep ==
  ASSUME SlotIInv, NEW c \in Caller, Process(c), UNCHANGED <<vars, workers>>
  PROVE  SlotIInv'
<1>1. pc[c] = "holding"
  BY DEF Process, AskSpool, TakeSpool, AskGeneration, EndRead, TakeGeneration, LeaveLine, EndGeneration, CloseSpool,
         At, SlotIInv, SlotsUnderLock
<1>2. /\ workers \in Nat \ {0} /\ spool \in Semaphore /\ generation \in Semaphore /\ SlotTypeOK
      /\ need \in [Caller -> {0, 1, workers}] /\ held \in [Caller -> 0..workers]
      /\ need[c] \in 0..workers /\ held[c] \in 0..workers
      /\ held[c] = IF stage[c] = "generating" THEN need[c] ELSE 0
      /\ stage[c] \in {"genWait", "generating"} => need[c] \in {1, workers}
  BY SlotNumbers DEF SlotIInv, SlotsHeld, SlotTypeOK
<1>3. spool.cur \in Nat /\ generation.cur \in Nat
  BY <1>2 DEF Semaphore
<1> USE DEF At, Stage, Spooled
<1>4. CASE AskSpool(c)
  <2>1. spool' \in Semaphore /\ spool'.cur = spool.cur
    BY <1>2, <1>4, JoinTyped DEF AskSpool
  <2> QED BY <1>1, <1>2, <1>3, <1>4, <2>1, StageStep DEF AskSpool
<1>5. CASE TakeSpool(c)
  <2>1. spool' \in Semaphore /\ spool'.cur = spool.cur + 1
    BY <1>2, <1>5, ServedTyped DEF TakeSpool
  <2> QED BY <1>1, <1>2, <1>3, <1>5, <2>1, StageStep DEF TakeSpool
<1>6. CASE AskGeneration(c)
  <2>1. generation' \in Semaphore /\ generation'.cur = generation.cur
    BY <1>2, <1>6, JoinTyped DEF AskGeneration
  <2>2. /\ need' \in [Caller -> {0, 1, workers}] /\ need'[c] \in {1, workers}
        /\ \A d \in Caller : d # c => need'[d] = need[d]
    BY <1>2, <1>6 DEF AskGeneration, SlotsNeeded
  <2> QED BY <1>1, <1>2, <1>3, <1>6, <2>1, <2>2, StageStep DEF AskGeneration
<1>7. CASE EndRead(c)
  BY <1>1, <1>2, <1>3, <1>7, StageStep DEF EndRead
<1>8. CASE TakeGeneration(c)
  <2>1. generation' \in Semaphore /\ generation'.cur = generation.cur + need[c]
    BY <1>2, <1>8, ServedTyped DEF TakeGeneration
  <2>2. /\ held' \in [Caller -> 0..workers] /\ held'[c] = need[c]
        /\ \A d \in Caller : d # c => held'[d] = held[d]
    BY <1>2, <1>8 DEF TakeGeneration
  <2> QED BY <1>1, <1>2, <1>3, <1>8, <2>1, <2>2, StageStep DEF TakeGeneration
<1>9. CASE LeaveLine(c) /\ stage[c] = "spoolWait"
  <2>1. spool' \in Semaphore /\ spool'.cur = spool.cur
    BY <1>2, <1>9, LeavesTyped DEF LeaveLine
  <2> QED BY <1>1, <1>2, <1>3, <1>9, <2>1, StageStep DEF LeaveLine
<1>10. CASE LeaveLine(c) /\ stage[c] = "genWait"
  <2>1. generation' \in Semaphore /\ generation'.cur = generation.cur
    BY <1>2, <1>10, LeavesTyped DEF LeaveLine
  <2> QED BY <1>1, <1>2, <1>3, <1>10, <2>1, StageStep DEF LeaveLine
<1>11. CASE EndGeneration(c)
  <2>1. held[c] <= generation.cur
    <3>1. Taken \in SUBSET Taken /\ ({c} \X (1..held[c])) \in SUBSET Taken
      BY <1>2 DEF Taken
    <3>2. Cardinality({c} \X (1..held[c])) <= Cardinality(Taken)
      BY <3>1, CountsFinite, FS_Subset DEF SlotIInv
    <3>3. held[c] \in Nat
      BY <1>2
    <3>4. Cardinality({c} \X (1..held[c])) = held[c]
      BY <3>3, OwnSlots
    <3> QED BY <3>2, <3>4 DEF SlotIInv, SlotsCounted
  <2>2. generation' \in Semaphore /\ generation'.cur = generation.cur - held[c]
    BY <1>2, <1>11, <2>1, FreedTyped DEF EndGeneration
  <2>3. /\ held' \in [Caller -> 0..workers] /\ held'[c] = 0
        /\ \A d \in Caller : d # c => held'[d] = held[d]
    BY <1>2, <1>11 DEF EndGeneration
  <2> QED BY <1>1, <1>2, <1>3, <1>11, <2>2, <2>3, StageStep DEF EndGeneration
<1>12. CASE CloseSpool(c)
  <2>1. 1 <= spool.cur
    <3>1. c \in Spooling
      BY <1>12 DEF CloseSpool, Spooling
    <3>2. spool.cur = Cardinality(Spooling) /\ IsFiniteSet(Spooling)
      BY CountsFinite DEF SlotIInv, SlotsCounted
    <3>3. spool.cur # 0
      BY <3>1, <3>2, FS_EmptySet
    <3> QED BY <1>3, <3>3
  <2>2. spool' \in Semaphore /\ spool'.cur = spool.cur - 1
    BY <1>2, <1>12, <2>1, FreedTyped DEF CloseSpool
  <2>3. /\ need' \in [Caller -> {0, 1, workers}]
        /\ \A d \in Caller : d # c => need'[d] = need[d]
    BY <1>2, <1>12 DEF CloseSpool
  <2> QED BY <1>1, <1>2, <1>3, <1>12, <2>2, <2>3, StageStep DEF CloseSpool
<1> QED BY <1>4, <1>5, <1>6, <1>7, <1>8, <1>9, <1>10, <1>11, <1>12 DEF Process, LeaveLine

\* What a goroutine does under the lock is no step of the lock.
LEMMA PipeIsLocks == [PipeNext]_pipeVars => [Next]_vars
<1>1. ASSUME NEW c \in Caller, LockStep(c) PROVE Next
  BY <1>1 DEF LockStep, Next
<1>2. ASSUME NEW c \in Caller, Unlock(c) PROVE Next
  BY <1>2 DEF Unlock, Next
<1> QED BY <1>1, <1>2 DEF PipeNext, pipeVars

\* Together with process the locks are still the locks: whatever holds of them
\* holds of photo processing with its slots.
THEOREM SlotsKeepTheLocks == PipeSpec => Spec
<1>1. PipeInit => Init
  BY DEF PipeInit
<1> QED BY <1>1, PipeIsLocks, PTL DEF PipeSpec, Spec

LEMMA SlotInit == PipeInit => SlotIInv
<1> SUFFICES ASSUME PipeInit PROVE SlotIInv
  OBVIOUS
<1>1. TypeOK
  BY InitLockInv DEF PipeInit, LockInv
<1>2. workers \in Nat \ {0} /\ 0 \in 0..workers /\ NoSlots \in Semaphore /\ NoSlots.cur = 0
  BY DEF PipeInit, NoSlots, Semaphore
<1>3. SlotTypeOK
  BY <1>2 DEF PipeInit, SlotTypeOK, Stage
<1>4. SlotsUnderLock /\ SlotsHeld
  BY DEF PipeInit, SlotsUnderLock, SlotsHeld
<1>5. Spooling = {} /\ Taken = {}
  BY DEF PipeInit, Spooling, Taken
<1>6. SlotsCounted
  BY <1>2, <1>5, FS_EmptySet DEF SlotsCounted, PipeInit
<1> QED BY <1>1, <1>3, <1>4, <1>6 DEF SlotIInv

LEMMA SlotStep == LockInv /\ LockInv' /\ SlotIInv /\ [PipeNext]_pipeVars => SlotIInv'
<1> SUFFICES ASSUME LockInv', SlotIInv, [PipeNext]_pipeVars PROVE SlotIInv'
  OBVIOUS
<1>1. TypeOK' /\ TypeOK
  BY DEF LockInv, SlotIInv
<1>2. ASSUME NEW c \in Caller, LockStep(c) PROVE SlotIInv'
  <2>1. UNCHANGED slotVars
    BY <1>2 DEF LockStep
  <2>2. \A d \in Caller : pc[d] = "holding" => pc'[d] = "holding"
    BY <1>1, <1>2 DEF LockStep, Enter, Pass, GiveUp, Confirm, ReleaseRef, LetGo, Cancel, NewCall, TypeOK
  <2> QED BY <1>1, <2>1, <2>2 DEF SlotIInv, slotVars, SlotTypeOK, Semaphore, SlotsUnderLock, SlotsCounted, Spooling, Taken,
                                  SlotsHeld
<1>3. ASSUME NEW c \in Caller, Unlock(c) PROVE SlotIInv'
  <2>1. /\ UNCHANGED <<workers, need, held, spool, generation>> /\ stage[c] \in {"none", "ended"}
        /\ stage' \in [Caller -> Stage] /\ stage'[c] = "none" /\ \A d \in Caller : d # c => stage'[d] = stage[d]
    BY <1>3 DEF Unlock, Go, SlotIInv, SlotTypeOK, Stage
  <2>2. \A d \in Caller : d # c => pc'[d] = pc[d]
    BY <1>1, <1>3 DEF Unlock, Empty, TypeOK
  <2>3. Spooling' = Spooling /\ Taken' = Taken
    BY <2>1 DEF Spooling, Taken
  <2>4. SlotTypeOK'
    BY <2>1 DEF SlotIInv, SlotTypeOK, Semaphore
  <2>5. SlotsUnderLock' /\ SlotsHeld'
    BY <2>1, <2>2 DEF SlotIInv, SlotsUnderLock, SlotsHeld
  <2> QED BY <1>1, <2>1, <2>3, <2>4, <2>5 DEF SlotIInv, SlotsCounted
<1>4. CASE UNCHANGED pipeVars
  BY <1>1, <1>4 DEF pipeVars, slotVars, SlotIInv, SlotTypeOK, Semaphore, SlotsUnderLock, SlotsCounted, Spooling, Taken,
                    SlotsHeld, vars
<1> QED BY <1>2, <1>3, <1>4, ProcessStep DEF PipeNext

\* A goroutine with the slots of a large photo leaves none for another one.
LEMMA LargeTakesAll == SlotIInv => LargeIsAlone
<1> SUFFICES ASSUME SlotIInv, NEW c \in Caller, NEW d \in Caller, c # d, At(c, "generating"), At(d, "generating"),
                    ~(need[c] < workers)
             PROVE  workers = 1
  BY DEF LargeIsAlone
<1>1. workers \in Nat \ {0} /\ need[c] \in 0..workers /\ need[d] \in {1, workers} /\ held[c] = need[c] /\ held[d] = need[d]
      /\ generation.cur \in 0..workers /\ generation.cur = Cardinality(Taken)
  BY SlotNumbers DEF SlotIInv, SlotsHeld, SlotsCounted, At, Semaphore
<1> DEFINE C == {c} \X (1..held[c])
           D == {d} \X (1..held[d])
<1>2. held[c] = workers /\ held[d] \in Nat \ {0} /\ held[c] \in Nat /\ held[d] <= workers
  BY <1>1
<1>3. (C \cup D) \in SUBSET Taken /\ C \cap D = {}
  BY <1>2 DEF Taken
<1>4. IsFiniteSet(C) /\ Cardinality(C) = held[c] /\ IsFiniteSet(D) /\ Cardinality(D) = held[d]
  BY <1>2, OwnSlots
<1> HIDE DEF C, D
<1>5. Cardinality(C \cup D) = held[c] + held[d]
  <2>1. Cardinality(C \cup D) = Cardinality(C) + Cardinality(D) - Cardinality(C \cap D)
    BY <1>4, FS_Union
  <2>2. Cardinality(C \cap D) = 0
    BY <1>3, FS_EmptySet
  <2>3. held[c] \in Nat /\ held[d] \in Nat
    BY <1>2
  <2> QED BY <1>4, <2>1, <2>2, <2>3
<1>6. Cardinality(C \cup D) <= Cardinality(Taken)
  BY <1>3, CountsFinite, FS_Subset DEF SlotIInv
<1> QED BY <1>1, <1>2, <1>5, <1>6

\* However goroutines leave, the semaphores count the slots of those in process,
\* slots are only held under a lock, and a large photo is alone (process,
\* imageBudget).
THEOREM SlotsAlwaysCounted == PipeSpec => []SlotInv
<1>1. PipeSpec => []LockInv
  BY SlotsKeepTheLocks, LocksInvariant, PTL
<1>2. PipeSpec => []SlotIInv
  BY <1>1, SlotInit, SlotStep, PTL DEF PipeSpec
<1>3. SlotIInv => SlotInv
  BY LargeTakesAll DEF SlotIInv, SlotInv
<1> QED BY <1>2, <1>3, PTL
=============================================================================
