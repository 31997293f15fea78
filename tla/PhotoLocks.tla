----------------------------- MODULE PhotoLocks -----------------------------
(***************************************************************************)
(* photoProcessor.lock (photo_processing.go): a map from photo key to a    *)
(* reference-counted lock object.  The object is created by the first      *)
(* caller that names the key and dropped from the map by the last one that *)
(* lets go of it, so the map never grows with the library.  The gate of an *)
(* object is a channel of capacity one; a caller waits on it or on the end *)
(* of its context.                                                         *)
(*                                                                         *)
(* Each action is one critical section of photoProcessor.mu or one channel *)
(* operation.  Objects are model values: a dropped object that nobody      *)
(* refers to is garbage and may be the next one allocated.                 *)
(***************************************************************************)
EXTENDS Naturals, FiniteSets

CONSTANTS Caller,    \* goroutines that process a photo
          Key,       \* photo keys (storage prefix and path)
          Object,    \* photoLock objects on the heap
          NoKey, NoObject

ASSUME LockConstants == /\ IsFiniteSet(Caller)
                        /\ NoKey \notin Key
                        /\ NoObject \notin Object

VARIABLES
  keys,       \* photoProcessor.keys: Key -> Object, or NoObject when absent
  users,      \* photoLock.users of every object
  gate,       \* the callers whose token is in the gate channel of an object
  pc,         \* where each caller stands
  want,       \* the key it named
  ref,        \* the object it counted itself on
  done        \* the callers whose context has ended

vars == <<keys, users, gate, pc, want, ref, done>>

Step == {"idle", "waiting", "passed", "holding", "leaving"}

TypeOK == /\ keys \in [Key -> Object \cup {NoObject}]
          /\ users \in [Object -> Nat]
          /\ gate \in [Object -> SUBSET Caller]
          /\ pc \in [Caller -> Step]
          /\ want \in [Caller -> Key \cup {NoKey}]
          /\ ref \in [Caller -> Object \cup {NoObject}]
          /\ done \in SUBSET Caller

Init == /\ keys = [k \in Key |-> NoObject]
        /\ users = [o \in Object |-> 0]
        /\ gate = [o \in Object |-> {}]
        /\ pc = [c \in Caller |-> "idle"]
        /\ want = [c \in Caller |-> NoKey]
        /\ ref = [c \in Caller |-> NoObject]
        /\ done = {}

Garbage(o) == /\ \A k \in Key : keys[k] # o
              /\ \A c \in Caller : ref[c] # o

\* The object the map gives for a key, or a new one.
Lookup(k, o) == IF keys[k] = NoObject THEN Garbage(o) ELSE o = keys[k]

Enter(c, k, o) ==
  /\ pc[c] = "idle"
  /\ c \notin done
  /\ Lookup(k, o)
  /\ keys' = [keys EXCEPT ![k] = o]
  /\ users' = [users EXCEPT ![o] = IF keys[k] = NoObject THEN 1 ELSE @ + 1]
  /\ gate' = [gate EXCEPT ![o] = IF keys[k] = NoObject THEN {} ELSE @]
  /\ pc' = [pc EXCEPT ![c] = "waiting"]
  /\ want' = [want EXCEPT ![c] = k]
  /\ ref' = [ref EXCEPT ![c] = o]
  /\ UNCHANGED done

\* The select statement: the send succeeds when the gate is empty ...
Pass(c) ==
  /\ pc[c] = "waiting"
  /\ gate[ref[c]] = {}
  /\ gate' = [gate EXCEPT ![ref[c]] = {c}]
  /\ pc' = [pc EXCEPT ![c] = "passed"]
  /\ UNCHANGED <<keys, users, want, ref, done>>

\* Mutant: giving up runs unlock, taking the token of whoever holds the key.
GiveUpUnlocks(c) ==
  /\ pc[c] = "waiting"
  /\ c \in done
  /\ gate' = [gate EXCEPT ![ref[c]] = {}]
  /\ pc' = [pc EXCEPT ![c] = "leaving"]
  /\ UNCHANGED <<keys, users, want, ref, done>>

\* Mutant: giving up drops the reference, and leaving drops it once more.
GiveUpReleasesTwice(c) ==
  /\ pc[c] = "waiting"
  /\ c \in done
  /\ users' = [users EXCEPT ![ref[c]] = @ - 1]
  /\ pc' = [pc EXCEPT ![c] = "leaving"]
  /\ UNCHANGED <<keys, gate, want, ref, done>>

\* ... and the other case is ready once the context has ended.  When both are
\* ready Go picks either.
GiveUp(c) ==
  /\ pc[c] = "waiting"
  /\ c \in done
  /\ pc' = [pc EXCEPT ![c] = "leaving"]
  /\ UNCHANGED <<keys, users, gate, want, ref, done>>

\* After the send the context is looked at once more.
Confirm(c) ==
  /\ pc[c] = "passed"
  /\ c \notin done
  /\ pc' = [pc EXCEPT ![c] = "holding"]
  /\ UNCHANGED <<keys, users, gate, want, ref, done>>

\* Mutant: a caller whose context ended while it was admitted returns without
\* emptying the gate.
EmptyForgotten(c) ==
  /\ \/ /\ pc[c] = "passed" /\ c \in done
        /\ UNCHANGED gate
     \/ /\ pc[c] = "holding"
        /\ gate' = [gate EXCEPT ![ref[c]] = {}]
  /\ pc' = [pc EXCEPT ![c] = "leaving"]
  /\ UNCHANGED <<keys, users, want, ref, done>>

\* unlock first takes the token out of the gate, ...
Empty(c) ==
  /\ \/ pc[c] = "passed" /\ c \in done
     \/ pc[c] = "holding"
  /\ gate' = [gate EXCEPT ![ref[c]] = {}]
  /\ pc' = [pc EXCEPT ![c] = "leaving"]
  /\ UNCHANGED <<keys, users, want, ref, done>>

LetGo(c) ==
  /\ pc' = [pc EXCEPT ![c] = "idle"]
  /\ want' = [want EXCEPT ![c] = NoKey]
  /\ ref' = [ref EXCEPT ![c] = NoObject]

\* Mutant: every release drops the map entry, whoever else still counts on it.
ReleaseAlwaysDeletes(c) ==
  /\ pc[c] = "leaving"
  /\ users' = [users EXCEPT ![ref[c]] = @ - 1]
  /\ keys' = [keys EXCEPT ![want[c]] = NoObject]
  /\ LetGo(c)
  /\ UNCHANGED <<gate, done>>

\* Mutant: the count is compared before it is decremented.
ReleaseComparesEarly(c) ==
  /\ pc[c] = "leaving"
  /\ users' = [users EXCEPT ![ref[c]] = @ - 1]
  /\ keys' = [keys EXCEPT ![want[c]] = IF users[ref[c]] = 0 THEN NoObject ELSE @]
  /\ LetGo(c)
  /\ UNCHANGED <<gate, done>>

\* ... then releaseRef drops the reference, and the last one the map entry.
ReleaseRef(c) ==
  /\ pc[c] = "leaving"
  /\ users' = [users EXCEPT ![ref[c]] = @ - 1]
  /\ keys' = [keys EXCEPT ![want[c]] = IF users[ref[c]] = 1 THEN NoObject ELSE @]
  /\ LetGo(c)
  /\ UNCHANGED <<gate, done>>

\* External: a request is cancelled, a deadline passes or the server stops.
Cancel(c) ==
  /\ c \notin done
  /\ done' = done \cup {c}
  /\ UNCHANGED <<keys, users, gate, pc, want, ref>>

\* External: the goroutine is done and another call begins with a new context.
NewCall(c) ==
  /\ pc[c] = "idle"
  /\ c \in done
  /\ done' = done \ {c}
  /\ UNCHANGED <<keys, users, gate, pc, want, ref>>

Next == \E c \in Caller :
          \/ \E k \in Key, o \in Object : Enter(c, k, o)
          \/ Pass(c) \/ GiveUp(c) \/ Confirm(c) \/ Empty(c) \/ ReleaseRef(c)
          \/ Cancel(c) \/ NewCall(c)

Spec == Init /\ [][Next]_vars
-----------------------------------------------------------------------------
\* A caller whose token is in the gate.
Inside(c) == pc[c] \in {"passed", "holding"}

\* No two goroutines process the same photo at once, although its lock object
\* may have been dropped from the map and created again between them.
MutualExclusion ==
  \A c, d \in Caller :
    c # d /\ pc[c] = "holding" /\ pc[d] = "holding" => want[c] # want[d]

\* The map holds exactly the keys somebody uses: it neither leaks an entry
\* nor loses one that a waiter or a holder still counts on.
MapHoldsKeysInUse ==
  \A k \in Key : keys[k] # NoObject <=> \E c \in Caller : want[c] = k

\* Why it holds: every caller in progress refers to the object the map has for
\* its key, each object serves one key and counts its callers, and its gate
\* holds the token of the one caller that is inside, if any.
Refs(o) == {c \in Caller : ref[c] = o}

Registered ==
  \A c \in Caller :
    IF pc[c] = "idle" THEN want[c] = NoKey /\ ref[c] = NoObject
                      ELSE want[c] \in Key /\ ref[c] \in Object /\ keys[want[c]] = ref[c]

UsersCounted == \A o \in Object : users[o] = Cardinality(Refs(o))

OneKeyPerObject ==
  \A k1, k2 \in Key : keys[k1] = keys[k2] /\ keys[k1] # NoObject => k1 = k2

EntriesUsed == \A k \in Key : keys[k] # NoObject => \E c \in Caller : ref[c] = keys[k]

TokenIsInside ==
  /\ \A o \in Object : \A c, d \in gate[o] : c = d
  /\ \A o \in Object : \A c \in gate[o] : Inside(c) /\ ref[c] = o
  /\ \A c \in Caller : Inside(c) => c \in gate[ref[c]]

\* The inductive invariant of photoProcessor.lock.
LockInv == /\ TypeOK
           /\ Registered
           /\ UsersCounted
           /\ OneKeyPerObject
           /\ EntriesUsed
           /\ TokenIsInside

\* The reference-counted locks behave as one mutex per key.
KeyMutex == INSTANCE KeyedMutex
              WITH asked <- want,
                   owner <- [c \in Caller |-> IF Inside(c) THEN want[c] ELSE NoKey]

\* PhotoLocks implements KeyedMutex (photoProcessor.lock as its callers see it).
ImplementsKeyedMutex == KeyMutex!KMSpec
=============================================================================
