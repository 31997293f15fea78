------------------------- MODULE LoginAndCacheProofs -------------------------
(***************************************************************************)
(* Proofs about QueryCache, for any photos, albums, requests and bounds,   *)
(* and, at the end, about LoginGate, for any addresses, attempts and times.*)
(*                                                                         *)
(* The invariant of the caches has two parts.  A value serves the revision *)
(* it is kept under: it is the projection of a state of the table that has *)
(* every change the revision tells of, and that is no older than the reads *)
(* that may still take it.  And the numbers of snapshots, by which orders  *)
(* are kept, tell values apart: for the index because loads are counted,   *)
(* for the shared photos because a load that finds its revision unchanged  *)
(* is published under it before the next one of the kind can begin.        *)
(***************************************************************************)
EXTENDS QueryCache, FiniteSetTheorems, TLAPS

Locked    == {"again", "load", "compare", "store"}   \* who is there holds buildMu
Valued    == {"compare", "store", "order", "done"}   \* who is there has a value
Comparing == {"peek", "again"}                       \* who is there takes a value of its revision

\* Where a writer is that has not advanced the revision of a kind yet.
ToBump(k) == CASE k = "shared" -> {"share"}
               [] k = "index"  -> {"share", "index"}
               [] k = "albums" -> {"share", "index", "albums"}

Bumping == {"share", "index", "albums", "answer"}
Ids == [Photo -> Album \cup {Hidden} \cup (Album \X {0, 1})]

WriterState == [pc : Bumping, n : 2..MaxWrites + 1, before : Rows]
ReaderState == [pc : {"idle", "peek", "build", "again", "load", "compare", "store", "order", "done"},
                kind : Kinds, current : 0..MaxWrites, value : Value,
                from : 0..MaxWrites + 1, order : Ids]

Pending(k) == {p \in Photo : writers[p].pc \in ToBump(k)}
ToBuild(k) == {r \in Reader : Kind(r) = k /\ readers[r].pc \in {"peek", "build", "again"}}

\* The types of all variables, and the counts that keep them within their bounds.
Typed ==
  /\ log \in Seq([Photo -> Rows]) /\ Len(log) \in 1..MaxWrites + 1
  /\ rev \in [Kinds -> Nat] /\ builds \in [Kinds -> Nat]
  /\ cache \in [Kinds -> [ready : BOOLEAN, revision : 0..MaxWrites, value : Value]]
  /\ builder \in [Kinds -> Reader \cup {Free}]
  /\ IsFiniteSet(DOMAIN orders) /\ Cardinality(DOMAIN orders) <= MaxOrders
  /\ \A x \in DOMAIN orders : x \in Kinds \X Nat /\ orders[x] \in Ids
  /\ writers \in [Photo -> WriterState \cup {NoWrite}]
  /\ readers \in [Reader -> ReaderState]
  /\ floor \in [Kinds -> 1..MaxWrites + 1]
  /\ gets \in 0..MaxGets

\* Every write advances a revision once, every read loads once.
Counted ==
  \A k \in Kinds : /\ rev[k] + Cardinality(Pending(k)) < Len(log)
                   /\ builds[k] + Cardinality(ToBuild(k)) <= gets

\* Whether the n-th state differs from the one before it in what a kind depends on.
Differs(k, n) == Proj(k, log[n]) # Proj(k, log[n - 1])

\* A write in progress is the one that made its state from the state before.
OwnWrite(p) == LET n == writers[p].n IN
  /\ n \in 2..Len(log) /\ writers[p].before = log[n - 1][p]
  /\ \A q \in Photo \ {p} : log[n][q] = log[n - 1][q]

\* The j-th state has every change of a kind that its present revision tells of.
Covers(k, j) ==
  /\ floor[k] <= j
  /\ \A p \in Photo : writers[p].pc \in Bumping \ ToBump(k) /\ Differs(k, writers[p].n)
                        => writers[p].n <= j

\* A value of revision c is good for whoever asks for it.
Serves(k, c, ids) == \E j \in 1..Len(log) :
  /\ ids = Proj(k, log[j])
  /\ c = rev[k] => Covers(k, j)
  /\ \A r \in Reader : readers[r].pc \in Comparing /\ Kind(r) = k /\ readers[r].current = c
                         => readers[r].from <= j

\* Writers and readers are within the history, ...
InHistory ==
  /\ \A k \in Kinds : floor[k] <= Len(log)
  /\ \A p \in Photo : writers[p] # NoWrite => OwnWrite(p)
  /\ \A r \in Reader : readers[r].pc # "idle" =>
       readers[r].from \in 1..floor[Kind(r)] /\ readers[r].current <= rev[Kind(r)]

\* ... every value kept or about to be serves its revision, and every value read
\* is of a moment after the read began.
ValuesServe ==
  /\ \A k \in Kinds : cache[k].ready =>
       cache[k].revision <= rev[k] /\ Serves(k, cache[k].revision, cache[k].value.ids)
  /\ \A r \in Reader : readers[r].pc \in {"compare", "store"} =>
       Serves(Kind(r), readers[r].current, readers[r].value.ids)
  /\ \A r \in Reader : readers[r].pc \in Valued =>
       \E i \in readers[r].from..Len(log) : readers[r].value.ids = Proj(Kind(r), log[i])

\* The values of a kind there are: read, cached, and ordered.
Copies(k) ==
  {readers[r].value : r \in {q \in Reader : Kind(q) = k /\ readers[q].pc \in Valued}}
    \cup {cache[c].value : c \in {d \in {k} : cache[d].ready}}
    \cup {[snapshot |-> x[2], ids |-> orders[x]] : x \in {y \in DOMAIN orders : y[1] = k}}

\* One snapshot number, one value.
OneEach == \A k \in Kinds : \A v, w \in Copies(k) : v.snapshot = w.snapshot => v.ids = w.ids

\* Whoever holds buildMu holds it alone, and loads only what is newer than the cache.
LocksBuild ==
  \A r \in Reader : readers[r].pc \in Locked =>
    /\ builder[Kind(r)] = r
    /\ cache[Kind(r)].ready => \/ cache[Kind(r)].revision < readers[r].current
                               \/ readers[r].pc = "again" /\ cache[Kind(r)].revision = readers[r].current

\* The index and the albums number by loads: the next number is not in use.
LoadsNumber == \A k \in Kinds \ {"shared"} : \A w \in Copies(k) :
  /\ w.snapshot <= builds[k]
  /\ \A r \in Reader : At(r, "load") /\ Kind(r) = k => w.snapshot < builds[k]

IsCached(n) == cache["shared"].ready /\ cache["shared"].revision = n

\* The shared photos number by the revision: its present value is in the cache
\* or in the hands of the one who loads it.
RevisionsNumber == \A w \in Copies("shared") :
  /\ \/ w.snapshot < rev["shared"] \/ IsCached(w.snapshot)
     \/ \E r \in Reader : /\ readers[r].pc \in {"compare", "store"} /\ Kind(r) = "shared"
                          /\ readers[r].current = w.snapshot
  /\ \A r \in Reader : Kind(r) = "shared" =>
       /\ At(r, "load") => w.snapshot < readers[r].current
       /\ At(r, "again") => w.snapshot < readers[r].current \/ IsCached(w.snapshot)

Numbered == OneEach /\ LocksBuild /\ LoadsNumber /\ RevisionsNumber /\ OrderFitsIndex
CacheIInv == Typed /\ Counted /\ InHistory /\ ValuesServe /\ Numbered
-----------------------------------------------------------------------------
(* Finite sets that gain or lose an element. *)

LEMMA Smaller ==
  ASSUME NEW S, IsFiniteSet(S), NEW T \in SUBSET S
  PROVE  IsFiniteSet(T) /\ Cardinality(T) \in Nat /\ Cardinality(S) \in Nat /\ Cardinality(T) <= Cardinality(S)
  BY FS_Subset, FS_CardinalityType

LEMMA OneMore ==
  ASSUME NEW S, IsFiniteSet(S), NEW x, NEW T \in SUBSET (S \cup {x})
  PROVE  /\ IsFiniteSet(T) /\ Cardinality(T) \in Nat /\ Cardinality(S) \in Nat
         /\ Cardinality(T) <= Cardinality(S) + 1
  <1>1. /\ IsFiniteSet(S \cup {x}) /\ Cardinality(S) \in Nat
        /\ Cardinality(S \cup {x}) <= Cardinality(S) + 1
    <2>1. Cardinality(S) \in Nat
      BY FS_CardinalityType
    <2>. QED
      BY <2>1, FS_AddElement
  <1>2. IsFiniteSet(T) /\ Cardinality(T) \in Nat /\ Cardinality(S \cup {x}) \in Nat
        /\ Cardinality(T) <= Cardinality(S \cup {x})
    BY <1>1, Smaller
  <1>. QED
    BY <1>1, <1>2

LEMMA OneLess ==
  ASSUME NEW S, IsFiniteSet(S), NEW x \in S, NEW T \in SUBSET (S \ {x})
  PROVE  /\ IsFiniteSet(T) /\ Cardinality(T) \in Nat /\ Cardinality(S) \in Nat
         /\ Cardinality(T) + 1 <= Cardinality(S)
  <1>1. /\ IsFiniteSet(S \ {x}) /\ Cardinality(S) \in Nat
        /\ Cardinality(S \ {x}) = Cardinality(S) - 1
    BY FS_RemoveElement, FS_CardinalityType
  <1>2. IsFiniteSet(T) /\ Cardinality(T) \in Nat /\ Cardinality(S \ {x}) \in Nat
        /\ Cardinality(T) <= Cardinality(S \ {x})
    BY <1>1, Smaller
  <1>. QED
    BY <1>1, <1>2
-----------------------------------------------------------------------------
(* Steps of the queries: what one reader becomes. *)

Turns(r, m) ==
  /\ m \in ReaderState /\ readers' \in [Reader -> ReaderState]
  /\ readers'[r] = m /\ \A q \in Reader \ {r} : readers'[q] = readers[q]

\* Reader r goes on with the read it is at.
Now(r, pc, current, value, order) ==
  [pc |-> pc, kind |-> Kind(r), current |-> current, value |-> value,
   from |-> readers[r].from, order |-> order]

LEMMA TurnTo ==
  ASSUME Typed, NEW r \in Reader, NEW m \in ReaderState, readers' = [readers EXCEPT ![r] = m]
  PROVE  Turns(r, m)
  BY DEF Typed, Turns

LEMMA ReaderFields ==
  ASSUME Typed, NEW r \in Reader
  PROVE  /\ readers[r] \in ReaderState /\ Kind(r) \in Kinds /\ readers[r].current \in 0..MaxWrites
         /\ readers[r].from \in 0..MaxWrites + 1 /\ readers[r].value \in Value /\ readers[r].order \in Ids
         /\ readers[r].pc \in {"idle", "peek", "build", "again", "load", "compare", "store", "order", "done"}
         /\ cache[Kind(r)].value \in Value /\ builds[Kind(r)] \in Nat /\ rev[Kind(r)] \in Nat
         /\ floor[Kind(r)] \in 1..MaxWrites + 1 /\ cache[Kind(r)].revision \in 0..MaxWrites
         /\ cache[Kind(r)].ready \in BOOLEAN
  <1>1. readers[r] \in ReaderState
    BY DEF Typed
  <1>2. Kind(r) \in Kinds
    BY <1>1 DEF ReaderState, Kind
  <1>3. cache[Kind(r)] \in [ready : BOOLEAN, revision : 0..MaxWrites, value : Value]
    BY <1>2 DEF Typed
  <1>. QED
    BY <1>1, <1>2, <1>3 DEF Typed, ReaderState

\* A reader is what its fields are.
LEMMA SameReader ==
  ASSUME NEW x \in ReaderState, NEW y \in ReaderState,
         x.pc = y.pc, x.kind = y.kind, x.current = y.current, x.value = y.value,
         x.from = y.from, x.order = y.order
  PROVE  x = y
  BY DEF ReaderState

\* What the assignments of the steps come to.
LEMMA GoesOn ==
  ASSUME Typed, NEW r \in Reader, NEW a, NEW c, NEW v, NEW o,
         NEW m \in ReaderState, m = Now(r, a, c, v, o),
         \/ /\ readers' = [readers EXCEPT ![r].pc = a]
            /\ c = readers[r].current /\ v = readers[r].value /\ o = readers[r].order
         \/ /\ readers' = [readers EXCEPT ![r].pc = a, ![r].current = c]
            /\ v = readers[r].value /\ o = readers[r].order
         \/ /\ readers' = [readers EXCEPT ![r].pc = a, ![r].value = v]
            /\ c = readers[r].current /\ o = readers[r].order
         \/ /\ readers' = [readers EXCEPT ![r].pc = a, ![r].value = v, ![r].current = c]
            /\ o = readers[r].order
         \/ /\ readers' = [readers EXCEPT ![r].pc = a, ![r].order = o]
            /\ c = readers[r].current /\ v = readers[r].value
  PROVE  Turns(r, m)
  <1>1. readers[r] \in ReaderState
    BY DEF Typed
  <1>2. /\ m.pc = a /\ m.kind = readers[r].kind /\ m.current = c /\ m.value = v
        /\ m.from = readers[r].from /\ m.order = o
    BY DEF Now, Kind
  <1>3. PICK x : x = readers'[r]
    OBVIOUS
  <1>4. x \in ReaderState
    <2>1. /\ a \in {"idle", "peek", "build", "again", "load", "compare", "store", "order", "done"}
          /\ c \in 0..MaxWrites /\ v \in Value /\ o \in Ids
      BY <1>2 DEF ReaderState
    <2>2. CASE readers' = [readers EXCEPT ![r].pc = a]
      BY <1>1, <1>3, <2>1, <2>2 DEF Typed, ReaderState
    <2>3. CASE readers' = [readers EXCEPT ![r].pc = a, ![r].current = c]
      BY <1>1, <1>3, <2>1, <2>3 DEF Typed, ReaderState
    <2>4. CASE readers' = [readers EXCEPT ![r].pc = a, ![r].value = v]
      BY <1>1, <1>3, <2>1, <2>4 DEF Typed, ReaderState
    <2>5. CASE readers' = [readers EXCEPT ![r].pc = a, ![r].value = v, ![r].current = c]
      BY <1>1, <1>3, <2>1, <2>5 DEF Typed, ReaderState
    <2>6. CASE readers' = [readers EXCEPT ![r].pc = a, ![r].order = o]
      BY <1>1, <1>3, <2>1, <2>6 DEF Typed, ReaderState
    <2>. QED
      BY <2>2, <2>3, <2>4, <2>5, <2>6
  <1>5. /\ x.pc = a /\ x.kind = readers[r].kind /\ x.current = c /\ x.value = v
        /\ x.from = readers[r].from /\ x.order = o
    BY <1>1, <1>3 DEF Typed, ReaderState
  <1>6. x = m
    BY <1>2, <1>4, <1>5, SameReader
  <1>7. readers' \in [Reader -> ReaderState] /\ \A q \in Reader \ {r} : readers'[q] = readers[q]
    BY <1>3, <1>4 DEF Typed
  <1>. QED
    BY <1>3, <1>6, <1>7 DEF Turns

\* What a load reads has the type of a value.
LEMMA ProjType ==
  ASSUME NEW k \in Kinds, NEW state \in [Photo -> Rows]
  PROVE  Proj(k, state) \in Ids
  <1>1. ASSUME NEW p \in Photo
        PROVE  /\ state[p].album \in Album \cup {Hidden}
               /\ Visible(state[p]) => <<state[p].album, state[p].ver>> \in Album \X {0, 1}
    BY DEF Rows, Visible
  <1>2. CASE k = "index"
    BY <1>1, <1>2 DEF Proj, Ids
  <1>3. CASE k = "shared"
    BY <1>1, <1>3 DEF Proj, Ids
  <1>4. CASE k = "albums"
    BY <1>1, <1>4 DEF Proj, Ids
  <1>. QED
    BY <1>2, <1>3, <1>4 DEF Kinds

LEMMA PresentState ==
  ASSUME Typed
  PROVE  db \in [Photo -> Rows] /\ Len(log) \in Nat /\ Len(log) >= 1 /\ log[Len(log)] = db
  BY CacheConstants DEF Typed, db

LEMMA IdleReader == NoRead \in ReaderState /\ NoValue \in Value /\ Blank \in Ids /\ NoValue.ids \in Ids
  BY CacheConstants DEF NoRead, NoValue, Blank, Ids, Value, ReaderState, Kinds

LEMMA GetTurns ==
  ASSUME Typed, NEW r \in Reader, NEW k \in Kinds, Get(r, k), rev[k] \in 0..MaxWrites
  PROVE  /\ Turns(r, [pc |-> "peek", kind |-> k, current |-> rev[k], value |-> NoValue,
                      from |-> floor[k], order |-> Blank])
         /\ readers[r].pc = "idle" /\ gets < MaxGets /\ gets' = gets + 1
         /\ UNCHANGED <<cache, builds, builder, orders, Writing>>
  <1> DEFINE m == [pc |-> "peek", kind |-> k, current |-> rev[k], value |-> NoValue,
                   from |-> floor[k], order |-> Blank]
  <1>1. m \in ReaderState
    <2>1. floor[k] \in 1..MaxWrites + 1 /\ floor[k] \in 0..MaxWrites + 1
      BY CacheConstants DEF Typed
    <2>. QED
      BY <2>1, IdleReader DEF ReaderState
  <1>2. readers' = [readers EXCEPT ![r] = m]
    <2> DEFINE s == [NoRead EXCEPT !.pc = "peek", !.kind = k, !.current = rev[k], !.from = floor[k]]
    <2>1. floor[k] \in 0..MaxWrites + 1
      BY CacheConstants DEF Typed
    <2>2. s \in ReaderState
      BY <2>1, IdleReader DEF ReaderState
    <2>3. /\ s.pc = "peek" /\ s.kind = k /\ s.current = rev[k] /\ s.from = floor[k]
          /\ s.value = NoValue /\ s.order = Blank
      BY DEF NoRead
    <2>4. readers' = [readers EXCEPT ![r] = s]
      BY DEF Get
    <2> HIDE DEF s
    <2>5. s = m
      BY <1>1, <2>2, <2>3, SameReader
    <2>. QED
      BY <2>4, <2>5
  <1>. QED
    BY <1>1, <1>2, TurnTo DEF Get

LEMMA PeekTurns ==
  ASSUME Typed, NEW r \in Reader, Peek(r)
  PROVE  /\ readers[r].pc = "peek" /\ UNCHANGED <<cache, builds, builder, orders, gets, Writing>>
         /\ \/ Hit(r) /\ Turns(r, Now(r, AfterGet(r), 0, cache[Kind(r)].value, readers[r].order))
            \/ ~Hit(r) /\ Turns(r, Now(r, "build", readers[r].current, readers[r].value, readers[r].order))
  <1>. USE ReaderFields
  <1>1. CASE Hit(r)
    <2>1. Now(r, AfterGet(r), 0, cache[Kind(r)].value, readers[r].order) \in ReaderState
      BY CacheConstants DEF Now, AfterGet, ReaderState
    <2>2. readers' = [readers EXCEPT ![r].pc = AfterGet(r), ![r].value = cache[Kind(r)].value, ![r].current = 0]
      BY <1>1 DEF Peek, Answer
    <2>3. Turns(r, Now(r, AfterGet(r), 0, cache[Kind(r)].value, readers[r].order))
      BY <2>1, <2>2, GoesOn
    <2>. QED
      BY <1>1, <2>3 DEF Peek, At
  <1>2. CASE ~Hit(r)
    <2>1. Now(r, "build", readers[r].current, readers[r].value, readers[r].order) \in ReaderState
      BY DEF Now, ReaderState
    <2>2. readers' = [readers EXCEPT ![r].pc = "build"]
      BY <1>2 DEF Peek, Goto
    <2>3. Turns(r, Now(r, "build", readers[r].current, readers[r].value, readers[r].order))
      BY <2>1, <2>2, GoesOn
    <2>. QED
      BY <1>2, <2>3 DEF Peek, At
  <1>. QED
    BY <1>1, <1>2

LEMMA LockTurns ==
  ASSUME Typed, NEW r \in Reader, Lock(r), rev[Kind(r)] \in 0..MaxWrites
  PROVE  /\ readers[r].pc = "build" /\ builder[Kind(r)] = Free
         /\ builder' = [builder EXCEPT ![Kind(r)] = r]
         /\ Turns(r, Now(r, "again", rev[Kind(r)], readers[r].value, readers[r].order))
         /\ UNCHANGED <<cache, builds, orders, gets, Writing>>
  <1>. USE ReaderFields
  <1>1. Now(r, "again", rev[Kind(r)], readers[r].value, readers[r].order) \in ReaderState
    BY DEF Now, ReaderState
  <1>2. readers' = [readers EXCEPT ![r].pc = "again", ![r].current = rev[Kind(r)]]
    BY DEF Lock
  <1>3. Turns(r, Now(r, "again", rev[Kind(r)], readers[r].value, readers[r].order))
    BY <1>1, <1>2, GoesOn
  <1>. QED
    BY <1>1, <1>3 DEF Lock, At

LEMMA PeekAgainTurns ==
  ASSUME Typed, NEW r \in Reader, PeekAgain(r)
  PROVE  /\ readers[r].pc = "again" /\ UNCHANGED <<cache, orders, gets, Writing>>
         /\ \/ /\ Hit(r) /\ Unlock(r) /\ UNCHANGED builds
               /\ Turns(r, Now(r, AfterGet(r), 0, cache[Kind(r)].value, readers[r].order))
            \/ /\ ~Hit(r) /\ UNCHANGED builder /\ builds' = [builds EXCEPT ![Kind(r)] = @ + 1]
               /\ Turns(r, Now(r, "load", readers[r].current, readers[r].value, readers[r].order))
  <1>. USE ReaderFields
  <1>1. CASE Hit(r)
    <2>1. Now(r, AfterGet(r), 0, cache[Kind(r)].value, readers[r].order) \in ReaderState
      BY CacheConstants DEF Now, AfterGet, ReaderState
    <2>2. readers' = [readers EXCEPT ![r].pc = AfterGet(r), ![r].value = cache[Kind(r)].value, ![r].current = 0]
      BY <1>1 DEF PeekAgain, Answer
    <2>3. Turns(r, Now(r, AfterGet(r), 0, cache[Kind(r)].value, readers[r].order))
      BY <2>1, <2>2, GoesOn
    <2>. QED
      BY <1>1, <2>3 DEF PeekAgain, At
  <1>2. CASE ~Hit(r)
    <2>1. Now(r, "load", readers[r].current, readers[r].value, readers[r].order) \in ReaderState
      BY DEF Now, ReaderState
    <2>2. readers' = [readers EXCEPT ![r].pc = "load"]
      BY <1>2 DEF PeekAgain, Goto
    <2>3. Turns(r, Now(r, "load", readers[r].current, readers[r].value, readers[r].order))
      BY <2>1, <2>2, GoesOn
    <2>. QED
      BY <1>2, <2>3 DEF PeekAgain, At
  <1>. QED
    BY <1>1, <1>2

\* The snapshot number of a load, and what it brings.
Number(r) == IF Kind(r) = "shared" THEN readers[r].current ELSE builds[Kind(r)]
Loaded(r) == [snapshot |-> Number(r), ids |-> Proj(Kind(r), db)]

LEMMA LoadedType ==
  ASSUME Typed, NEW r \in Reader
  PROVE  Loaded(r) \in Value
  <1>1. Proj(Kind(r), db) \in Ids
    BY ReaderFields, PresentState, ProjType
  <1>2. Number(r) \in Nat
    BY ReaderFields, CacheConstants DEF Number
  <1>. QED
    BY <1>1, <1>2 DEF Loaded, Value, Ids

LEMMA LoadTurns ==
  ASSUME Typed, NEW r \in Reader, Load(r)
  PROVE  /\ readers[r].pc = "load" /\ Loaded(r) \in Value
         /\ Turns(r, Now(r, "compare", readers[r].current, Loaded(r), readers[r].order))
         /\ UNCHANGED <<cache, builds, builder, orders, gets, Writing>>
  <1>. USE ReaderFields
  <1>1. Now(r, "compare", readers[r].current, Loaded(r), readers[r].order) \in ReaderState
    BY LoadedType DEF Now, ReaderState
  <1>2. readers' = [readers EXCEPT ![r].pc = "compare", ![r].value = Loaded(r)]
    BY DEF Load, Loaded, Number
  <1>3. Turns(r, Now(r, "compare", readers[r].current, Loaded(r), readers[r].order))
    BY <1>1, <1>2, GoesOn
  <1>. QED
    BY <1>1, <1>3, LoadedType DEF Load, At

LEMMA CompareTurns ==
  ASSUME Typed, NEW r \in Reader, Compare(r)
  PROVE  /\ readers[r].pc = "compare" /\ UNCHANGED <<cache, builds, orders, gets, Writing>>
         /\ \/ /\ rev[Kind(r)] = readers[r].current /\ UNCHANGED builder
               /\ Turns(r, Now(r, "store", readers[r].current, readers[r].value, readers[r].order))
            \/ /\ rev[Kind(r)] # readers[r].current /\ Unlock(r)
               /\ Turns(r, Now(r, AfterGet(r), readers[r].current, readers[r].value, readers[r].order))
  <1>. USE ReaderFields
  <1>1. CASE rev[Kind(r)] = readers[r].current
    <2>1. Now(r, "store", readers[r].current, readers[r].value, readers[r].order) \in ReaderState
      BY DEF Now, ReaderState
    <2>2. readers' = [readers EXCEPT ![r].pc = "store"]
      BY <1>1 DEF Compare, Goto
    <2>3. Turns(r, Now(r, "store", readers[r].current, readers[r].value, readers[r].order))
      BY <2>1, <2>2, GoesOn
    <2>. QED
      BY <1>1, <2>3 DEF Compare, At
  <1>2. CASE rev[Kind(r)] # readers[r].current
    <2>1. Now(r, AfterGet(r), readers[r].current, readers[r].value, readers[r].order) \in ReaderState
      BY CacheConstants DEF Now, AfterGet, ReaderState
    <2>2. readers' = [readers EXCEPT ![r].pc = AfterGet(r)]
      BY <1>2 DEF Compare, Goto
    <2>3. Turns(r, Now(r, AfterGet(r), readers[r].current, readers[r].value, readers[r].order))
      BY <2>1, <2>2, GoesOn
    <2>. QED
      BY <1>2, <2>3 DEF Compare, At
  <1>. QED
    BY <1>1, <1>2

Kept(r) == [ready |-> TRUE, revision |-> readers[r].current, value |-> readers[r].value]

LEMMA StoreTurns ==
  ASSUME Typed, NEW r \in Reader, Store(r)
  PROVE  /\ readers[r].pc = "store" /\ Unlock(r)
         /\ Turns(r, Now(r, AfterGet(r), readers[r].current, readers[r].value, readers[r].order))
         /\ cache' = [cache EXCEPT ![Kind(r)] = Kept(r)]
         /\ UNCHANGED <<builds, orders, gets, Writing>>
  <1>. USE ReaderFields
  <1>1. Now(r, AfterGet(r), readers[r].current, readers[r].value, readers[r].order) \in ReaderState
    BY CacheConstants DEF Now, AfterGet, ReaderState
  <1>2. readers' = [readers EXCEPT ![r].pc = AfterGet(r)]
    BY DEF Store, Goto
  <1>3. Turns(r, Now(r, AfterGet(r), readers[r].current, readers[r].value, readers[r].order))
    BY <1>1, <1>2, GoesOn
  <1>. QED
    BY <1>1, <1>3 DEF Store, At, Kept

\* The order a page gets.
Ordered(r) == IF OrderKey(r) \in DOMAIN orders THEN orders[OrderKey(r)] ELSE readers[r].value.ids

LEMMA OrderedType ==
  ASSUME Typed, NEW r \in Reader
  PROVE  Ordered(r) \in Ids
  <1>1. readers[r].value.ids \in Ids
    BY ReaderFields DEF Value, Ids
  <1>. QED
    BY <1>1 DEF Ordered, Typed

LEMMA OrderTurns ==
  ASSUME Typed, NEW r \in Reader, Order(r)
  PROVE  /\ readers[r].pc = "order" /\ Ordered(r) \in Ids
         /\ Turns(r, Now(r, "done", readers[r].current, readers[r].value, Ordered(r)))
         /\ UNCHANGED <<cache, builds, builder, gets, Writing>>
  <1>. USE ReaderFields
  <1>1. Now(r, "done", readers[r].current, readers[r].value, Ordered(r)) \in ReaderState
    BY OrderedType DEF Now, ReaderState
  <1>2. CASE OrderKey(r) \in DOMAIN orders
    <2>1. readers' = [readers EXCEPT ![r].pc = "done", ![r].order = orders[OrderKey(r)]]
      BY <1>2 DEF Order
    <2>2. Turns(r, Now(r, "done", readers[r].current, readers[r].value, Ordered(r)))
      BY <1>1, <1>2, <2>1, GoesOn DEF Ordered
    <2>. QED
      BY <2>2, OrderedType DEF Order, At
  <1>3. CASE OrderKey(r) \notin DOMAIN orders
    <2>1. readers' = [readers EXCEPT ![r].pc = "done", ![r].order = readers[r].value.ids]
      BY <1>3 DEF Order
    <2>2. Turns(r, Now(r, "done", readers[r].current, readers[r].value, Ordered(r)))
      BY <1>1, <1>3, <2>1, GoesOn DEF Ordered
    <2>. QED
      BY <2>2, OrderedType DEF Order, At
  <1>. QED
    BY <1>2, <1>3

LEMMA EndTurns ==
  ASSUME Typed, NEW r \in Reader, LoadFails(r) \/ Finish(r)
  PROVE  /\ Turns(r, NoRead) /\ UNCHANGED <<cache, builds, orders, gets, Writing>>
         /\ \/ readers[r].pc = "load" /\ Unlock(r)
            \/ readers[r].pc = "done" /\ UNCHANGED builder
  BY IdleReader, TurnTo DEF LoadFails, Finish, At
-----------------------------------------------------------------------------
(* Steps of the writers. *)

LEMMA WriterFields ==
  ASSUME Typed, NEW p \in Photo, writers[p].pc # "idle"
  PROVE  /\ writers[p] \in WriterState /\ writers[p].pc \in Bumping /\ writers[p].n \in 2..MaxWrites + 1
         /\ writers[p].before \in Rows
  BY DEF Typed, WriterState, NoWrite

\* p has advanced what it had to advance of kind k, and goes on.
Advances(p, k, pc) ==
  /\ writers[p].pc \in ToBump(k) \cap Bumping /\ pc \in Bumping \ ToBump(k)
  /\ \A c \in Kinds \ {k} : pc \in ToBump(c) <=> writers[p].pc \in ToBump(c)
  /\ writers' \in [Photo -> WriterState \cup {NoWrite}]
  /\ writers'[p].pc = pc /\ writers'[p].n = writers[p].n /\ writers'[p].before = writers[p].before
  /\ \A q \in Photo \ {p} : writers'[q] = writers[q]
  /\ \/ rev' = [rev EXCEPT ![k] = @ + 1]
     \/ rev' = rev /\ (OwnWrite(p) => ~Differs(k, writers[p].n))
  /\ UNCHANGED <<log, floor, Reading>>

LEMMA WriterGoesOn ==
  ASSUME Typed, NEW p \in Photo, NEW pc \in Bumping, writers[p].pc # "idle",
         writers' = [writers EXCEPT ![p].pc = pc]
  PROVE  /\ writers' \in [Photo -> WriterState \cup {NoWrite}]
         /\ writers'[p].pc = pc /\ writers'[p].n = writers[p].n /\ writers'[p].before = writers[p].before
         /\ \A q \in Photo \ {p} : writers'[q] = writers[q]
  <1>1. writers[p] \in WriterState
    BY WriterFields
  <1>2. [writers[p] EXCEPT !.pc = pc] \in WriterState
    BY <1>1 DEF WriterState
  <1>3. writers' = [writers EXCEPT ![p] = [writers[p] EXCEPT !.pc = pc]]
    OBVIOUS
  <1>4. writers' \in [Photo -> WriterState \cup {NoWrite}]
    BY <1>2, <1>3 DEF Typed
  <1>. QED
    BY <1>1, <1>3, <1>4 DEF Typed, WriterState

\* What a write leaves alone does not differ.
LEMMA SameRow ==
  ASSUME Typed, NEW p \in Photo, writers[p].pc # "idle", OwnWrite(p), NEW k \in Kinds,
         \/ k = "index" /\ writers[p].before.album = Written(p).album
         \/ k = "albums" /\ ~Visible(writers[p].before) /\ ~Visible(Written(p))
         \/ k = "albums" /\ ShareOnly(p)
  PROVE  ~Differs(k, writers[p].n)
  <1>1. PICK n : n = writers[p].n
    OBVIOUS
  <1>2. /\ n \in 2..Len(log) /\ writers[p].before = log[n - 1][p] /\ Written(p) = log[n][p]
        /\ \A q \in Photo \ {p} : log[n][q] = log[n - 1][q]
    BY <1>1 DEF OwnWrite, Written
  <1>3. CASE k = "index"
    BY <1>1, <1>2, <1>3 DEF Differs, Proj
  <1>4. CASE k = "albums" /\ ~Visible(writers[p].before) /\ ~Visible(Written(p))
    BY <1>1, <1>2, <1>4 DEF Differs, Proj
  <1>5. CASE k = "albums" /\ ShareOnly(p)
    <2>1. writers[p].before \in Rows
      BY WriterFields
    <2>2. ASSUME NEW old \in Rows PROVE LET new == [old EXCEPT !.shared = ~@]
                                       IN new.album = old.album /\ new.ver = old.ver
      BY DEF Rows
    <2>3. Written(p).album = writers[p].before.album /\ Written(p).ver = writers[p].before.ver
      BY <1>5, <2>1, <2>2 DEF ShareOnly
    <2>4. \A q \in Photo : log[n][q].album = log[n - 1][q].album /\ log[n][q].ver = log[n - 1][q].ver
      BY <1>2, <2>3
    <2>5. Proj("albums", log[n]) = Proj("albums", log[n - 1])
      BY <2>4 DEF Proj, Visible
    <2>. QED
      BY <1>1, <1>5, <2>5 DEF Differs
  <1>. QED
    BY <1>3, <1>4, <1>5

LEMMA BumpAdvances ==
  ASSUME Typed, NEW p \in Photo, BumpShare(p) \/ BumpIndex(p) \/ BumpAlbums(p)
  PROVE  \E k \in Kinds, pc \in Bumping : Advances(p, k, pc)
  <1>1. ASSUME NEW k \in Kinds, NEW pc \in Bumping, writers[p].pc # "idle",
               writers' = [writers EXCEPT ![p].pc = pc], UNCHANGED <<log, floor, Reading>>,
               \/ rev' = [rev EXCEPT ![k] = @ + 1]
               \/ rev' = rev /\ (OwnWrite(p) => ~Differs(k, writers[p].n)),
               writers[p].pc \in ToBump(k) \cap Bumping, pc \notin ToBump(k),
               \A c \in Kinds \ {k} : pc \in ToBump(c) <=> writers[p].pc \in ToBump(c)
        PROVE  Advances(p, k, pc)
    BY <1>1, WriterGoesOn DEF Advances
  <1>2. CASE BumpShare(p)
    <2>1. /\ writers[p].pc = "share" /\ writers' = [writers EXCEPT ![p].pc = "index"]
          /\ rev' = [rev EXCEPT !["shared"] = @ + 1] /\ UNCHANGED <<log, floor, Reading>>
      BY <1>2 DEF BumpShare, Bump
    <2>2. /\ "share" \in ToBump("shared") \cap Bumping /\ "index" \in Bumping \ ToBump("shared")
          /\ \A c \in Kinds \ {"shared"} : "index" \in ToBump(c) /\ "share" \in ToBump(c)
      BY DEF ToBump, Bumping, Kinds
    <2>. QED
      BY <1>1, <2>1, <2>2 DEF Kinds
  <1>3. CASE BumpIndex(p)
    <2>1. /\ writers[p].pc = "index" /\ writers' = [writers EXCEPT ![p].pc = "albums"]
          /\ UNCHANGED <<log, floor, Reading>>
          /\ \/ rev' = [rev EXCEPT !["index"] = @ + 1]
             \/ rev' = rev /\ writers[p].before.album = Written(p).album
      BY <1>3 DEF BumpIndex, Bump
    <2>2. /\ "index" \in ToBump("index") \cap Bumping /\ "albums" \in Bumping \ ToBump("index")
          /\ \A c \in Kinds \ {"index"} : "albums" \in ToBump(c) <=> "index" \in ToBump(c)
      BY DEF ToBump, Bumping, Kinds
    <2>3. \/ rev' = [rev EXCEPT !["index"] = @ + 1]
          \/ rev' = rev /\ (OwnWrite(p) => ~Differs("index", writers[p].n))
      BY <2>1, SameRow DEF Kinds
    <2>. QED
      BY <1>1, <2>1, <2>2, <2>3 DEF Kinds
  <1>4. CASE BumpAlbums(p)
    <2>1. /\ writers[p].pc = "albums" /\ writers' = [writers EXCEPT ![p].pc = "answer"]
          /\ UNCHANGED <<log, floor, Reading>>
          /\ \/ rev' = [rev EXCEPT !["albums"] = @ + 1]
             \/ rev' = rev /\ ShareOnly(p)
             \/ rev' = rev /\ ~Visible(writers[p].before) /\ ~Visible(Written(p))
      BY <1>4 DEF BumpAlbums, Bump
    <2>2. /\ "albums" \in ToBump("albums") \cap Bumping /\ "answer" \in Bumping \ ToBump("albums")
          /\ \A c \in Kinds \ {"albums"} : "answer" \in ToBump(c) <=> "albums" \in ToBump(c)
      BY DEF ToBump, Bumping, Kinds
    <2>3. \/ rev' = [rev EXCEPT !["albums"] = @ + 1]
          \/ rev' = rev /\ (OwnWrite(p) => ~Differs("albums", writers[p].n))
      BY <2>1, SameRow DEF Kinds
    <2>. QED
      BY <1>1, <2>1, <2>2, <2>3 DEF Kinds
  <1>. QED
    BY <1>2, <1>3, <1>4

\* A commit appends a state that differs from the present one in one row.
LEMMA CommitAppends ==
  ASSUME Typed, NEW p \in Photo, WritePhoto(p) \/ WriteShare(p)
  PROVE  \E row \in Rows : Commit(p, row, "share")
  <1>1. CASE WritePhoto(p)
    <2>1. PICK a \in Album \cup {Hidden}, v \in {0, 1} :
            Commit(p, [album |-> a, ver |-> v, shared |-> db[p].shared /\ a = db[p].album /\ v = db[p].ver], "share")
      BY <1>1 DEF WritePhoto
    <2>2. db[p] \in Rows
      BY PresentState
    <2>3. [album |-> a, ver |-> v, shared |-> db[p].shared /\ a = db[p].album /\ v = db[p].ver] \in Rows
      BY <2>2 DEF Rows
    <2>. QED
      BY <2>1, <2>3
  <1>2. CASE WriteShare(p)
    <2>1. db[p] \in Rows
      BY PresentState
    <2>2. [db[p] EXCEPT !.shared = ~@] \in Rows
      BY <2>1 DEF Rows
    <2>. QED
      BY <1>2, <2>2 DEF WriteShare
  <1>. QED
    BY <1>1, <1>2

LEMMA Committed ==
  ASSUME Typed, NEW p \in Photo, NEW row \in Rows, Commit(p, row, "share")
  PROVE  /\ writers[p] = NoWrite /\ log' \in Seq([Photo -> Rows])
         /\ Len(log') = Len(log) + 1 /\ Len(log') \in 1..MaxWrites + 1
         /\ \A i \in 1..Len(log) : log'[i] = log[i]
         /\ log'[Len(log) + 1][p] = row /\ \A q \in Photo \ {p} : log'[Len(log) + 1][q] = log[Len(log)][q]
         /\ writers' \in [Photo -> WriterState \cup {NoWrite}]
         /\ writers'[p] = [pc |-> "share", n |-> Len(log) + 1, before |-> log[Len(log)][p]]
         /\ \A q \in Photo \ {p} : writers'[q] = writers[q]
         /\ UNCHANGED <<rev, floor, Reading>>
  <1>1. db \in [Photo -> Rows] /\ Len(log) \in Nat /\ Len(log) >= 1 /\ log[Len(log)] = db
    BY PresentState
  <1>2. [db EXCEPT ![p] = row] \in [Photo -> Rows]
    BY <1>1
  <1>3. log' = Append(log, [db EXCEPT ![p] = row]) /\ writers[p] = NoWrite /\ Len(log) <= MaxWrites
    BY DEF Commit
  <1>4. /\ log' \in Seq([Photo -> Rows]) /\ Len(log') = Len(log) + 1
        /\ \A i \in 1..Len(log) : log'[i] = log[i]
        /\ log'[Len(log) + 1] = [db EXCEPT ![p] = row]
    BY <1>2, <1>3 DEF Typed
  <1>5. Len(log') \in 1..MaxWrites + 1 /\ Len(log) + 1 \in 2..MaxWrites + 1
    BY <1>1, <1>3, <1>4, CacheConstants
  <1>6. [pc |-> "share", n |-> Len(log) + 1, before |-> db[p]] \in WriterState
    BY <1>1, <1>5 DEF WriterState, Bumping
  <1>7. writers' = [writers EXCEPT ![p] = [pc |-> "share", n |-> Len(log) + 1, before |-> db[p]]]
    BY DEF Commit
  <1>8. /\ writers' \in [Photo -> WriterState \cup {NoWrite}]
        /\ writers'[p] = [pc |-> "share", n |-> Len(log) + 1, before |-> db[p]]
        /\ \A q \in Photo \ {p} : writers'[q] = writers[q]
    BY <1>6, <1>7 DEF Typed
  <1>. QED
    BY <1>1, <1>3, <1>4, <1>5, <1>8 DEF Commit

LEMMA Acknowledged ==
  ASSUME Typed, InHistory, NEW p \in Photo, Acknowledge(p)
  PROVE  /\ writers[p].pc = "answer" /\ writers' \in [Photo -> WriterState \cup {NoWrite}]
         /\ writers'[p] = NoWrite /\ \A q \in Photo \ {p} : writers'[q] = writers[q]
         /\ floor' \in [Kinds -> 1..MaxWrites + 1]
         /\ \A k \in Kinds : \/ floor'[k] = floor[k]
                             \/ Differs(k, writers[p].n) /\ floor'[k] = writers[p].n /\ floor[k] <= writers[p].n
         /\ UNCHANGED <<log, rev, Reading>>
  <1>1. writers[p].pc = "answer" /\ writers' = [writers EXCEPT ![p] = NoWrite]
    BY DEF Acknowledge
  <1>2. writers[p].n \in 2..MaxWrites + 1 /\ writers[p].n \in 1..MaxWrites + 1
    BY <1>1, WriterFields, CacheConstants
  <1>3. ASSUME NEW k \in Kinds
        PROVE  /\ floor'[k] \in 1..MaxWrites + 1
               /\ \/ floor'[k] = floor[k]
                  \/ Differs(k, writers[p].n) /\ floor'[k] = writers[p].n /\ floor[k] <= writers[p].n
    <2>1. floor[k] \in 1..MaxWrites + 1
      BY DEF Typed
    <2>2. floor'[k] = IF Differs(k, writers[p].n) THEN Larger(floor[k], writers[p].n) ELSE floor[k]
      BY DEF Acknowledge, Differs
    <2>. QED
      BY <1>2, <2>1, <2>2 DEF Larger
  <1>4. floor' \in [Kinds -> 1..MaxWrites + 1]
    BY <1>3 DEF Acknowledge
  <1>5. /\ writers' \in [Photo -> WriterState \cup {NoWrite}]
        /\ writers'[p] = NoWrite /\ \A q \in Photo \ {p} : writers'[q] = writers[q]
    BY <1>1 DEF Typed
  <1>. QED
    BY <1>1, <1>3, <1>4, <1>5 DEF Acknowledge
-----------------------------------------------------------------------------
(* Types and bounds. *)

LEMMA CountFields ==
  ASSUME Typed, Counted, NEW k \in Kinds
  PROVE  /\ IsFiniteSet(Pending(k)) /\ Cardinality(Pending(k)) \in Nat
         /\ IsFiniteSet(ToBuild(k)) /\ Cardinality(ToBuild(k)) \in Nat
         /\ rev[k] \in 0..MaxWrites /\ builds[k] \in 0..MaxGets
         /\ rev[k] + Cardinality(Pending(k)) < Len(log) /\ builds[k] + Cardinality(ToBuild(k)) <= gets
  <1>1. Pending(k) \in SUBSET Photo /\ ToBuild(k) \in SUBSET Reader
    BY DEF Pending, ToBuild
  <1>2. IsFiniteSet(Pending(k)) /\ Cardinality(Pending(k)) \in Nat
    BY <1>1, Smaller, CacheConstants
  <1>3. IsFiniteSet(ToBuild(k)) /\ Cardinality(ToBuild(k)) \in Nat
    BY <1>1, Smaller, CacheConstants
  <1>4. rev[k] + Cardinality(Pending(k)) < Len(log) /\ builds[k] + Cardinality(ToBuild(k)) <= gets
    BY DEF Counted
  <1>5. rev[k] \in Nat /\ builds[k] \in Nat /\ Len(log) \in 1..MaxWrites + 1 /\ gets \in 0..MaxGets
    BY DEF Typed
  <1>. QED
    BY <1>2, <1>3, <1>4, <1>5, CacheConstants

\* A step of the queries counts right if it does so for the kinds it reads.
LEMMA ReaderCounts ==
  ASSUME Typed, Counted, NEW r \in Reader, NEW m, Turns(r, m), UNCHANGED Writing,
         cache' \in [Kinds -> [ready : BOOLEAN, revision : 0..MaxWrites, value : Value]],
         builder' \in [Kinds -> Reader \cup {Free}],
         IsFiniteSet(DOMAIN orders'), Cardinality(DOMAIN orders') <= MaxOrders,
         \A x \in DOMAIN orders' : x \in Kinds \X Nat /\ orders'[x] \in Ids,
         gets' \in 0..MaxGets,
         \/ builds' = builds /\ gets' >= gets /\ ToBuild(m.kind)' \in SUBSET ToBuild(m.kind)
         \/ builds' = builds /\ gets' = gets + 1
         \/ /\ builds' = [builds EXCEPT ![Kind(r)] = @ + 1] /\ gets' = gets
            /\ readers[r].pc = "again" /\ m.pc = "load" /\ m.kind = Kind(r)
  PROVE  Typed' /\ Counted'
  <1>1. log' = log /\ rev' = rev /\ writers' = writers /\ floor' = floor
    BY DEF Writing
  <1>2. m \in ReaderState /\ m.kind \in Kinds /\ Kind(r) \in Kinds /\ builds[Kind(r)] \in Nat
    BY ReaderFields DEF Turns, ReaderState
  <1>3. builds' \in [Kinds -> Nat]
    <2>1. builds \in [Kinds -> Nat]
      BY DEF Typed
    <2>2. CASE builds' = builds
      BY <2>1, <2>2
    <2>3. CASE builds' = [builds EXCEPT ![Kind(r)] = @ + 1]
      BY <1>2, <2>1, <2>3
    <2>. QED
      BY <2>2, <2>3
  <1>4. Typed'
    BY <1>1, <1>3 DEF Typed, Turns
  <1>5. ASSUME NEW k \in Kinds
        PROVE  builds'[k] + Cardinality(ToBuild(k)') <= gets'
    <2>1. /\ IsFiniteSet(ToBuild(k)) /\ Cardinality(ToBuild(k)) \in Nat
          /\ builds[k] + Cardinality(ToBuild(k)) <= gets
      BY CountFields
    <2>2. builds[k] \in Nat /\ gets \in Nat /\ gets' \in Nat
      BY DEF Typed
    <2>3. \A q \in Reader : q # r => (q \in ToBuild(k)' <=> q \in ToBuild(k))
      BY DEF ToBuild, Turns, Kind
    <2>4. ToBuild(k) \in SUBSET Reader /\ ToBuild(k)' \in SUBSET Reader
      BY DEF ToBuild
    <2>5. r \in ToBuild(k)' => k = m.kind
      BY DEF ToBuild, Turns, Kind
    <2>6. CASE builds' = builds /\ gets' >= gets /\ ToBuild(m.kind)' \in SUBSET ToBuild(m.kind)
      <3>1. ToBuild(k)' \in SUBSET ToBuild(k)
        BY <2>3, <2>4, <2>5, <2>6
      <3>2. Cardinality(ToBuild(k)') \in Nat /\ Cardinality(ToBuild(k)') <= Cardinality(ToBuild(k))
        BY <2>1, <3>1, Smaller
      <3>. QED
        BY <2>1, <2>2, <2>6, <3>2
    <2>7. CASE builds' = builds /\ gets' = gets + 1
      <3>1. ToBuild(k)' \in SUBSET (ToBuild(k) \cup {r})
        BY <2>3, <2>4
      <3>2. Cardinality(ToBuild(k)') \in Nat /\ Cardinality(ToBuild(k)') <= Cardinality(ToBuild(k)) + 1
        BY <2>1, <3>1, OneMore
      <3>. QED
        BY <2>1, <2>2, <2>7, <3>2
    <2>8. CASE /\ builds' = [builds EXCEPT ![Kind(r)] = @ + 1] /\ gets' = gets
               /\ readers[r].pc = "again" /\ m.pc = "load" /\ m.kind = Kind(r)
      <3>1. r \notin ToBuild(k)'
        BY <2>8 DEF ToBuild, Turns
      <3>2. CASE k = Kind(r)
        <4>1. r \in ToBuild(k) /\ ToBuild(k)' \in SUBSET (ToBuild(k) \ {r})
          BY <2>3, <2>4, <2>8, <3>1, <3>2 DEF ToBuild
        <4>2. Cardinality(ToBuild(k)') \in Nat /\ Cardinality(ToBuild(k)') + 1 <= Cardinality(ToBuild(k))
          BY <2>1, <4>1, OneLess
        <4>3. builds'[k] = builds[k] + 1
          BY <1>2, <2>8, <3>2 DEF Typed
        <4>. QED
          BY <2>1, <2>2, <2>8, <4>2, <4>3
      <3>3. CASE k # Kind(r)
        <4>1. ToBuild(k)' \in SUBSET ToBuild(k)
          BY <2>3, <2>4, <3>1
        <4>2. Cardinality(ToBuild(k)') \in Nat /\ Cardinality(ToBuild(k)') <= Cardinality(ToBuild(k))
          BY <2>1, <4>1, Smaller
        <4>3. builds'[k] = builds[k]
          BY <2>8, <3>3 DEF Typed
        <4>. QED
          BY <2>1, <2>2, <2>8, <4>2, <4>3
      <3>. QED
        BY <3>2, <3>3
    <2>. QED
      BY <2>6, <2>7, <2>8
  <1>6. \A k \in Kinds : rev'[k] + Cardinality(Pending(k)') < Len(log')
    <2>1. \A k \in Kinds : Pending(k)' = Pending(k)
      BY <1>1 DEF Pending
    <2>. QED
      BY <1>1, <2>1 DEF Counted
  <1>. QED
    BY <1>4, <1>5, <1>6 DEF Counted

\* An order is added or one is dropped; none is changed.
LEMMA OrdersStay ==
  ASSUME Typed, NEW key, NEW ids, key \in Kinds \X Nat, ids \in Ids, key \notin DOMAIN orders
  PROVE  /\ DOMAIN Entry(orders, key, ids) = DOMAIN orders \cup {key}
         /\ Entry(orders, key, ids)[key] = ids
         /\ \A x \in DOMAIN orders : Entry(orders, key, ids)[x] = orders[x]
         /\ \A x \in DOMAIN orders \cup {key} : x \in Kinds \X Nat /\ Entry(orders, key, ids)[x] \in Ids
         /\ IsFiniteSet(DOMAIN orders \cup {key}) /\ Cardinality(DOMAIN orders \cup {key}) \in Nat
         /\ Cardinality(DOMAIN orders \cup {key}) <= MaxOrders + 1
  <1>1. DOMAIN orders \cup {key} \in SUBSET (DOMAIN orders \cup {key})
    OBVIOUS
  <1>2. IsFiniteSet(DOMAIN orders) /\ Cardinality(DOMAIN orders) <= MaxOrders
    BY DEF Typed
  <1>3. /\ IsFiniteSet(DOMAIN orders \cup {key}) /\ Cardinality(DOMAIN orders \cup {key}) \in Nat
        /\ Cardinality(DOMAIN orders) \in Nat
        /\ Cardinality(DOMAIN orders \cup {key}) <= Cardinality(DOMAIN orders) + 1
    BY <1>1, <1>2, OneMore
  <1>4. Cardinality(DOMAIN orders \cup {key}) <= MaxOrders + 1
    BY <1>2, <1>3, CacheConstants
  <1>5. /\ DOMAIN Entry(orders, key, ids) = DOMAIN orders \cup {key}
        /\ Entry(orders, key, ids)[key] = ids
        /\ \A x \in DOMAIN orders : Entry(orders, key, ids)[x] = orders[x]
    BY DEF Entry
  <1>. QED
    BY <1>3, <1>4, <1>5 DEF Typed

LEMMA OrderKeyType ==
  ASSUME Typed, NEW r \in Reader
  PROVE  /\ OrderKey(r) \in Kinds \X Nat /\ OrderKey(r)[1] = Kind(r)
         /\ OrderKey(r)[2] = readers[r].value.snapshot /\ readers[r].value.ids \in Ids
  BY ReaderFields DEF OrderKey, Value, Ids

LEMMA OrdersAfter ==
  ASSUME Typed, NEW r \in Reader, Order(r)
  PROVE  /\ IsFiniteSet(DOMAIN orders') /\ Cardinality(DOMAIN orders') <= MaxOrders
         /\ \A x \in DOMAIN orders' : x \in Kinds \X Nat /\ orders'[x] \in Ids
         /\ \A x \in DOMAIN orders' : \/ x \in DOMAIN orders /\ orders'[x] = orders[x]
                                      \/ x = OrderKey(r) /\ orders'[x] = readers[r].value.ids
  <1>1. CASE orders' = orders
    BY <1>1 DEF Typed
  <1>2. CASE orders' # orders
    <2>. PICK key, ids : key = OrderKey(r) /\ ids = readers[r].value.ids
      OBVIOUS
    <2> DEFINE grown == Entry(orders, key, ids)
    <2>1. key \in Kinds \X Nat /\ ids \in Ids /\ key \notin DOMAIN orders
      BY <1>2, OrderKeyType DEF Order
    <2>2. /\ DOMAIN grown = DOMAIN orders \cup {key}
          /\ grown[key] = ids /\ \A x \in DOMAIN orders : grown[x] = orders[x]
          /\ \A x \in DOMAIN grown : x \in Kinds \X Nat /\ grown[x] \in Ids
          /\ IsFiniteSet(DOMAIN grown) /\ Cardinality(DOMAIN grown) \in Nat
          /\ Cardinality(DOMAIN grown) <= MaxOrders + 1
      <3>1. DOMAIN grown = DOMAIN orders \cup {key}
        BY <2>1, OrdersStay
      <3>. QED
        BY <2>1, <3>1, OrdersStay
    <2>3. \/ orders' = grown /\ Cardinality(DOMAIN grown) <= MaxOrders
          \/ \E x \in DOMAIN grown : orders' = Evicted(grown, x)
      BY <1>2, <2>1 DEF Order
    <2> HIDE DEF grown
    <2>4. CASE orders' = grown /\ Cardinality(DOMAIN grown) <= MaxOrders
      BY <2>2, <2>4
    <2>5. ASSUME NEW y \in DOMAIN grown, orders' = Evicted(grown, y)
          PROVE  /\ IsFiniteSet(DOMAIN orders') /\ Cardinality(DOMAIN orders') <= MaxOrders
                 /\ \A x \in DOMAIN orders' : x \in DOMAIN grown /\ orders'[x] = grown[x]
      <3>1. DOMAIN orders' = DOMAIN grown \ {y} /\ \A x \in DOMAIN orders' : orders'[x] = grown[x]
        BY <2>5 DEF Evicted
      <3>2. DOMAIN orders' \in SUBSET (DOMAIN grown \ {y})
        BY <3>1
      <3>3. /\ IsFiniteSet(DOMAIN orders') /\ Cardinality(DOMAIN orders') \in Nat
            /\ Cardinality(DOMAIN orders') + 1 <= Cardinality(DOMAIN grown)
        BY <2>2, <3>2, OneLess
      <3>. QED
        BY <2>2, <3>1, <3>3, CacheConstants
    <2>. QED
      BY <2>2, <2>3, <2>4, <2>5
  <1>. QED
    BY <1>1, <1>2

LEMMA Expired ==
  ASSUME Typed, NEW key \in DOMAIN orders, Expire(key)
  PROVE  /\ IsFiniteSet(DOMAIN orders') /\ Cardinality(DOMAIN orders') <= MaxOrders
         /\ \A x \in DOMAIN orders' : x \in DOMAIN orders /\ orders'[x] = orders[x]
         /\ UNCHANGED <<cache, builds, builder, readers, gets, Writing>>
  <1>1. DOMAIN orders' = DOMAIN orders \ {key} /\ \A x \in DOMAIN orders' : orders'[x] = orders[x]
    BY DEF Expire, Evicted
  <1>2. DOMAIN orders' \in SUBSET DOMAIN orders
    BY <1>1
  <1>3. IsFiniteSet(DOMAIN orders) /\ Cardinality(DOMAIN orders) <= MaxOrders
    BY DEF Typed
  <1>4. /\ IsFiniteSet(DOMAIN orders') /\ Cardinality(DOMAIN orders') \in Nat /\ Cardinality(DOMAIN orders) \in Nat
        /\ Cardinality(DOMAIN orders') <= Cardinality(DOMAIN orders)
    BY <1>2, <1>3, Smaller
  <1>. QED
    BY <1>1, <1>3, <1>4, CacheConstants DEF Expire

LEMMA ToBuildStays ==
  ASSUME Typed, NEW r \in Reader, NEW m, Turns(r, m), m.kind = Kind(r),
         m.pc \in {"peek", "build", "again"} => readers[r].pc \in {"peek", "build", "again"}
  PROVE  ToBuild(m.kind)' \in SUBSET ToBuild(m.kind)
  BY DEF ToBuild, Turns, Kind

LEMMA ReaderTypes ==
  ASSUME Typed, Counted, NEW r \in Reader, Step(r) \/ LoadFails(r) \/ \E k \in Kinds : Get(r, k)
  PROVE  Typed' /\ Counted'
  <1>. DEFINE Goal == Typed' /\ Counted'
  <1>1. /\ cache \in [Kinds -> [ready : BOOLEAN, revision : 0..MaxWrites, value : Value]]
        /\ builder \in [Kinds -> Reader \cup {Free}] /\ gets \in 0..MaxGets
        /\ IsFiniteSet(DOMAIN orders) /\ Cardinality(DOMAIN orders) <= MaxOrders
        /\ \A x \in DOMAIN orders : x \in Kinds \X Nat /\ orders[x] \in Ids
    BY DEF Typed
  <1>2. /\ Kind(r) \in Kinds /\ rev[Kind(r)] \in 0..MaxWrites
        /\ \A k \in Kinds : rev[k] \in 0..MaxWrites
    BY ReaderFields, CountFields
  <1>3. [builder EXCEPT ![Kind(r)] = Free] \in [Kinds -> Reader \cup {Free}]
    BY <1>1
  <1>4. ASSUME NEW k \in Kinds, Get(r, k) PROVE Goal
    <2>. PICK m : m = [pc |-> "peek", kind |-> k, current |-> rev[k], value |-> NoValue,
                       from |-> floor[k], order |-> Blank]
      OBVIOUS
    <2>1. /\ Turns(r, m) /\ gets < MaxGets /\ gets' = gets + 1
          /\ UNCHANGED <<cache, builds, builder, orders, Writing>>
      BY <1>2, <1>4, GetTurns
    <2>2. gets' \in 0..MaxGets
      BY <1>1, <2>1, CacheConstants
    <2>. QED
      BY <1>1, <2>1, <2>2, ReaderCounts
  <1>5. ASSUME NEW m, Turns(r, m), m.kind = Kind(r),
               m.pc \in {"peek", "build", "again"} => readers[r].pc \in {"peek", "build", "again"},
               UNCHANGED <<cache, orders, builds, gets, Writing>>,
               builder' \in [Kinds -> Reader \cup {Free}]
        PROVE  Goal
    <2>1. ToBuild(m.kind)' \in SUBSET ToBuild(m.kind)
      BY <1>5, ToBuildStays
    <2>. QED
      BY <1>1, <1>5, <2>1, ReaderCounts
  <1>6. CASE Peek(r)
    BY <1>1, <1>5, <1>6, PeekTurns DEF Now
  <1>7. CASE Lock(r)
    <2>1. [builder EXCEPT ![Kind(r)] = r] \in [Kinds -> Reader \cup {Free}]
      BY <1>1
    <2>. QED
      BY <1>2, <1>5, <1>7, <2>1, LockTurns DEF Now
  <1>8. CASE PeekAgain(r)
    <2>1. CASE Hit(r)
      BY <1>3, <1>5, <1>8, <2>1, PeekAgainTurns DEF Now, Unlock, AfterGet
    <2>2. CASE ~Hit(r)
      <3>. PICK m : m = Now(r, "load", readers[r].current, readers[r].value, readers[r].order)
        OBVIOUS
      <3>1. /\ readers[r].pc = "again" /\ UNCHANGED <<cache, builder, orders, gets, Writing>> /\ Turns(r, m)
            /\ builds' = [builds EXCEPT ![Kind(r)] = @ + 1]
        BY <1>8, <2>2, PeekAgainTurns
      <3>2. m.pc = "load" /\ m.kind = Kind(r)
        BY DEF Now
      <3>. QED
        BY <1>1, <3>1, <3>2, ReaderCounts
    <2>. QED
      BY <2>1, <2>2
  <1>9. CASE Load(r)
    BY <1>1, <1>5, <1>9, LoadTurns DEF Now
  <1>10. CASE Compare(r)
    BY <1>1, <1>3, <1>5, <1>10, CompareTurns DEF Now, Unlock, AfterGet
  <1>11. CASE Store(r)
    <2>. PICK m : m = Now(r, AfterGet(r), readers[r].current, readers[r].value, readers[r].order)
      OBVIOUS
    <2>1. /\ Turns(r, m) /\ Unlock(r) /\ cache' = [cache EXCEPT ![Kind(r)] = Kept(r)]
          /\ UNCHANGED <<builds, orders, gets, Writing>>
      BY <1>11, StoreTurns
    <2>2. Kept(r) \in [ready : BOOLEAN, revision : 0..MaxWrites, value : Value]
      BY ReaderFields DEF Kept
    <2>3. cache' \in [Kinds -> [ready : BOOLEAN, revision : 0..MaxWrites, value : Value]]
      BY <1>1, <2>1, <2>2
    <2>4. m.kind = Kind(r) /\ m.pc \notin {"peek", "build", "again"}
      BY DEF Now, AfterGet
    <2>5. ToBuild(m.kind)' \in SUBSET ToBuild(m.kind)
      BY <2>1, <2>4, ToBuildStays
    <2>6. builder' \in [Kinds -> Reader \cup {Free}]
      BY <1>3, <2>1 DEF Unlock
    <2>7. Turns(r, m) /\ UNCHANGED Writing /\ builds' = builds
      BY <2>1
    <2>8. /\ IsFiniteSet(DOMAIN orders') /\ Cardinality(DOMAIN orders') <= MaxOrders
          /\ \A x \in DOMAIN orders' : x \in Kinds \X Nat /\ orders'[x] \in Ids
          /\ gets' \in 0..MaxGets /\ gets' >= gets
      BY <1>1, <2>1
    <2>. QED
      BY <2>3, <2>5, <2>6, <2>7, <2>8, ReaderCounts
  <1>12. CASE Order(r)
    <2>. PICK m : m = Now(r, "done", readers[r].current, readers[r].value, Ordered(r))
      OBVIOUS
    <2>1. /\ Turns(r, m) /\ UNCHANGED <<cache, builds, builder, gets, Writing>>
      BY <1>12, OrderTurns
    <2>2. m.kind = Kind(r) /\ m.pc \notin {"peek", "build", "again"}
      BY DEF Now
    <2>3. ToBuild(m.kind)' \in SUBSET ToBuild(m.kind)
      BY <2>1, <2>2, ToBuildStays
    <2>4. /\ IsFiniteSet(DOMAIN orders') /\ Cardinality(DOMAIN orders') <= MaxOrders
          /\ \A x \in DOMAIN orders' : x \in Kinds \X Nat /\ orders'[x] \in Ids
      BY <1>12, OrdersAfter
    <2>5. /\ cache' \in [Kinds -> [ready : BOOLEAN, revision : 0..MaxWrites, value : Value]]
          /\ builder' \in [Kinds -> Reader \cup {Free}]
          /\ gets' \in 0..MaxGets /\ gets' >= gets
      BY <1>1, <2>1
    <2>6. Turns(r, m) /\ UNCHANGED Writing /\ builds' = builds
      BY <2>1
    <2>. QED
      BY <2>3, <2>4, <2>5, <2>6, ReaderCounts
  <1>13. CASE LoadFails(r) \/ Finish(r)
    <2>1. /\ Turns(r, NoRead) /\ UNCHANGED <<cache, builds, orders, gets, Writing>>
          /\ builder' \in [Kinds -> Reader \cup {Free}]
      BY <1>1, <1>3, <1>13, EndTurns DEF Unlock
    <2>2. ToBuild(NoRead.kind)' \in SUBSET ToBuild(NoRead.kind)
      BY <2>1 DEF ToBuild, Turns, NoRead, Kind
    <2>. QED
      BY <1>1, <2>1, <2>2, ReaderCounts
  <1>. QED
    BY <1>4, <1>6, <1>7, <1>8, <1>9, <1>10, <1>11, <1>12, <1>13 DEF Step

\* A write that begins is one more to be told of; a revision that advances is
\* one less.
LEMMA WriterTypes ==
  ASSUME Typed, Counted, InHistory, NEW p \in Photo, Write(p)
  PROVE  Typed' /\ Counted'
  <1>1. ASSUME NEW row \in Rows, Commit(p, row, "share")
        PROVE  Typed' /\ Counted'
    <2>1. /\ writers[p] = NoWrite /\ log' \in Seq([Photo -> Rows])
          /\ Len(log') = Len(log) + 1 /\ Len(log') \in 1..MaxWrites + 1
          /\ writers' \in [Photo -> WriterState \cup {NoWrite}]
          /\ \A q \in Photo \ {p} : writers'[q] = writers[q]
          /\ UNCHANGED <<rev, floor, Reading>>
      BY <1>1, Committed
    <2>2. UNCHANGED <<cache, builds, builder, orders, readers, gets>>
      BY <2>1 DEF Reading
    <2>3. Typed'
      BY <2>1, <2>2 DEF Typed
    <2>4. ASSUME NEW k \in Kinds
          PROVE  /\ rev'[k] + Cardinality(Pending(k)') < Len(log')
                 /\ builds'[k] + Cardinality(ToBuild(k)') <= gets'
      <3>1. /\ IsFiniteSet(Pending(k)) /\ Cardinality(Pending(k)) \in Nat /\ rev[k] \in 0..MaxWrites
            /\ rev[k] + Cardinality(Pending(k)) < Len(log) /\ builds[k] + Cardinality(ToBuild(k)) <= gets
        BY CountFields
      <3>2. Pending(k)' \in SUBSET (Pending(k) \cup {p})
        BY <2>1 DEF Pending
      <3>3. Cardinality(Pending(k)') \in Nat /\ Cardinality(Pending(k)') <= Cardinality(Pending(k)) + 1
        BY <3>1, <3>2, OneMore
      <3>4. ToBuild(k)' = ToBuild(k)
        BY <2>2 DEF ToBuild, Kind
      <3>5. Len(log) \in Nat
        BY DEF Typed
      <3>6. rev'[k] + Cardinality(Pending(k)') < Len(log')
        BY <2>1, <3>1, <3>3, <3>5
      <3>. QED
        BY <2>2, <3>1, <3>4, <3>6
    <2>. QED
      BY <2>3, <2>4 DEF Counted
  <1>2. ASSUME NEW c \in Kinds, NEW pc \in Bumping, Advances(p, c, pc)
        PROVE  Typed' /\ Counted'
    <2>1. UNCHANGED <<log, floor, cache, builds, builder, orders, readers, gets>>
      BY <1>2 DEF Advances, Reading
    <2>2. rev \in [Kinds -> Nat] /\ rev' \in [Kinds -> Nat]
      <3>1. rev \in [Kinds -> Nat] /\ rev[c] + 1 \in Nat
        BY DEF Typed
      <3>2. rev' = rev \/ rev' = [rev EXCEPT ![c] = @ + 1]
        BY <1>2 DEF Advances
      <3>. QED
        BY <3>1, <3>2
    <2>3. Typed'
      BY <1>2, <2>1, <2>2 DEF Typed, Advances
    <2>4. ASSUME NEW k \in Kinds
          PROVE  /\ rev'[k] + Cardinality(Pending(k)') < Len(log')
                 /\ builds'[k] + Cardinality(ToBuild(k)') <= gets'
      <3>1. /\ IsFiniteSet(Pending(k)) /\ Cardinality(Pending(k)) \in Nat /\ rev[k] \in 0..MaxWrites
            /\ rev[k] + Cardinality(Pending(k)) < Len(log) /\ builds[k] + Cardinality(ToBuild(k)) <= gets
        BY CountFields
      <3>2. ToBuild(k)' = ToBuild(k)
        BY <2>1 DEF ToBuild, Kind
      <3>3. Len(log) \in Nat
        BY DEF Typed
      <3>4. rev'[k] + Cardinality(Pending(k)') < Len(log)
        <4>1. CASE k = c
          <5>1. p \in Pending(k) /\ Pending(k)' \in SUBSET (Pending(k) \ {p})
            BY <1>2, <4>1 DEF Advances, Pending
          <5>2. Cardinality(Pending(k)') \in Nat /\ Cardinality(Pending(k)') + 1 <= Cardinality(Pending(k))
            BY <3>1, <5>1, OneLess
          <5>3. rev'[k] \in Nat /\ rev'[k] <= rev[k] + 1
            BY <1>2, <2>2, <4>1 DEF Advances
          <5>. QED
            BY <3>1, <3>3, <5>2, <5>3
        <4>2. CASE k # c
          <5>1. Pending(k)' = Pending(k)
            BY <1>2, <4>2 DEF Advances, Pending
          <5>2. rev'[k] = rev[k]
            BY <1>2, <2>2, <4>2 DEF Advances
          <5>. QED
            BY <3>1, <5>1, <5>2
        <4>. QED
          BY <4>1, <4>2
      <3>. QED
        BY <2>1, <3>1, <3>2, <3>4
    <2>. QED
      BY <2>3, <2>4 DEF Counted
  <1>3. CASE Acknowledge(p)
    <2>1. /\ writers[p].pc = "answer" /\ writers' \in [Photo -> WriterState \cup {NoWrite}]
          /\ writers'[p] = NoWrite /\ \A q \in Photo \ {p} : writers'[q] = writers[q]
          /\ floor' \in [Kinds -> 1..MaxWrites + 1]
          /\ UNCHANGED <<log, rev, Reading>>
      BY <1>3, Acknowledged
    <2>2. UNCHANGED <<cache, builds, builder, orders, readers, gets>>
      BY <2>1 DEF Reading
    <2>3. Typed'
      BY <2>1, <2>2 DEF Typed
    <2>4. ASSUME NEW k \in Kinds
          PROVE  Pending(k)' = Pending(k) /\ ToBuild(k)' = ToBuild(k)
      <3>1. "answer" \notin ToBump(k) /\ NoWrite.pc \notin ToBump(k)
        BY DEF ToBump, Kinds, NoWrite
      <3>2. Pending(k)' = Pending(k)
        BY <2>1, <3>1 DEF Pending
      <3>. QED
        BY <2>2, <3>2 DEF ToBuild, Kind
    <2>. QED
      BY <2>1, <2>2, <2>3, <2>4 DEF Counted
  <1>. QED
    BY <1>1, <1>2, <1>3, CommitAppends, BumpAdvances DEF Write

LEMMA TypesStep ==
  ASSUME Typed, Counted, InHistory, [Next]_vars
  PROVE  Typed' /\ Counted'
  <1>1. ASSUME NEW p \in Photo, Write(p) PROVE Typed' /\ Counted'
    BY <1>1, WriterTypes
  <1>2. ASSUME NEW r \in Reader, Step(r) \/ LoadFails(r) \/ \E k \in Kinds : Get(r, k)
        PROVE  Typed' /\ Counted'
    BY <1>2, ReaderTypes
  <1>3. ASSUME NEW key \in DOMAIN orders, Expire(key) PROVE Typed' /\ Counted'
    <2>1. /\ IsFiniteSet(DOMAIN orders') /\ Cardinality(DOMAIN orders') <= MaxOrders
          /\ \A x \in DOMAIN orders' : x \in DOMAIN orders /\ orders'[x] = orders[x]
          /\ UNCHANGED <<cache, builds, builder, readers, gets, log, rev, writers, floor>>
      BY <1>3, Expired DEF Writing
    <2>2. Typed'
      BY <2>1 DEF Typed
    <2>3. \A k \in Kinds : Pending(k)' = Pending(k) /\ ToBuild(k)' = ToBuild(k)
      BY <2>1 DEF Pending, ToBuild, Kind
    <2>. QED
      BY <2>1, <2>2, <2>3 DEF Counted
  <1>4. CASE UNCHANGED vars
    <2>1. \A k \in Kinds : Pending(k)' = Pending(k) /\ ToBuild(k)' = ToBuild(k)
      BY <1>4 DEF vars, Pending, ToBuild, Kind
    <2>. QED
      BY <1>4, <2>1 DEF vars, Typed, Counted
  <1>. QED
    BY <1>1, <1>2, <1>3, <1>4 DEF Next
-----------------------------------------------------------------------------
(* Values are of the right moments. *)

LEMMA HistoryReader ==
  ASSUME Typed, InHistory, NEW r \in Reader, NEW m, Turns(r, m), UNCHANGED Writing,
         m.pc # "idle" => m.from \in 1..floor[m.kind] /\ m.current <= rev[m.kind]
  PROVE  InHistory'
  <1>1. log' = log /\ rev' = rev /\ writers' = writers /\ floor' = floor
    BY DEF Writing
  <1>2. \A p \in Photo : OwnWrite(p)' = OwnWrite(p)
    BY <1>1 DEF OwnWrite
  <1>3. \A q \in Reader : readers'[q].pc # "idle" =>
          readers'[q].from \in 1..floor[readers'[q].kind] /\ readers'[q].current <= rev[readers'[q].kind]
    BY DEF InHistory, Turns, Kind
  <1>. QED
    BY <1>1, <1>2, <1>3 DEF InHistory, Kind

\* Whoever begins to look for a value of the present revision finds that values
\* of it have every acknowledged change.
LEMMA ServesReader ==
  ASSUME Typed, NEW r \in Reader, NEW m, Turns(r, m), UNCHANGED Writing,
         m.pc \in Comparing => m.current = rev[m.kind] /\ m.from <= floor[m.kind],
         NEW k \in Kinds, NEW c, NEW ids, Serves(k, c, ids)
  PROVE  Serves(k, c, ids)'
  <1>1. log' = log /\ rev' = rev /\ writers' = writers /\ floor' = floor
    BY DEF Writing
  <1>2. PICK j \in 1..Len(log) :
          /\ ids = Proj(k, log[j])
          /\ c = rev[k] => Covers(k, j)
          /\ \A q \in Reader : readers[q].pc \in Comparing /\ Kind(q) = k /\ readers[q].current = c
                                 => readers[q].from <= j
    BY DEF Serves
  <1>3. Covers(k, j)' = Covers(k, j)
    BY <1>1 DEF Covers, Differs
  <1>4. ASSUME m.pc \in Comparing, m.kind = k, m.current = c
        PROVE  m.from <= j
    <2>1. floor[k] <= j /\ m.from <= floor[k]
      BY <1>2, <1>4 DEF Covers
    <2>2. floor[k] \in Nat /\ m.from \in Nat
      BY CacheConstants DEF Typed, Turns, ReaderState
    <2>. QED
      BY <2>1, <2>2
  <1>5. \A q \in Reader : readers'[q].pc \in Comparing /\ readers'[q].kind = k /\ readers'[q].current = c
                            => readers'[q].from <= j
    BY <1>2, <1>4 DEF Turns, Kind
  <1>. QED
    BY <1>1, <1>2, <1>3, <1>5 DEF Serves, Kind

LEMMA ValuesReader ==
  ASSUME Typed, ValuesServe, NEW r \in Reader, NEW m, Turns(r, m), UNCHANGED Writing, NEW C, cache' = C,
         m.pc \in Comparing => m.current = rev[m.kind] /\ m.from <= floor[m.kind],
         \A k \in Kinds : C[k].ready => C[k].revision <= rev[k] /\ Serves(k, C[k].revision, C[k].value.ids),
         m.pc \in {"compare", "store"} => Serves(m.kind, m.current, m.value.ids),
         m.pc \in Valued => \E i \in m.from..Len(log) : m.value.ids = Proj(m.kind, log[i])
  PROVE  ValuesServe'
  <1>1. log' = log /\ rev' = rev
    BY DEF Writing
  <1>2. ASSUME NEW k \in Kinds, NEW c, NEW ids, Serves(k, c, ids)
        PROVE  Serves(k, c, ids)'
    BY <1>2, ServesReader
  <1>3. ASSUME NEW k \in Kinds, C[k].ready
        PROVE  C[k].revision <= rev'[k] /\ Serves(k, C[k].revision, C[k].value.ids)'
    BY <1>1, <1>2, <1>3
  <1>4. ASSUME NEW q \in Reader, readers'[q].pc \in {"compare", "store"}
        PROVE  Serves(Kind(q), readers[q].current, readers[q].value.ids)'
    <2>1. PICK x : x = readers'[q]
      OBVIOUS
    <2>2. x \in ReaderState /\ x.kind \in Kinds
      BY <2>1 DEF Turns, ReaderState
    <2>3. Serves(x.kind, x.current, x.value.ids)
      BY <1>4, <2>1 DEF Turns, ValuesServe, Kind
    <2>4. Serves(x.kind, x.current, x.value.ids)'
      BY <1>2, <2>2, <2>3
    <2>. QED
      BY <2>1, <2>4 DEF Kind
  <1>5. ASSUME NEW q \in Reader, readers'[q].pc \in Valued
        PROVE  \E i \in readers'[q].from..Len(log) : readers'[q].value.ids = Proj(readers'[q].kind, log[i])
    BY <1>5 DEF Turns, ValuesServe, Kind
  <1>6. \A q \in Reader : readers'[q].pc \in Valued =>
          \E i \in readers'[q].from..Len(log') : readers'[q].value.ids = Proj(readers'[q].kind, log'[i])
    BY <1>1, <1>5
  <1>. QED
    BY <1>3, <1>4, <1>6 DEF ValuesServe, Kind

\* The present state serves every revision there has been.
LEMMA PresentServes ==
  ASSUME Typed, InHistory, NEW k \in Kinds, NEW c
  PROVE  Serves(k, c, Proj(k, db))
  <1>1. Len(log) \in 1..Len(log) /\ Len(log) \in Nat /\ db = log[Len(log)]
    BY PresentState
  <1>2. floor[k] <= Len(log)
    BY DEF InHistory
  <1>3. Covers(k, Len(log))
    <2>1. ASSUME NEW p \in Photo, writers[p].pc \in Bumping
          PROVE  writers[p].n <= Len(log)
      BY <1>1, <2>1 DEF InHistory, OwnWrite, Bumping, NoWrite
    <2>. QED
      BY <1>2, <2>1 DEF Covers
  <1>4. ASSUME NEW q \in Reader, readers[q].pc \in Comparing, Kind(q) = k
        PROVE  readers[q].from <= Len(log)
    <2>1. readers[q].from \in 1..floor[k] /\ floor[k] \in Nat
      BY <1>4, CacheConstants DEF InHistory, Comparing, Typed
    <2>. QED
      BY <1>1, <1>2, <2>1
  <1>. QED
    BY <1>1, <1>3, <1>4 DEF Serves

\* A hit is a value of a moment after the read began.
LEMMA HitIsRecent ==
  ASSUME Typed, ValuesServe, NEW r \in Reader, readers[r].pc \in Comparing, Hit(r)
  PROVE  \E i \in readers[r].from..Len(log) : cache[Kind(r)].value.ids = Proj(Kind(r), log[i])
  <1>1. PICK k : k = Kind(r)
    OBVIOUS
  <1>2. k \in Kinds /\ readers[r].from \in Nat
    BY <1>1, ReaderFields, CacheConstants
  <1>3. Serves(k, readers[r].current, cache[k].value.ids)
    BY <1>1, <1>2 DEF ValuesServe, Hit
  <1>4. PICK j \in 1..Len(log) : cache[k].value.ids = Proj(k, log[j]) /\ readers[r].from <= j
    BY <1>1, <1>3 DEF Serves
  <1>5. Len(log) \in Nat
    BY PresentState
  <1>6. j \in readers[r].from..Len(log)
    BY <1>2, <1>4, <1>5
  <1>. QED
    BY <1>1, <1>4, <1>6

LEMMA ReaderValues ==
  ASSUME Typed, Counted, InHistory, ValuesServe, NEW r \in Reader,
         Step(r) \/ LoadFails(r) \/ \E k \in Kinds : Get(r, k)
  PROVE  InHistory' /\ ValuesServe'
  <1>. DEFINE Goal == InHistory' /\ ValuesServe'
  <1>1. /\ Kind(r) \in Kinds /\ \A k \in Kinds : rev[k] \in 0..MaxWrites
        /\ \A k \in Kinds : floor[k] \in 1..MaxWrites + 1 /\ floor[k] \in Nat
    <2>1. \A k \in Kinds : rev[k] \in 0..MaxWrites
      BY CountFields
    <2>. QED
      BY <2>1, ReaderFields, CacheConstants DEF Typed
  <1>2. \A k \in Kinds : cache[k].ready => cache[k].revision <= rev[k] /\ Serves(k, cache[k].revision, cache[k].value.ids)
    BY DEF ValuesServe
  <1>3. readers[r].pc # "idle" => readers[r].from \in 1..floor[Kind(r)] /\ readers[r].current <= rev[Kind(r)]
    BY DEF InHistory
  <1>4. readers[r].from \in Nat /\ readers[r].current \in Nat
    BY ReaderFields, CacheConstants
  <1>5. ASSUME NEW m, Turns(r, m), UNCHANGED <<cache, Writing>>,
               m.pc # "idle" => m.from \in 1..floor[m.kind] /\ m.current <= rev[m.kind],
               m.pc \in Comparing => m.current = rev[m.kind] /\ m.from <= floor[m.kind],
               m.pc \in {"compare", "store"} => Serves(m.kind, m.current, m.value.ids),
               m.pc \in Valued => \E i \in m.from..Len(log) : m.value.ids = Proj(m.kind, log[i])
        PROVE  Goal
    <2>1. PICK C : C = cache
      OBVIOUS
    <2>2. cache' = C /\ \A k \in Kinds : C[k].ready => C[k].revision <= rev[k] /\ Serves(k, C[k].revision, C[k].value.ids)
      BY <1>2, <1>5, <2>1
    <2>3. ValuesServe'
      BY <1>5, <2>2, ValuesReader
    <2>. QED
      BY <1>5, <2>3, HistoryReader
  \* The step goes on with a read, with no value of its own yet.
  <1>6. ASSUME NEW m, Turns(r, m), UNCHANGED <<cache, Writing>>, readers[r].pc # "idle",
               m.kind = Kind(r), m.from = readers[r].from, m.pc \in {"build", "load"}, m.current = readers[r].current
        PROVE  Goal
    BY <1>3, <1>5, <1>6 DEF Comparing, Valued
  \* The step ends the search, with a value read at a right moment.
  <1>7. ASSUME NEW m, Turns(r, m), UNCHANGED <<cache, Writing>>, readers[r].pc # "idle",
               m.kind = Kind(r), m.from = readers[r].from, m.pc \in {"order", "done"},
               m.current = readers[r].current \/ m.current = 0,
               \E i \in m.from..Len(log) : m.value.ids = Proj(m.kind, log[i])
        PROVE  Goal
    <2>1. m.current <= rev[m.kind]
      BY <1>1, <1>3, <1>4, <1>7
    <2>. QED
      BY <1>3, <1>5, <1>7, <2>1 DEF Comparing, Valued
  <1>8. readers[r].pc \in Valued => \E i \in readers[r].from..Len(log) : readers[r].value.ids = Proj(Kind(r), log[i])
    BY DEF ValuesServe
  <1>9. ASSUME NEW k \in Kinds, Get(r, k) PROVE Goal
    <2>. PICK m : m = [pc |-> "peek", kind |-> k, current |-> rev[k], value |-> NoValue,
                       from |-> floor[k], order |-> Blank]
      OBVIOUS
    <2>1. Turns(r, m) /\ UNCHANGED <<cache, Writing>>
      BY <1>1, <1>9, GetTurns
    <2>2. m.pc = "peek" /\ m.kind = k /\ m.current = rev[k] /\ m.from = floor[k]
      OBVIOUS
    <2>3. m.from \in 1..floor[m.kind] /\ m.current <= rev[m.kind] /\ m.from <= floor[m.kind]
      BY <1>1, <2>2
    <2>. QED
      BY <1>5, <2>1, <2>2, <2>3 DEF Comparing, Valued
  <1>10. CASE Peek(r)
    <2>1. CASE Hit(r)
      <3>1. PICK m : m = Now(r, AfterGet(r), 0, cache[Kind(r)].value, readers[r].order)
        OBVIOUS
      <3>2. Turns(r, m) /\ UNCHANGED <<cache, Writing>> /\ readers[r].pc = "peek"
        BY <1>10, <2>1, <3>1, PeekTurns
      <3>3. /\ m.kind = Kind(r) /\ m.from = readers[r].from /\ m.pc \in {"order", "done"} /\ m.current = 0
            /\ m.value = cache[Kind(r)].value
        BY <3>1 DEF Now, AfterGet
      <3>4. \E i \in m.from..Len(log) : m.value.ids = Proj(m.kind, log[i])
        BY <2>1, <3>2, <3>3, HitIsRecent DEF Comparing
      <3>. QED
        BY <1>7, <3>2, <3>3, <3>4
    <2>2. CASE ~Hit(r)
      BY <1>6, <1>10, <2>2, PeekTurns DEF Now
    <2>. QED
      BY <2>1, <2>2
  <1>11. CASE Lock(r)
    <2>1. PICK m : m = Now(r, "again", rev[Kind(r)], readers[r].value, readers[r].order)
      OBVIOUS
    <2>2. Turns(r, m) /\ UNCHANGED <<cache, Writing>> /\ readers[r].pc = "build"
      BY <1>1, <1>11, <2>1, LockTurns
    <2>3. m.pc = "again" /\ m.kind = Kind(r) /\ m.from = readers[r].from /\ m.current = rev[Kind(r)]
      BY <2>1 DEF Now
    <2>4. m.from \in 1..floor[m.kind] /\ m.current <= rev[m.kind] /\ m.from <= floor[m.kind]
      BY <1>1, <1>3, <2>2, <2>3
    <2>. QED
      BY <1>5, <2>2, <2>3, <2>4 DEF Comparing, Valued
  <1>12. CASE PeekAgain(r)
    <2>1. CASE Hit(r)
      <3>1. PICK m : m = Now(r, AfterGet(r), 0, cache[Kind(r)].value, readers[r].order)
        OBVIOUS
      <3>2. Turns(r, m) /\ UNCHANGED <<cache, Writing>> /\ readers[r].pc = "again"
        BY <1>12, <2>1, <3>1, PeekAgainTurns
      <3>3. /\ m.kind = Kind(r) /\ m.from = readers[r].from /\ m.pc \in {"order", "done"} /\ m.current = 0
            /\ m.value = cache[Kind(r)].value
        BY <3>1 DEF Now, AfterGet
      <3>4. \E i \in m.from..Len(log) : m.value.ids = Proj(m.kind, log[i])
        BY <2>1, <3>2, <3>3, HitIsRecent DEF Comparing
      <3>. QED
        BY <1>7, <3>2, <3>3, <3>4
    <2>2. CASE ~Hit(r)
      BY <1>6, <1>12, <2>2, PeekAgainTurns DEF Now
    <2>. QED
      BY <2>1, <2>2
  <1>13. CASE Load(r)
    <2>1. PICK m : m = Now(r, "compare", readers[r].current, Loaded(r), readers[r].order)
      OBVIOUS
    <2>2. Turns(r, m) /\ UNCHANGED <<cache, Writing>> /\ readers[r].pc = "load"
      BY <1>13, <2>1, LoadTurns
    <2>3. /\ m.pc = "compare" /\ m.kind = Kind(r) /\ m.from = readers[r].from /\ m.current = readers[r].current
          /\ m.value.ids = Proj(m.kind, db)
      BY <2>1 DEF Now, Loaded
    <2>4. m.from \in 1..floor[m.kind] /\ m.current <= rev[m.kind]
      BY <1>3, <2>2, <2>3
    <2>5. Serves(m.kind, m.current, m.value.ids)
      BY <1>1, <2>3, PresentServes
    <2>6. \E i \in m.from..Len(log) : m.value.ids = Proj(m.kind, log[i])
      <3>1. floor[m.kind] <= Len(log) /\ Len(log) \in Nat /\ db = log[Len(log)]
        BY <1>1, <2>3, PresentState DEF InHistory
      <3>2. Len(log) \in m.from..Len(log)
        BY <1>1, <1>4, <2>3, <2>4, <3>1
      <3>. QED
        BY <2>3, <3>1, <3>2
    <2>. QED
      BY <1>5, <2>2, <2>3, <2>4, <2>5, <2>6 DEF Comparing
  <1>14. CASE Compare(r)
    <2>1. CASE rev[Kind(r)] = readers[r].current
      <3>1. PICK m : m = Now(r, "store", readers[r].current, readers[r].value, readers[r].order)
        OBVIOUS
      <3>2. Turns(r, m) /\ UNCHANGED <<cache, Writing>> /\ readers[r].pc = "compare"
        BY <1>14, <2>1, <3>1, CompareTurns
      <3>3. /\ m.pc = "store" /\ m.kind = Kind(r) /\ m.from = readers[r].from /\ m.current = readers[r].current
            /\ m.value = readers[r].value
        BY <3>1 DEF Now
      <3>4. Serves(m.kind, m.current, m.value.ids)
        BY <3>2, <3>3 DEF ValuesServe
      <3>. QED
        BY <1>3, <1>5, <1>8, <3>2, <3>3, <3>4 DEF Comparing, Valued
    <2>2. CASE rev[Kind(r)] # readers[r].current
      <3>1. PICK m : m = Now(r, AfterGet(r), readers[r].current, readers[r].value, readers[r].order)
        OBVIOUS
      <3>2. Turns(r, m) /\ UNCHANGED <<cache, Writing>> /\ readers[r].pc = "compare"
        BY <1>14, <2>2, <3>1, CompareTurns
      <3>3. /\ m.kind = Kind(r) /\ m.from = readers[r].from /\ m.pc \in {"order", "done"}
            /\ m.current = readers[r].current /\ m.value = readers[r].value
        BY <3>1 DEF Now, AfterGet
      <3>. QED
        BY <1>7, <1>8, <3>2, <3>3 DEF Valued
    <2>. QED
      BY <2>1, <2>2
  <1>15. CASE Store(r)
    <2>1. PICK m : m = Now(r, AfterGet(r), readers[r].current, readers[r].value, readers[r].order)
      OBVIOUS
    <2>2. /\ Turns(r, m) /\ UNCHANGED Writing /\ readers[r].pc = "store"
          /\ cache' = [cache EXCEPT ![Kind(r)] = Kept(r)]
      BY <1>15, <2>1, StoreTurns
    <2>3. /\ m.kind = Kind(r) /\ m.from = readers[r].from /\ m.pc \in {"order", "done"}
          /\ m.current = readers[r].current /\ m.value = readers[r].value
      BY <2>1 DEF Now, AfterGet
    <2>4. Serves(Kind(r), readers[r].current, readers[r].value.ids)
      BY <2>2 DEF ValuesServe
    <2>5. PICK C : C = [cache EXCEPT ![Kind(r)] = Kept(r)]
      OBVIOUS
    <2>6. C[Kind(r)] = Kept(r) /\ \A k \in Kinds \ {Kind(r)} : C[k] = cache[k]
      BY <1>1, <2>5 DEF Typed
    <2>7. /\ Kept(r).revision = readers[r].current /\ Kept(r).value = readers[r].value
          /\ readers[r].current <= rev[Kind(r)]
      BY <1>3, <2>2 DEF Kept
    <2>8. \A k \in Kinds : C[k].ready => C[k].revision <= rev[k] /\ Serves(k, C[k].revision, C[k].value.ids)
      BY <1>2, <2>4, <2>6, <2>7
    <2>9. Turns(r, m) /\ UNCHANGED Writing /\ cache' = C
      BY <2>2, <2>5
    <2>10. ValuesServe'
      BY <1>8, <2>2, <2>3, <2>8, <2>9, ValuesReader DEF Comparing, Valued
    <2>. QED
      BY <1>3, <2>2, <2>3, <2>9, <2>10, HistoryReader
  <1>16. CASE Order(r)
    <2>1. PICK m : m = Now(r, "done", readers[r].current, readers[r].value, Ordered(r))
      OBVIOUS
    <2>2. Turns(r, m) /\ UNCHANGED <<cache, Writing>> /\ readers[r].pc = "order"
      BY <1>16, <2>1, OrderTurns
    <2>3. /\ m.kind = Kind(r) /\ m.from = readers[r].from /\ m.pc = "done"
          /\ m.current = readers[r].current /\ m.value = readers[r].value
      BY <2>1 DEF Now
    <2>. QED
      BY <1>7, <1>8, <2>2, <2>3 DEF Valued
  <1>17. CASE LoadFails(r) \/ Finish(r)
    <2>1. Turns(r, NoRead) /\ UNCHANGED <<cache, Writing>>
      BY <1>17, EndTurns
    <2>. QED
      BY <1>5, <2>1 DEF NoRead, Comparing, Valued
  <1>. QED
    BY <1>9, <1>10, <1>11, <1>12, <1>13, <1>14, <1>15, <1>16, <1>17 DEF Step

\* The history only grows, and so do the revisions: values that stay stay good.
LEMMA ValuesWriter ==
  ASSUME Typed, InHistory, ValuesServe, UNCHANGED Reading,
         Len(log') \in Nat, Len(log') >= Len(log), \A i \in 1..Len(log) : log'[i] = log[i],
         \A k \in Kinds : rev'[k] \in Nat /\ rev'[k] >= rev[k],
         \A k \in Kinds, c \in Nat, ids \in Ids : c <= rev[k] /\ Serves(k, c, ids) => Serves(k, c, ids)'
  PROVE  ValuesServe'
  <1>1. cache' = cache /\ readers' = readers
    BY DEF Reading
  <1>2. ASSUME NEW k \in Kinds, cache[k].ready
        PROVE  cache[k].revision <= rev'[k] /\ Serves(k, cache[k].revision, cache[k].value.ids)'
    <2>1. PICK c, v : c = cache[k].revision /\ v = cache[k].value
      OBVIOUS
    <2>2. c \in Nat /\ rev[k] \in Nat /\ v.ids \in Ids
      BY <2>1, CacheConstants DEF Typed, Value, Ids
    <2>3. c <= rev[k] /\ Serves(k, c, v.ids)
      BY <1>2, <2>1 DEF ValuesServe
    <2>4. Serves(k, c, v.ids)' /\ c <= rev'[k]
      BY <2>2, <2>3
    <2>5. cache'[k].revision = c /\ cache'[k].value.ids = v.ids
      BY <1>1, <2>1
    <2>. QED
      BY <2>1, <2>4, <2>5
  <1>3. ASSUME NEW r \in Reader, readers[r].pc \in {"compare", "store"}
        PROVE  Serves(Kind(r), readers[r].current, readers[r].value.ids)'
    <2>1. PICK x : x = readers[r]
      OBVIOUS
    <2>2. x.kind \in Kinds /\ x.current \in Nat /\ x.value.ids \in Ids
      BY <2>1, ReaderFields, CacheConstants DEF Kind, Value, Ids
    <2>3. x.current <= rev[x.kind] /\ Serves(x.kind, x.current, x.value.ids)
      BY <1>3, <2>1 DEF ValuesServe, InHistory, Kind
    <2>4. Serves(x.kind, x.current, x.value.ids)'
      BY <2>2, <2>3
    <2>. QED
      BY <1>1, <2>1, <2>4 DEF Kind
  <1>4. ASSUME NEW r \in Reader, readers[r].pc \in Valued
        PROVE  \E i \in readers[r].from..Len(log') : readers[r].value.ids = Proj(Kind(r), log'[i])
    <2>1. PICK i \in readers[r].from..Len(log) : readers[r].value.ids = Proj(Kind(r), log[i])
      BY <1>4 DEF ValuesServe
    <2>2. /\ readers[r].from \in 1..floor[Kind(r)] /\ readers[r].from \in Nat /\ Len(log) \in Nat
          /\ floor[Kind(r)] \in Nat
      BY <1>4, ReaderFields, PresentState, CacheConstants DEF InHistory, Valued
    <2>3. i \in 1..Len(log) /\ i \in readers[r].from..Len(log')
      BY <2>1, <2>2
    <2>. QED
      BY <2>1, <2>3
  <1>. QED
    BY <1>1, <1>2, <1>3, <1>4 DEF ValuesServe, Kind

\* A change of row p is not told of before its revision is advanced.
LEMMA CommitValues ==
  ASSUME Typed, InHistory, ValuesServe, NEW p \in Photo, NEW row \in Rows, Commit(p, row, "share")
  PROVE  InHistory' /\ ValuesServe'
  <1>1. /\ writers[p] = NoWrite
        /\ Len(log') = Len(log) + 1 /\ \A i \in 1..Len(log) : log'[i] = log[i]
        /\ \A q \in Photo \ {p} : log'[Len(log) + 1][q] = log[Len(log)][q]
        /\ writers'[p] = [pc |-> "share", n |-> Len(log) + 1, before |-> log[Len(log)][p]]
        /\ \A q \in Photo \ {p} : writers'[q] = writers[q]
        /\ rev' = rev /\ floor' = floor /\ UNCHANGED Reading
    BY Committed
  <1>2. readers' = readers /\ cache' = cache
    BY <1>1 DEF Reading
  <1>3. Len(log) \in Nat /\ Len(log) >= 1
    BY PresentState
  <1>4. ASSUME NEW q \in Photo, q # p, writers[q] # NoWrite
        PROVE  /\ writers[q].n \in 2..Len(log) /\ OwnWrite(q)'
               /\ \A k \in Kinds : Differs(k, writers[q].n)' = Differs(k, writers[q].n)
    <2>1. PICK n : n = writers[q].n
      OBVIOUS
    <2>2. /\ n \in 2..Len(log) /\ writers[q].before = log[n - 1][q]
          /\ \A y \in Photo \ {q} : log[n][y] = log[n - 1][y]
      BY <1>4, <2>1 DEF InHistory, OwnWrite
    <2>3. log'[n] = log[n] /\ log'[n - 1] = log[n - 1] /\ n \in 2..Len(log')
      BY <1>1, <1>3, <2>2
    <2>4. writers'[q] = writers[q]
      BY <1>1, <1>4
    <2>. QED
      BY <2>1, <2>2, <2>3, <2>4 DEF OwnWrite, Differs
  <1>5. OwnWrite(p)'
    BY <1>1, <1>3 DEF OwnWrite
  <1>6. InHistory'
    <2>1. \A k \in Kinds : floor'[k] <= Len(log')
      BY <1>1, <1>3, CacheConstants DEF InHistory, Typed
    <2>2. \A q \in Photo : writers'[q] # NoWrite => OwnWrite(q)'
      BY <1>1, <1>4, <1>5
    <2>. QED
      BY <1>1, <1>2, <2>1, <2>2 DEF InHistory, Kind
  <1>7. ASSUME NEW k \in Kinds, NEW c \in Nat, NEW ids \in Ids, Serves(k, c, ids)
        PROVE  Serves(k, c, ids)'
    <2>1. PICK j \in 1..Len(log) :
            /\ ids = Proj(k, log[j])
            /\ c = rev[k] => Covers(k, j)
            /\ \A q \in Reader : readers[q].pc \in Comparing /\ Kind(q) = k /\ readers[q].current = c
                                   => readers[q].from <= j
      BY <1>7 DEF Serves
    <2>2. j \in 1..Len(log') /\ ids = Proj(k, log'[j])
      BY <1>1, <1>3, <2>1
    <2>3. ASSUME Covers(k, j)
          PROVE  Covers(k, j)'
      <3>1. "share" \in ToBump(k) /\ NoWrite.pc \notin Bumping
        BY DEF ToBump, Kinds, Bumping, NoWrite
      <3>2. ASSUME NEW q \in Photo, writers'[q].pc \in Bumping \ ToBump(k), Differs(k, writers[q].n)'
            PROVE  writers'[q].n <= j
        <4>1. q # p
          BY <1>1, <3>1, <3>2
        <4>2. writers'[q] = writers[q] /\ writers[q] # NoWrite
          BY <1>1, <3>1, <3>2, <4>1
        <4>3. Differs(k, writers[q].n)
          BY <1>4, <3>2, <4>1, <4>2
        <4>. QED
          BY <2>3, <3>2, <4>2, <4>3 DEF Covers
      <3>. QED
        BY <1>1, <2>3, <3>2 DEF Covers
    <2>. QED
      BY <1>1, <1>2, <2>1, <2>2, <2>3 DEF Serves, Kind
  <1>8. ValuesServe'
    <2>1. \A k \in Kinds : rev'[k] \in Nat /\ rev'[k] >= rev[k]
      BY <1>1 DEF Typed
    <2>2. Len(log') \in Nat /\ Len(log') >= Len(log)
      BY <1>1, <1>3
    <2>. QED
      BY <1>1, <1>7, <2>1, <2>2, ValuesWriter
  <1>. QED
    BY <1>6, <1>8

\* From then on no value of the former revision is given to new reads.
LEMMA BumpValues ==
  ASSUME Typed, InHistory, ValuesServe, NEW p \in Photo, NEW d \in Kinds, NEW pc \in Bumping, Advances(p, d, pc)
  PROVE  InHistory' /\ ValuesServe'
  <1>1. /\ log' = log /\ floor' = floor /\ UNCHANGED Reading
        /\ writers'[p].n = writers[p].n /\ writers'[p].before = writers[p].before /\ writers[p].pc \in Bumping
        /\ writers[p].pc \in ToBump(d) /\ writers'[p].pc = pc
        /\ \A c \in Kinds \ {d} : pc \in ToBump(c) <=> writers[p].pc \in ToBump(c)
        /\ \A q \in Photo \ {p} : writers'[q] = writers[q]
    BY DEF Advances
  <1>2. readers' = readers /\ cache' = cache
    BY <1>1 DEF Reading
  <1>3. writers[p] # NoWrite /\ OwnWrite(p)
    BY <1>1 DEF InHistory, NoWrite, Bumping
  <1>4. \A q \in Photo : writers'[q].n = writers[q].n /\ writers'[q].before = writers[q].before
    BY <1>1
  <1>5. \A k \in Kinds : /\ rev[k] \in Nat /\ rev'[k] \in Nat /\ rev'[k] >= rev[k]
                         /\ k # d => rev'[k] = rev[k]
    <2>1. rev \in [Kinds -> Nat]
      BY DEF Typed
    <2>2. CASE rev' = rev
      BY <2>1, <2>2
    <2>3. CASE rev' = [rev EXCEPT ![d] = @ + 1]
      BY <2>1, <2>3
    <2>. QED
      BY <2>2, <2>3 DEF Advances
  <1>6. InHistory'
    <2>1. \A q \in Photo : OwnWrite(q)' = OwnWrite(q)
      BY <1>1, <1>4 DEF OwnWrite
    <2>2. \A q \in Photo : writers'[q] # NoWrite => OwnWrite(q)'
      BY <1>1, <1>3, <2>1 DEF InHistory
    <2>3. ASSUME NEW r \in Reader, readers[r].pc # "idle"
          PROVE  readers[r].current <= rev'[Kind(r)]
      <3>1. readers[r].current <= rev[Kind(r)] /\ readers[r].current \in Nat /\ Kind(r) \in Kinds
        BY <2>3, ReaderFields, CacheConstants DEF InHistory
      <3>. QED
        BY <1>5, <3>1
    <2>. QED
      BY <1>1, <1>2, <2>2, <2>3 DEF InHistory, Kind
  <1>7. ASSUME NEW k \in Kinds, NEW c \in Nat, NEW ids \in Ids, c <= rev[k], Serves(k, c, ids)
        PROVE  Serves(k, c, ids)'
    <2>1. PICK j \in 1..Len(log) :
            /\ ids = Proj(k, log[j])
            /\ c = rev[k] => Covers(k, j)
            /\ \A q \in Reader : readers[q].pc \in Comparing /\ Kind(q) = k /\ readers[q].current = c
                                   => readers[q].from <= j
      BY <1>7 DEF Serves
    <2>2. ASSUME c = rev'[k]
          PROVE  Covers(k, j)'
      <3>1. c = rev[k] /\ (k = d => rev' = rev)
        <4>1. k # d \/ rev' # [rev EXCEPT ![d] = @ + 1]
          BY <1>5, <1>7, <2>2 DEF Typed
        <4>2. c = rev[k]
          BY <1>5, <1>7, <2>2
        <4>. QED
          BY <4>1, <4>2 DEF Advances
      <3>2. Covers(k, j)
        BY <2>1, <3>1
      <3>3. k = d => ~Differs(k, writers[p].n)
        <4>1. CASE k = d /\ ~Differs(d, writers[p].n)
          BY <4>1
        <4>2. CASE k = d /\ Differs(d, writers[p].n)
          <5>1. rev' = [rev EXCEPT ![d] = @ + 1] /\ rev \in [Kinds -> Nat]
            BY <1>3, <4>2 DEF Advances, Typed
          <5>2. rev'[d] = rev[d] + 1
            BY <5>1
          <5>. QED
            BY <1>5, <3>1, <4>2, <5>2
        <4>. QED
          BY <4>1, <4>2
      <3>4. ASSUME NEW q \in Photo, writers'[q].pc \in Bumping \ ToBump(k), Differs(k, writers[q].n)
            PROVE  writers[q].n <= j
        <4>1. CASE q # p
          BY <1>1, <3>2, <3>4, <4>1 DEF Covers
        <4>2. CASE q = p
          BY <1>1, <3>2, <3>3, <3>4, <4>2 DEF Covers
        <4>. QED
          BY <4>1, <4>2
      <3>5. \A q \in Photo : Differs(k, writers[q].n)' = Differs(k, writers[q].n)
        BY <1>1, <1>4 DEF Differs
      <3>. QED
        BY <1>1, <1>4, <3>2, <3>4, <3>5 DEF Covers
    <2>. QED
      BY <1>1, <1>2, <2>1, <2>2 DEF Serves, Kind
  <1>8. ValuesServe'
    <2>1. Len(log') \in Nat /\ Len(log') >= Len(log) /\ \A i \in 1..Len(log) : log'[i] = log[i]
      BY <1>1, PresentState
    <2>. QED
      BY <1>1, <1>5, <1>7, <2>1, ValuesWriter
  <1>. QED
    BY <1>6, <1>8

\* A write that is acknowledged has advanced the revision of what it changed.
LEMMA AcknowledgeValues ==
  ASSUME Typed, InHistory, ValuesServe, NEW p \in Photo, Acknowledge(p)
  PROVE  InHistory' /\ ValuesServe'
  <1>1. /\ writers[p].pc = "answer" /\ writers'[p] = NoWrite
        /\ \A q \in Photo \ {p} : writers'[q] = writers[q]
        /\ \A k \in Kinds : \/ floor'[k] = floor[k]
                            \/ Differs(k, writers[p].n) /\ floor'[k] = writers[p].n /\ floor[k] <= writers[p].n
        /\ log' = log /\ rev' = rev /\ UNCHANGED Reading
        /\ floor' \in [Kinds -> 1..MaxWrites + 1]
    BY Acknowledged
  <1>2. readers' = readers /\ cache' = cache
    BY <1>1 DEF Reading
  <1>3. OwnWrite(p) /\ writers[p].n <= Len(log)
    <2>1. writers[p] # NoWrite
      BY <1>1 DEF NoWrite
    <2>. QED
      BY <2>1, PresentState DEF InHistory, OwnWrite
  <1>4. \A k \in Kinds : floor[k] \in Nat /\ floor'[k] \in Nat /\ floor[k] <= floor'[k]
    <2>1. ASSUME NEW k \in Kinds
          PROVE  floor[k] \in Nat /\ floor'[k] \in Nat
      BY <1>1, CacheConstants DEF Typed
    <2>. QED
      BY <1>1, <2>1
  <1>5. InHistory'
    <2>1. \A q \in Photo \ {p} : OwnWrite(q)' = OwnWrite(q)
      BY <1>1 DEF OwnWrite
    <2>2. \A k \in Kinds : floor'[k] <= Len(log)
      BY <1>1, <1>3 DEF InHistory
    <2>3. ASSUME NEW r \in Reader, readers[r].pc # "idle"
          PROVE  readers[r].from \in 1..floor'[Kind(r)]
      <3>1. readers[r].from \in 1..floor[Kind(r)] /\ Kind(r) \in Kinds
        BY <2>3, ReaderFields DEF InHistory
      <3>. QED
        BY <1>4, <3>1
    <2>. QED
      BY <1>1, <1>2, <2>1, <2>2, <2>3 DEF InHistory, Kind
  <1>6. ASSUME NEW k \in Kinds, NEW c \in Nat, NEW ids \in Ids, Serves(k, c, ids)
        PROVE  Serves(k, c, ids)'
    <2>1. PICK j \in 1..Len(log) :
            /\ ids = Proj(k, log[j])
            /\ c = rev[k] => Covers(k, j)
            /\ \A q \in Reader : readers[q].pc \in Comparing /\ Kind(q) = k /\ readers[q].current = c
                                   => readers[q].from <= j
      BY <1>6 DEF Serves
    <2>2. ASSUME Covers(k, j)
          PROVE  Covers(k, j)'
      <3>1. "answer" \in Bumping \ ToBump(k) /\ NoWrite.pc \notin Bumping
        BY DEF ToBump, Kinds, Bumping, NoWrite
      <3>2. floor'[k] <= j
        BY <1>1, <2>2, <3>1 DEF Covers
      <3>3. ASSUME NEW q \in Photo, writers'[q].pc \in Bumping \ ToBump(k), Differs(k, writers'[q].n)
            PROVE  writers'[q].n <= j
        BY <1>1, <2>2, <3>1, <3>3 DEF Covers
      <3>. QED
        BY <1>1, <3>2, <3>3 DEF Covers, Differs
    <2>. QED
      BY <1>1, <1>2, <2>1, <2>2 DEF Serves, Kind
  <1>7. ValuesServe'
    <2>1. /\ Len(log') \in Nat /\ Len(log') >= Len(log) /\ \A i \in 1..Len(log) : log'[i] = log[i]
          /\ \A k \in Kinds : rev'[k] \in Nat /\ rev'[k] >= rev[k]
      BY <1>1, PresentState DEF Typed
    <2>. QED
      BY <1>1, <1>6, <2>1, ValuesWriter
  <1>. QED
    BY <1>5, <1>7

LEMMA ValuesStep ==
  ASSUME Typed, Counted, InHistory, ValuesServe, [Next]_vars
  PROVE  InHistory' /\ ValuesServe'
  <1>1. ASSUME NEW p \in Photo, Write(p) PROVE InHistory' /\ ValuesServe'
    BY <1>1, CommitAppends, CommitValues, BumpAdvances, BumpValues, AcknowledgeValues DEF Write
  <1>2. ASSUME NEW r \in Reader, Step(r) \/ LoadFails(r) \/ \E k \in Kinds : Get(r, k)
        PROVE  InHistory' /\ ValuesServe'
    BY <1>2, ReaderValues
  <1>3. CASE \/ \E key \in DOMAIN orders : Expire(key)
             \/ UNCHANGED vars
    <2>1. UNCHANGED <<log, rev, cache, writers, readers, floor>>
      BY <1>3 DEF Expire, Writing, vars
    <2>2. InHistory' = InHistory
      BY <2>1 DEF InHistory, OwnWrite, Kind
    <2>3. ValuesServe' = ValuesServe
      BY <2>1 DEF ValuesServe, Serves, Covers, Differs, Kind
    <2>. QED
      BY <2>2, <2>3
  <1>. QED
    BY <1>1, <1>2, <1>3 DEF Next
-----------------------------------------------------------------------------
(* Snapshot numbers. *)

LEMMA CopyOf ==
  ASSUME NEW k \in Kinds, NEW w
  PROVE  w \in Copies(k) <=>
           \/ \E q \in Reader : readers[q].kind = k /\ readers[q].pc \in Valued /\ w = readers[q].value
           \/ cache[k].ready /\ w = cache[k].value
           \/ \E x \in DOMAIN orders : x[1] = k /\ w = [snapshot |-> x[2], ids |-> orders[x]]
  BY DEF Copies, Kind

LEMMA CopyType ==
  ASSUME Typed, NEW k \in Kinds, NEW w \in Copies(k)
  PROVE  w \in Value /\ w.snapshot \in Nat /\ w.ids \in Ids
  <1>1. CASE \E q \in Reader : readers[q].kind = k /\ readers[q].pc \in Valued /\ w = readers[q].value
    BY <1>1, ReaderFields DEF Value, Ids
  <1>2. CASE cache[k].ready /\ w = cache[k].value
    BY <1>2 DEF Typed, Value, Ids
  <1>3. CASE \E x \in DOMAIN orders : x[1] = k /\ w = [snapshot |-> x[2], ids |-> orders[x]]
    <2>1. PICK x \in DOMAIN orders : w = [snapshot |-> x[2], ids |-> orders[x]]
      BY <1>3
    <2>2. x \in Kinds \X Nat /\ orders[x] \in Ids
      BY DEF Typed
    <2>3. x[2] \in Nat
      BY <2>2
    <2>. QED
      BY <2>1, <2>2, <2>3 DEF Value, Ids
  <1>. QED
    BY <1>1, <1>2, <1>3, CopyOf

\* What a reader has, the cache has, and an order is kept of, are copies.
LEMMA OwnCopy ==
  ASSUME Typed, NEW r \in Reader, readers[r].pc \in Valued
  PROVE  readers[r].value \in Copies(Kind(r))
  BY CopyOf, ReaderFields DEF Kind

LEMMA CachedCopy ==
  ASSUME NEW k \in Kinds, cache[k].ready
  PROVE  cache[k].value \in Copies(k)
  BY CopyOf

\* A step of the queries makes no value but the one its reader then has.
LEMMA CopiesAfter ==
  ASSUME Typed, NEW r \in Reader, NEW m, Turns(r, m),
         \/ cache' = cache
         \/ readers[r].pc = "store" /\ cache' = [cache EXCEPT ![Kind(r)] = Kept(r)],
         \A x \in DOMAIN orders' : \/ x \in DOMAIN orders /\ orders'[x] = orders[x]
                                   \/ /\ readers[r].pc = "order" /\ x = OrderKey(r)
                                      /\ orders'[x] = readers[r].value.ids,
         NEW k \in Kinds, NEW w \in Copies(k)'
  PROVE  w \in Copies(k) \/ (m.kind = k /\ m.pc \in Valued /\ w = m.value)
  <1>1. \/ \E q \in Reader : readers'[q].kind = k /\ readers'[q].pc \in Valued /\ w = readers'[q].value
        \/ cache'[k].ready /\ w = cache'[k].value
        \/ \E x \in DOMAIN orders' : x[1] = k /\ w = [snapshot |-> x[2], ids |-> orders'[x]]
    BY DEF Copies, Kind
  <1>2. CASE \E q \in Reader : readers'[q].kind = k /\ readers'[q].pc \in Valued /\ w = readers'[q].value
    <2>1. PICK q \in Reader : readers'[q].kind = k /\ readers'[q].pc \in Valued /\ w = readers'[q].value
      BY <1>2
    <2>2. CASE q = r
      BY <2>1, <2>2 DEF Turns
    <2>3. CASE q # r
      BY <2>1, <2>3, CopyOf DEF Turns
    <2>. QED
      BY <2>2, <2>3
  <1>3. CASE cache'[k].ready /\ w = cache'[k].value
    <2>1. CASE cache'[k] = cache[k]
      BY <1>3, <2>1, CopyOf
    <2>2. CASE cache'[k] # cache[k]
      <3>1. readers[r].pc = "store" /\ k = Kind(r) /\ cache'[k] = Kept(r)
        BY <2>2 DEF Typed
      <3>2. w = readers[r].value
        BY <1>3, <3>1 DEF Kept
      <3>. QED
        BY <3>1, <3>2, OwnCopy DEF Valued
    <2>. QED
      BY <2>1, <2>2
  <1>4. CASE \E x \in DOMAIN orders' : x[1] = k /\ w = [snapshot |-> x[2], ids |-> orders'[x]]
    <2>1. PICK x \in DOMAIN orders' : x[1] = k /\ w = [snapshot |-> x[2], ids |-> orders'[x]]
      BY <1>4
    <2>2. CASE x \in DOMAIN orders /\ orders'[x] = orders[x]
      BY <2>1, <2>2, CopyOf
    <2>3. CASE readers[r].pc = "order" /\ x = OrderKey(r) /\ orders'[x] = readers[r].value.ids
      <3>1. k = Kind(r) /\ x[2] = readers[r].value.snapshot
        BY <2>1, <2>3, OrderKeyType
      <3>2. w = [snapshot |-> readers[r].value.snapshot, ids |-> readers[r].value.ids]
        BY <2>1, <2>3, <3>1
      <3>3. readers[r].value = [snapshot |-> readers[r].value.snapshot, ids |-> readers[r].value.ids]
        BY ReaderFields DEF Value
      <3>. QED
        BY <2>3, <3>1, <3>2, <3>3, OwnCopy DEF Valued
    <2>. QED
      BY <2>1, <2>2, <2>3
  <1>. QED
    BY <1>1, <1>2, <1>3, <1>4

NoNewCopy == \A k \in Kinds : Copies(k)' \in SUBSET Copies(k)

LEMMA EachReader ==
  ASSUME OneEach, NoNewCopy
  PROVE  OneEach'
  BY DEF OneEach, NoNewCopy

LEMMA LocksReader ==
  ASSUME Typed, LocksBuild, NEW r \in Reader, NEW m, Turns(r, m),
         \A k \in Kinds : \/ builder'[k] = builder[k] /\ cache'[k] = cache[k]
                          \/ k = Kind(r) /\ builder[k] \in {r, Free},
         m.pc \in Locked =>
           /\ builder'[m.kind] = r
           /\ cache'[m.kind].ready => \/ cache'[m.kind].revision < m.current
                                      \/ m.pc = "again" /\ cache'[m.kind].revision = m.current
  PROVE  LocksBuild'
  <1>1. ASSUME NEW q \in Reader, q # r, readers[q].pc \in Locked
        PROVE  /\ builder'[Kind(q)] = q
               /\ cache'[Kind(q)].ready => \/ cache'[Kind(q)].revision < readers[q].current
                                           \/ readers[q].pc = "again" /\ cache'[Kind(q)].revision = readers[q].current
    <2>1. builder[Kind(q)] = q /\ q # Free /\ Kind(q) \in Kinds
      BY <1>1, ReaderFields, CacheConstants DEF LocksBuild
    <2>2. builder'[Kind(q)] = builder[Kind(q)] /\ cache'[Kind(q)] = cache[Kind(q)]
      BY <1>1, <2>1
    <2>. QED
      BY <1>1, <2>1, <2>2 DEF LocksBuild
  <1>. QED
    BY <1>1 DEF LocksBuild, Turns, Kind

LEMMA LoadsReader ==
  ASSUME Typed, LoadsNumber, NEW r \in Reader, NEW m, Turns(r, m), NoNewCopy,
         \A k \in Kinds : builds'[k] \in Nat /\ builds'[k] >= builds[k],
         m.pc = "load" /\ m.kind # "shared" => \A w \in Copies(m.kind) : w.snapshot < builds'[m.kind]
  PROVE  LoadsNumber'
  <1>1. ASSUME NEW k \in Kinds \ {"shared"}, NEW w \in Copies(k)'
        PROVE  /\ w.snapshot <= builds'[k]
               /\ \A q \in Reader : readers'[q].pc = "load" /\ readers'[q].kind = k => w.snapshot < builds'[k]
    <2>1. w \in Copies(k) /\ w.snapshot \in Nat /\ builds[k] \in Nat /\ builds'[k] \in Nat /\ builds'[k] >= builds[k]
      BY CopyType DEF NoNewCopy, Typed
    <2>2. w.snapshot <= builds[k]
      BY <2>1 DEF LoadsNumber
    <2>3. ASSUME NEW q \in Reader, readers'[q].pc = "load", readers'[q].kind = k
          PROVE  w.snapshot < builds'[k]
      <3>1. CASE q = r
        BY <2>1, <2>3, <3>1 DEF Turns
      <3>2. CASE q # r
        <4>1. At(q, "load") /\ Kind(q) = k
          BY <2>3, <3>2 DEF Turns, At, Kind
        <4>2. w.snapshot < builds[k]
          BY <2>1, <4>1 DEF LoadsNumber
        <4>. QED
          BY <2>1, <4>2
      <3>. QED
        BY <3>1, <3>2
    <2>. QED
      BY <2>1, <2>2, <2>3
  <1>. QED
    BY <1>1 DEF LoadsNumber, At, Kind

LEMMA RevisionsReader ==
  ASSUME Typed, RevisionsNumber, NEW r \in Reader, NEW m, Turns(r, m), NoNewCopy,
         rev' = rev, cache'["shared"] = cache["shared"],
         \A w \in Copies("shared") :
           readers[r].pc \in {"compare", "store"} /\ Kind(r) = "shared" /\ readers[r].current = w.snapshot =>
             \/ w.snapshot < rev["shared"]
             \/ m.pc \in {"compare", "store"} /\ m.kind = "shared" /\ m.current = w.snapshot,
         m.kind = "shared" => \A w \in Copies("shared") :
           /\ m.pc = "load" => w.snapshot < m.current
           /\ m.pc = "again" => w.snapshot < m.current \/ IsCached(w.snapshot)
  PROVE  RevisionsNumber'
  <1>1. ASSUME NEW w \in Copies("shared")'
        PROVE  /\ \/ w.snapshot < rev["shared"] \/ IsCached(w.snapshot)
                  \/ \E q \in Reader : /\ readers'[q].pc \in {"compare", "store"} /\ readers'[q].kind = "shared"
                                       /\ readers'[q].current = w.snapshot
               /\ \A q \in Reader : readers'[q].kind = "shared" =>
                    /\ readers'[q].pc = "load" => w.snapshot < readers'[q].current
                    /\ readers'[q].pc = "again" => w.snapshot < readers'[q].current \/ IsCached(w.snapshot)
    <2>1. w \in Copies("shared")
      BY DEF NoNewCopy, Kinds
    <2>2. \/ w.snapshot < rev["shared"] \/ IsCached(w.snapshot)
          \/ \E q \in Reader : /\ readers[q].pc \in {"compare", "store"} /\ Kind(q) = "shared"
                               /\ readers[q].current = w.snapshot
      BY <2>1 DEF RevisionsNumber
    <2>3. \/ w.snapshot < rev["shared"] \/ IsCached(w.snapshot)
          \/ \E q \in Reader : /\ readers'[q].pc \in {"compare", "store"} /\ readers'[q].kind = "shared"
                               /\ readers'[q].current = w.snapshot
      <3>1. ASSUME NEW q \in Reader, readers[q].pc \in {"compare", "store"}, Kind(q) = "shared",
                   readers[q].current = w.snapshot
            PROVE  \/ w.snapshot < rev["shared"]
                   \/ \E y \in Reader : /\ readers'[y].pc \in {"compare", "store"} /\ readers'[y].kind = "shared"
                                        /\ readers'[y].current = w.snapshot
        <4>1. CASE q = r
          BY <2>1, <3>1, <4>1 DEF Turns
        <4>2. CASE q # r
          BY <3>1, <4>2 DEF Turns, Kind
        <4>. QED
          BY <4>1, <4>2
      <3>. QED
        BY <2>2, <3>1
    <2>4. ASSUME NEW q \in Reader, readers'[q].kind = "shared"
          PROVE  /\ readers'[q].pc = "load" => w.snapshot < readers'[q].current
                 /\ readers'[q].pc = "again" => w.snapshot < readers'[q].current \/ IsCached(w.snapshot)
      <3>1. CASE q = r
        BY <2>1, <2>4, <3>1 DEF Turns
      <3>2. CASE q # r
        BY <2>1, <2>4, <3>2 DEF Turns, Kind, At, RevisionsNumber
      <3>. QED
        BY <3>1, <3>2
    <2>. QED
      BY <2>3, <2>4
  <1>. QED
    BY <1>1 DEF RevisionsNumber, At, Kind, IsCached

LEMMA FitsReader ==
  ASSUME OrderFitsIndex, NEW r \in Reader, NEW m, Turns(r, m),
         m.pc = "done" /\ m.kind # "albums" => m.order = m.value.ids
  PROVE  OrderFitsIndex'
  BY DEF OrderFitsIndex, Turns, At, Kind

\* A step that only moves its reader, with a value that was there.
LEMMA NumbersReader ==
  ASSUME Typed, Numbered, NEW r \in Reader, NEW m, Turns(r, m), UNCHANGED <<cache, rev>>,
         \A x \in DOMAIN orders' : \/ x \in DOMAIN orders /\ orders'[x] = orders[x]
                                   \/ /\ readers[r].pc = "order" /\ x = OrderKey(r)
                                      /\ orders'[x] = readers[r].value.ids,
         \A k \in Kinds : builds'[k] \in Nat /\ builds'[k] >= builds[k],
         \A k \in Kinds : builder'[k] = builder[k] \/ (k = Kind(r) /\ builder[k] \in {r, Free}),
         m.pc \in Valued => m.kind \in Kinds /\ m.value \in Copies(m.kind),
         m.pc \in Locked =>
           /\ builder'[m.kind] = r
           /\ cache[m.kind].ready => \/ cache[m.kind].revision < m.current
                                     \/ m.pc = "again" /\ cache[m.kind].revision = m.current,
         m.pc = "load" /\ m.kind # "shared" => \A w \in Copies(m.kind) : w.snapshot < builds'[m.kind],
         \A w \in Copies("shared") :
           readers[r].pc \in {"compare", "store"} /\ Kind(r) = "shared" /\ readers[r].current = w.snapshot =>
             \/ w.snapshot < rev["shared"]
             \/ m.pc \in {"compare", "store"} /\ m.kind = "shared" /\ m.current = w.snapshot,
         m.kind = "shared" => \A w \in Copies("shared") :
           /\ m.pc = "load" => w.snapshot < m.current
           /\ m.pc = "again" => w.snapshot < m.current \/ IsCached(w.snapshot),
         m.pc = "done" /\ m.kind # "albums" => m.order = m.value.ids
  PROVE  Numbered'
  <1>1. NoNewCopy
    <2>1. ASSUME NEW k \in Kinds, NEW w \in Copies(k)'
          PROVE  w \in Copies(k)
      <3>1. w \in Copies(k) \/ (m.kind = k /\ m.pc \in Valued /\ w = m.value)
        BY <2>1, CopiesAfter
      <3>. QED
        BY <3>1
    <2>. QED
      BY <2>1 DEF NoNewCopy
  <1>2. OneEach'
    BY <1>1, EachReader DEF Numbered
  <1>3. LocksBuild'
    BY LocksReader DEF Numbered
  <1>4. LoadsNumber'
    BY <1>1, LoadsReader DEF Numbered
  <1>5. RevisionsNumber'
    BY <1>1, RevisionsReader DEF Numbered
  <1>6. OrderFitsIndex'
    BY FitsReader DEF Numbered
  <1>. QED
    BY <1>2, <1>3, <1>4, <1>5, <1>6 DEF Numbered

\* What a load brings has a number of its own.
LEMMA LoadNumbers ==
  ASSUME Typed, Counted, InHistory, Numbered, NEW r \in Reader, Load(r)
  PROVE  Numbered'
  <1>1. PICK k : k = Kind(r)
    OBVIOUS
  <1>2. PICK m : m = Now(r, "compare", readers[r].current, Loaded(r), readers[r].order)
    OBVIOUS
  <1>3. /\ Turns(r, m) /\ UNCHANGED <<cache, builds, builder, orders, rev>> /\ readers[r].pc = "load"
        /\ Loaded(r) \in Value
    BY <1>2, LoadTurns DEF Writing
  <1>4. /\ m.pc = "compare" /\ m.kind = k /\ m.current = readers[r].current /\ m.value = Loaded(r)
        /\ m.value.snapshot = IF k = "shared" THEN readers[r].current ELSE builds[k]
    BY <1>1, <1>2 DEF Now, Loaded, Number
  <1>5. /\ k \in Kinds /\ builds[k] \in Nat /\ readers[r].current \in Nat /\ rev[k] \in Nat
        /\ readers[r].current <= rev[k]
    BY <1>1, <1>3, ReaderFields, CacheConstants DEF InHistory
  <1>6. \A w \in Copies(k) : w.snapshot \in Nat /\ w.snapshot < m.value.snapshot
    <2>1. ASSUME NEW w \in Copies(k)
          PROVE  w.snapshot \in Nat /\ w.snapshot < m.value.snapshot
      <3>1. w.snapshot \in Nat
        BY <1>5, CopyType
      <3>2. CASE k = "shared"
        BY <1>1, <1>3, <1>4, <3>1, <3>2 DEF Numbered, RevisionsNumber, At
      <3>3. CASE k # "shared"
        BY <1>1, <1>3, <1>4, <1>5, <3>1, <3>3 DEF Numbered, LoadsNumber, At
      <3>. QED
        BY <3>1, <3>2, <3>3
    <2>. QED
      BY <2>1
  <1>7. ASSUME NEW c \in Kinds, NEW w \in Copies(c)'
        PROVE  w \in Copies(c) \/ (c = k /\ w = m.value)
    BY <1>3, <1>4, <1>7, CopiesAfter
  <1>8. OneEach'
    <2>1. ASSUME NEW c \in Kinds, NEW v \in Copies(c)', NEW w \in Copies(c)', v.snapshot = w.snapshot
          PROVE  v.ids = w.ids
      <3>1. CASE v \in Copies(c) /\ w \in Copies(c)
        BY <2>1, <3>1 DEF Numbered, OneEach
      <3>2. CASE v \notin Copies(c) \/ w \notin Copies(c)
        BY <1>6, <1>7, <2>1, <3>2
      <3>. QED
        BY <3>1, <3>2
    <2>. QED
      BY <2>1 DEF OneEach
  <1>9. /\ builder[k] = r
        /\ cache[k].ready => cache[k].revision < readers[r].current
    BY <1>1, <1>3 DEF Numbered, LocksBuild, Locked
  <1>10. LocksBuild'
    BY <1>3, <1>4, <1>9, LocksReader DEF Numbered
  \* Nobody else loads this kind.
  <1>11. ASSUME NEW q \in Reader, readers'[q].pc \in {"again", "load"}, readers'[q].kind = k
         PROVE  FALSE
    <2>1. q # r
      BY <1>3, <1>4, <1>11 DEF Turns
    <2>2. readers[q].pc \in Locked /\ Kind(q) = k
      BY <1>3, <1>11, <2>1 DEF Turns, Locked, Kind
    <2>. QED
      BY <1>9, <2>1, <2>2 DEF Numbered, LocksBuild
  <1>12. LoadsNumber'
    <2>1. ASSUME NEW c \in Kinds \ {"shared"}, NEW w \in Copies(c)'
          PROVE  /\ w.snapshot <= builds[c]
                 /\ \A q \in Reader : readers'[q].pc = "load" /\ readers'[q].kind = c => w.snapshot < builds[c]
      <3>1. CASE w \in Copies(c)
        <4>1. w.snapshot <= builds[c]
          BY <3>1 DEF Numbered, LoadsNumber
        <4>2. ASSUME NEW q \in Reader, readers'[q].pc = "load", readers'[q].kind = c
              PROVE  w.snapshot < builds[c]
          <5>1. At(q, "load") /\ Kind(q) = c
            BY <1>3, <1>4, <4>2 DEF Turns, At, Kind
          <5>. QED
            BY <3>1, <5>1 DEF Numbered, LoadsNumber
        <4>. QED
          BY <4>1, <4>2
      <3>2. CASE c = k /\ w = m.value
        BY <1>4, <1>5, <1>11, <3>2
      <3>. QED
        BY <1>7, <3>1, <3>2
    <2>. QED
      BY <1>3, <2>1 DEF LoadsNumber, At, Kind
  <1>13. RevisionsNumber'
    <2>1. ASSUME NEW w \in Copies("shared")'
          PROVE  /\ \/ w.snapshot < rev["shared"] \/ IsCached(w.snapshot)
                    \/ \E q \in Reader : /\ readers'[q].pc \in {"compare", "store"} /\ readers'[q].kind = "shared"
                                         /\ readers'[q].current = w.snapshot
                 /\ \A q \in Reader : readers'[q].kind = "shared" =>
                      /\ readers'[q].pc = "load" => w.snapshot < readers'[q].current
                      /\ readers'[q].pc = "again" => w.snapshot < readers'[q].current \/ IsCached(w.snapshot)
      <3>1. CASE w \in Copies("shared")
        <4>1. \/ w.snapshot < rev["shared"] \/ IsCached(w.snapshot)
              \/ \E q \in Reader : /\ readers[q].pc \in {"compare", "store"} /\ Kind(q) = "shared"
                                   /\ readers[q].current = w.snapshot
          BY <3>1 DEF Numbered, RevisionsNumber
        <4>2. \A q \in Reader : readers[q].pc \in {"compare", "store"} => q # r /\ readers'[q] = readers[q]
          BY <1>3 DEF Turns
        <4>3. \A q \in Reader : readers'[q].pc \in {"again", "load"} => q # r /\ readers'[q] = readers[q]
          BY <1>3, <1>4 DEF Turns
        <4>4. \A q \in Reader : Kind(q) = "shared" =>
                /\ At(q, "load") => w.snapshot < readers[q].current
                /\ At(q, "again") => w.snapshot < readers[q].current \/ IsCached(w.snapshot)
          BY <3>1 DEF Numbered, RevisionsNumber
        <4>. QED
          BY <4>1, <4>2, <4>3, <4>4 DEF Kind, At
      <3>2. CASE k = "shared" /\ w = m.value
        <4>1. readers'[r].pc = "compare" /\ readers'[r].kind = "shared" /\ readers'[r].current = w.snapshot
          BY <1>3, <1>4, <3>2 DEF Turns
        <4>. QED
          BY <1>11, <3>2, <4>1
      <3>. QED
        BY <1>7, <3>1, <3>2 DEF Kinds
    <2>. QED
      BY <1>3, <2>1 DEF RevisionsNumber, At, Kind, IsCached
  <1>14. OrderFitsIndex'
    BY <1>3, <1>4, FitsReader DEF Numbered
  <1>. QED
    BY <1>8, <1>10, <1>12, <1>13, <1>14 DEF Numbered

\* What is published is in the cache from then on.
LEMMA StoreNumbers ==
  ASSUME Typed, Counted, InHistory, Numbered, NEW r \in Reader, Store(r)
  PROVE  Numbered'
  <1>1. PICK k : k = Kind(r)
    OBVIOUS
  <1>2. PICK m : m = Now(r, AfterGet(r), readers[r].current, readers[r].value, readers[r].order)
    OBVIOUS
  <1>3. /\ Turns(r, m) /\ UNCHANGED <<builds, orders, rev>> /\ readers[r].pc = "store" /\ Unlock(r)
        /\ cache' = [cache EXCEPT ![Kind(r)] = Kept(r)]
    BY <1>2, StoreTurns DEF Writing
  <1>4. /\ m.pc \in {"order", "done"} /\ m.kind = k /\ m.current = readers[r].current
        /\ m.value = readers[r].value /\ (m.pc = "done" => m.kind = "albums")
    BY <1>1, <1>2 DEF Now, AfterGet
  <1>5. /\ k \in Kinds /\ rev[k] \in Nat /\ readers[r].current \in Nat /\ readers[r].current <= rev[k]
        /\ cache[k].revision \in Nat
    BY <1>1, <1>3, ReaderFields, CacheConstants DEF InHistory
  <1>6. /\ builder[k] = r
        /\ cache[k].ready => cache[k].revision < readers[r].current
    BY <1>1, <1>3 DEF Numbered, LocksBuild, Locked
  <1>7. /\ cache'[k] = Kept(r) /\ \A c \in Kinds \ {k} : cache'[c] = cache[c]
        /\ \A c \in Kinds \ {k} : builder'[c] = builder[c]
    BY <1>1, <1>3, <1>5 DEF Typed, Unlock
  <1>8. NoNewCopy
    <2>1. readers[r].value \in Copies(k)
      BY <1>1, <1>3, OwnCopy DEF Valued
    <2>2. ASSUME NEW c \in Kinds, NEW w \in Copies(c)'
          PROVE  w \in Copies(c)
      <3>1. w \in Copies(c) \/ (m.kind = c /\ m.pc \in Valued /\ w = m.value)
        BY <1>3, <2>2, CopiesAfter
      <3>. QED
        BY <1>4, <2>1, <3>1
    <2>. QED
      BY <2>2 DEF NoNewCopy
  <1>9. OneEach' /\ OrderFitsIndex'
    BY <1>3, <1>4, <1>8, EachReader, FitsReader DEF Numbered
  <1>10. LocksBuild'
    <2>1. \A c \in Kinds : \/ builder'[c] = builder[c] /\ cache'[c] = cache[c]
                           \/ c = Kind(r) /\ builder[c] \in {r, Free}
      BY <1>1, <1>6, <1>7
    <2>2. m.pc \notin Locked
      BY <1>4 DEF Locked
    <2>. QED
      BY <1>3, <2>1, <2>2, LocksReader DEF Numbered
  <1>11. LoadsNumber'
    <2>1. \A c \in Kinds : builds'[c] \in Nat /\ builds'[c] >= builds[c]
      BY <1>3 DEF Typed
    <2>. QED
      BY <1>3, <1>4, <1>8, <2>1, LoadsReader DEF Numbered
  <1>12. CASE k # "shared"
    <2>1. cache'["shared"] = cache["shared"]
      BY <1>7, <1>12 DEF Kinds
    <2>2. RevisionsNumber'
      BY <1>1, <1>3, <1>4, <1>8, <1>12, <2>1, RevisionsReader DEF Numbered
    <2>. QED
      BY <1>9, <1>10, <1>11, <2>2 DEF Numbered
  <1>13. CASE k = "shared"
    \* Nobody else loads this kind.
    <2>1. ASSUME NEW q \in Reader, readers[q].pc \in Locked, Kind(q) = k
          PROVE  q = r
      BY <1>6, <2>1 DEF Numbered, LocksBuild
    <2>2. ASSUME NEW w \in Copies("shared")'
          PROVE  /\ \/ w.snapshot < rev["shared"]
                    \/ cache'["shared"].ready /\ cache'["shared"].revision = w.snapshot
                 /\ \A q \in Reader : readers'[q].kind = "shared" => readers'[q].pc \notin {"again", "load"}
      <3>1. w \in Copies("shared") /\ w.snapshot \in Nat
        BY <1>5, <1>8, <1>13, CopyType DEF NoNewCopy
      <3>2. \/ w.snapshot < rev["shared"] \/ IsCached(w.snapshot)
            \/ \E q \in Reader : /\ readers[q].pc \in {"compare", "store"} /\ Kind(q) = "shared"
                                 /\ readers[q].current = w.snapshot
        BY <3>1 DEF Numbered, RevisionsNumber
      <3>3. IsCached(w.snapshot) => w.snapshot < rev["shared"]
        BY <1>5, <1>6, <1>13, <3>1 DEF IsCached
      <3>4. \A q \in Reader : readers[q].pc \in {"compare", "store"} /\ Kind(q) = "shared" => q = r
        BY <1>13, <2>1 DEF Locked
      <3>5. cache'["shared"].ready /\ cache'["shared"].revision = readers[r].current
        BY <1>7, <1>13 DEF Kept
      <3>6. ASSUME NEW q \in Reader, readers'[q].kind = "shared", readers'[q].pc \in {"again", "load"}
            PROVE  FALSE
        <4>1. q # r /\ readers'[q] = readers[q]
          BY <1>3, <1>4, <3>6 DEF Turns
        <4>. QED
          BY <1>13, <2>1, <3>6, <4>1 DEF Locked, Kind
      <3>. QED
        BY <3>2, <3>3, <3>4, <3>5, <3>6
    <2>3. RevisionsNumber'
      BY <1>3, <2>2 DEF RevisionsNumber, IsCached, At, Kind
    <2>. QED
      BY <1>9, <1>10, <1>11, <2>3 DEF Numbered
  <1>. QED
    BY <1>12, <1>13

\* The steps of the queries, with what they do to the numbers.
LEMMA ReaderNumbers ==
  ASSUME Typed, Counted, InHistory, ValuesServe, Numbered, NEW r \in Reader,
         Step(r) \/ LoadFails(r) \/ \E k \in Kinds : Get(r, k)
  PROVE  Numbered'
  <1>1. /\ Kind(r) \in Kinds /\ r # Free /\ readers[r].current \in Nat
        /\ \A k \in Kinds : rev[k] \in 0..MaxWrites /\ rev[k] \in Nat /\ builds[k] \in Nat /\ cache[k].revision \in Nat
    <2>1. \A k \in Kinds : rev[k] \in 0..MaxWrites
      BY CountFields
    <2>2. \A k \in Kinds : cache[k].revision \in Nat
      BY CacheConstants DEF Typed
    <2>. QED
      BY <2>1, <2>2, ReaderFields, CacheConstants DEF Typed
  <1>2. readers[r].pc \in Locked => builder[Kind(r)] = r
    BY DEF Numbered, LocksBuild
  <1>3. Unlock(r) => \A k \in Kinds : builder'[k] = builder[k] \/ (k = Kind(r) /\ builder[k] = builder[Kind(r)])
    BY DEF Typed, Unlock
  <1>4. UNCHANGED orders => \A x \in DOMAIN orders' : x \in DOMAIN orders /\ orders'[x] = orders[x]
    OBVIOUS
  <1>5. UNCHANGED builds => \A k \in Kinds : builds'[k] \in Nat /\ builds'[k] >= builds[k]
    BY <1>1
  \* The step leaves the reader without a value and without buildMu.
  <1>6. ASSUME NEW m, Turns(r, m), UNCHANGED <<cache, rev, builds, orders>>,
               m.pc \in {"idle", "peek", "build"}, readers[r].pc \notin {"compare", "store"},
               \A k \in Kinds : builder'[k] = builder[k] \/ (k = Kind(r) /\ builder[k] \in {r, Free})
        PROVE  Numbered'
    <2>1. m.pc \notin Valued /\ m.pc \notin Locked /\ m.pc \notin {"load", "again", "done"}
      BY <1>6 DEF Valued, Locked
    <2>. QED
      BY <1>4, <1>5, <1>6, <2>1, NumbersReader
  \* The step ends the search with a value that was there.
  <1>7. ASSUME NEW m, Turns(r, m), UNCHANGED <<cache, rev, builds, orders>>,
               m.pc \in {"order", "done"}, m.pc = "done" => m.kind = "albums",
               m.kind = Kind(r), m.value \in Copies(Kind(r)),
               \A k \in Kinds : builder'[k] = builder[k] \/ (k = Kind(r) /\ builder[k] \in {r, Free}),
               readers[r].pc \in {"compare", "store"} => readers[r].current < rev[Kind(r)]
        PROVE  Numbered'
    <2>1. m.pc \notin Locked /\ m.pc \notin {"load", "again", "compare", "store"}
      BY <1>7 DEF Locked
    <2>2. \A w \in Copies("shared") :
            readers[r].pc \in {"compare", "store"} /\ Kind(r) = "shared" /\ readers[r].current = w.snapshot
              => w.snapshot < rev["shared"]
      BY <1>7
    <2>. QED
      BY <1>1, <1>4, <1>5, <1>7, <2>1, <2>2, NumbersReader
  <1>8. ASSUME NEW k \in Kinds, Get(r, k) PROVE Numbered'
    <2>1. PICK m : m = [pc |-> "peek", kind |-> k, current |-> rev[k], value |-> NoValue,
                        from |-> floor[k], order |-> Blank]
      OBVIOUS
    <2>2. /\ Turns(r, m) /\ UNCHANGED <<cache, rev, builds, builder, orders>> /\ readers[r].pc = "idle"
      BY <1>1, <1>8, <2>1, GetTurns DEF Writing
    <2>3. m.pc = "peek"
      BY <2>1
    <2>. QED
      BY <1>6, <2>2, <2>3
  <1>9. CASE Peek(r)
    <2>1. readers[r].pc = "peek" /\ UNCHANGED <<cache, rev, builds, builder, orders>>
      BY <1>9, PeekTurns DEF Writing
    <2>2. CASE Hit(r)
      <3>1. PICK m : m = Now(r, AfterGet(r), 0, cache[Kind(r)].value, readers[r].order)
        OBVIOUS
      <3>2. Turns(r, m)
        BY <1>9, <2>2, <3>1, PeekTurns
      <3>3. /\ m.pc \in {"order", "done"} /\ (m.pc = "done" => m.kind = "albums")
            /\ m.kind = Kind(r) /\ m.value = cache[Kind(r)].value
        BY <3>1 DEF Now, AfterGet
      <3>4. cache[Kind(r)].value \in Copies(Kind(r))
        BY <1>1, <2>2, CachedCopy DEF Hit
      <3>. QED
        BY <1>7, <2>1, <3>2, <3>3, <3>4
    <2>3. CASE ~Hit(r)
      <3>1. PICK m : m = Now(r, "build", readers[r].current, readers[r].value, readers[r].order)
        OBVIOUS
      <3>2. Turns(r, m) /\ m.pc = "build"
        BY <1>9, <2>3, <3>1, PeekTurns DEF Now
      <3>. QED
        BY <1>6, <2>1, <3>2
    <2>. QED
      BY <2>2, <2>3
  <1>10. CASE Lock(r)
    <2>1. PICK m : m = Now(r, "again", rev[Kind(r)], readers[r].value, readers[r].order)
      OBVIOUS
    <2>2. /\ Turns(r, m) /\ UNCHANGED <<cache, rev, builds, orders>> /\ readers[r].pc = "build"
          /\ builder[Kind(r)] = Free /\ builder' = [builder EXCEPT ![Kind(r)] = r]
      BY <1>1, <1>10, <2>1, LockTurns DEF Writing
    <2>3. m.pc = "again" /\ m.kind = Kind(r) /\ m.current = rev[Kind(r)]
      BY <2>1 DEF Now
    <2>4. /\ builder'[Kind(r)] = r
          /\ \A k \in Kinds : builder'[k] = builder[k] \/ (k = Kind(r) /\ builder[k] \in {r, Free})
      BY <1>1, <2>2 DEF Typed
    <2>5. cache[Kind(r)].ready => \/ cache[Kind(r)].revision < rev[Kind(r)]
                                  \/ cache[Kind(r)].revision = rev[Kind(r)]
      BY <1>1 DEF ValuesServe
    <2>6. m.kind = "shared" => \A w \in Copies("shared") : w.snapshot < m.current \/ IsCached(w.snapshot)
      <3>1. ASSUME Kind(r) = "shared", NEW w \in Copies("shared"), NEW q \in Reader,
                   readers[q].pc \in {"compare", "store"}, Kind(q) = "shared"
            PROVE  FALSE
        <4>1. builder["shared"] = q /\ q # Free
          BY <3>1, CacheConstants DEF Numbered, LocksBuild, Locked
        <4>. QED
          BY <2>2, <3>1, <4>1
      <3>. QED
        BY <2>3, <3>1 DEF Numbered, RevisionsNumber
    <2>7. m.pc \notin Valued /\ m.pc \notin {"load", "done"} /\ readers[r].pc \notin {"compare", "store"}
      BY <2>2, <2>3 DEF Valued
    <2>. QED
      BY <1>4, <1>5, <2>2, <2>3, <2>4, <2>5, <2>6, <2>7, NumbersReader
  <1>11. CASE PeekAgain(r)
    <2>1. readers[r].pc = "again" /\ UNCHANGED <<cache, rev, orders>> /\ builder[Kind(r)] = r
      BY <1>2, <1>11, PeekAgainTurns DEF Writing, Locked
    <2>2. CASE Hit(r)
      <3>1. PICK m : m = Now(r, AfterGet(r), 0, cache[Kind(r)].value, readers[r].order)
        OBVIOUS
      <3>2. Turns(r, m) /\ Unlock(r) /\ UNCHANGED builds
        BY <1>11, <2>2, <3>1, PeekAgainTurns
      <3>3. /\ m.pc \in {"order", "done"} /\ (m.pc = "done" => m.kind = "albums")
            /\ m.kind = Kind(r) /\ m.value = cache[Kind(r)].value
        BY <3>1 DEF Now, AfterGet
      <3>4. cache[Kind(r)].value \in Copies(Kind(r))
        BY <1>1, <2>2, CachedCopy DEF Hit
      <3>. QED
        BY <1>3, <1>7, <2>1, <3>2, <3>3, <3>4
    <2>3. CASE ~Hit(r)
      <3>1. PICK m : m = Now(r, "load", readers[r].current, readers[r].value, readers[r].order)
        OBVIOUS
      <3>2. Turns(r, m) /\ UNCHANGED builder /\ builds' = [builds EXCEPT ![Kind(r)] = @ + 1]
        BY <1>11, <2>3, <3>1, PeekAgainTurns
      <3>3. m.pc = "load" /\ m.kind = Kind(r) /\ m.current = readers[r].current
        BY <3>1 DEF Now
      <3>4. /\ \A k \in Kinds : builds'[k] \in Nat /\ builds'[k] >= builds[k]
            /\ builds'[Kind(r)] = builds[Kind(r)] + 1
        BY <1>1, <3>2 DEF Typed
      <3>5. cache[Kind(r)].ready => cache[Kind(r)].revision < readers[r].current
        BY <2>1, <2>3 DEF Numbered, LocksBuild, Locked, Hit
      <3>6. Kind(r) # "shared" => \A w \in Copies(Kind(r)) : w.snapshot < builds'[Kind(r)]
        <4>1. ASSUME NEW w \in Copies(Kind(r)), Kind(r) # "shared" PROVE w.snapshot < builds'[Kind(r)]
          <5>1. w.snapshot \in Nat
            BY <1>1, CopyType
          <5>2. w.snapshot <= builds[Kind(r)]
            BY <1>1, <4>1 DEF Numbered, LoadsNumber
          <5>. QED
            BY <1>1, <3>4, <5>1, <5>2
        <4>. QED
          BY <4>1
      <3>7. Kind(r) = "shared" => \A w \in Copies("shared") : w.snapshot < readers[r].current
        BY <2>1, <3>5 DEF Numbered, RevisionsNumber, At, IsCached
      <3>8. m.pc \notin Valued /\ m.pc \notin {"again", "done"} /\ readers[r].pc \notin {"compare", "store"}
        BY <2>1, <3>3 DEF Valued
      <3>. QED
        BY <1>4, <2>1, <3>2, <3>3, <3>4, <3>5, <3>6, <3>7, <3>8, NumbersReader
    <2>. QED
      BY <2>2, <2>3
  <1>12. CASE Load(r)
    BY <1>12, LoadNumbers
  <1>13. CASE Compare(r)
    <2>1. /\ readers[r].pc = "compare" /\ UNCHANGED <<cache, rev, builds, orders>> /\ builder[Kind(r)] = r
          /\ readers[r].value \in Copies(Kind(r))
      BY <1>2, <1>13, CompareTurns, OwnCopy DEF Writing, Locked, Valued
    <2>2. CASE rev[Kind(r)] = readers[r].current
      <3>1. PICK m : m = Now(r, "store", readers[r].current, readers[r].value, readers[r].order)
        OBVIOUS
      <3>2. Turns(r, m) /\ UNCHANGED builder
        BY <1>13, <2>2, <3>1, CompareTurns
      <3>3. m.pc = "store" /\ m.kind = Kind(r) /\ m.current = readers[r].current /\ m.value = readers[r].value
        BY <3>1 DEF Now
      <3>4. cache[Kind(r)].ready => cache[Kind(r)].revision < readers[r].current
        BY <2>1 DEF Numbered, LocksBuild, Locked
      <3>. QED
        BY <1>1, <1>4, <1>5, <2>1, <3>2, <3>3, <3>4, NumbersReader
    <2>3. CASE rev[Kind(r)] # readers[r].current
      <3>1. PICK m : m = Now(r, AfterGet(r), readers[r].current, readers[r].value, readers[r].order)
        OBVIOUS
      <3>2. Turns(r, m) /\ Unlock(r)
        BY <1>13, <2>3, <3>1, CompareTurns
      <3>3. /\ m.pc \in {"order", "done"} /\ (m.pc = "done" => m.kind = "albums")
            /\ m.kind = Kind(r) /\ m.value = readers[r].value
        BY <3>1 DEF Now, AfterGet
      <3>4. readers[r].current < rev[Kind(r)]
        BY <1>1, <2>1, <2>3 DEF InHistory
      <3>. QED
        BY <1>3, <1>7, <2>1, <3>2, <3>3, <3>4
    <2>. QED
      BY <2>2, <2>3
  <1>14. CASE Store(r)
    BY <1>14, StoreNumbers
  <1>15. CASE Order(r)
    <2>1. PICK m : m = Now(r, "done", readers[r].current, readers[r].value, Ordered(r))
      OBVIOUS
    <2>2. Turns(r, m) /\ UNCHANGED <<cache, rev, builds, builder>> /\ readers[r].pc = "order"
      BY <1>15, <2>1, OrderTurns DEF Writing
    <2>3. m.pc = "done" /\ m.kind = Kind(r) /\ m.value = readers[r].value /\ m.order = Ordered(r)
      BY <2>1 DEF Now
    <2>4. readers[r].value \in Copies(Kind(r))
      BY <2>2, OwnCopy DEF Valued
    \* The order kept under this number is that of the very value the reader has.
    <2>5. Ordered(r) = readers[r].value.ids
      <3>1. CASE OrderKey(r) \in DOMAIN orders
        <4>1. PICK w : w = [snapshot |-> OrderKey(r)[2], ids |-> orders[OrderKey(r)]]
          OBVIOUS
        <4>2. w \in Copies(Kind(r)) /\ w.snapshot = readers[r].value.snapshot
          BY <1>1, <3>1, <4>1, CopyOf, OrderKeyType
        <4>3. w.ids = readers[r].value.ids
          BY <1>1, <2>4, <4>2 DEF Numbered, OneEach
        <4>. QED
          BY <3>1, <4>1, <4>3 DEF Ordered
      <3>2. CASE OrderKey(r) \notin DOMAIN orders
        BY <3>2 DEF Ordered
      <3>. QED
        BY <3>1, <3>2
    <2>6. \A x \in DOMAIN orders' : \/ x \in DOMAIN orders /\ orders'[x] = orders[x]
                                    \/ x = OrderKey(r) /\ orders'[x] = readers[r].value.ids
      BY <1>15, OrdersAfter
    <2>7. m.pc \notin Locked /\ m.pc \notin {"load", "again"} /\ readers[r].pc \notin {"compare", "store"}
      BY <2>2, <2>3 DEF Locked
    <2>. QED
      BY <1>1, <1>5, <2>2, <2>3, <2>4, <2>5, <2>6, <2>7, NumbersReader
  <1>16. CASE LoadFails(r) \/ Finish(r)
    <2>1. /\ Turns(r, NoRead) /\ UNCHANGED <<cache, rev, builds, orders>> /\ NoRead.pc = "idle"
          /\ readers[r].pc \notin {"compare", "store"}
      BY <1>16, EndTurns DEF Writing, NoRead
    <2>2. \A k \in Kinds : builder'[k] = builder[k] \/ (k = Kind(r) /\ builder[k] \in {r, Free})
      BY <1>2, <1>3, <1>16, EndTurns DEF Locked
    <2>. QED
      BY <1>6, <2>1, <2>2
  <1>. QED
    BY <1>8, <1>9, <1>10, <1>11, <1>12, <1>13, <1>14, <1>15, <1>16 DEF Step

\* A write leaves the numbers alone: revisions only grow.
LEMMA WriterNumbers ==
  ASSUME Typed, Numbered, UNCHANGED Reading, rev'["shared"] \in Nat, rev'["shared"] >= rev["shared"]
  PROVE  Numbered'
  <1>1. UNCHANGED <<cache, builds, builder, orders, readers>>
    BY DEF Reading
  <1>2. \A k \in Kinds : Copies(k)' = Copies(k)
    BY <1>1 DEF Copies, Kind
  <1>3. OneEach' /\ LocksBuild' /\ LoadsNumber' /\ OrderFitsIndex'
    BY <1>1, <1>2 DEF Numbered, OneEach, LocksBuild, LoadsNumber, OrderFitsIndex, At, Kind
  <1>4. "shared" \in Kinds /\ rev["shared"] \in Nat
    BY DEF Typed, Kinds
  <1>5. ASSUME NEW w \in Copies("shared"), w.snapshot < rev["shared"]
        PROVE  w.snapshot < rev'["shared"]
    <2>1. w.snapshot \in Nat
      BY <1>4, CopyType
    <2>. QED
      BY <1>4, <1>5, <2>1
  <1>6. RevisionsNumber'
    BY <1>1, <1>2, <1>4, <1>5 DEF Numbered, RevisionsNumber, IsCached, At, Kind
  <1>. QED
    BY <1>3, <1>6 DEF Numbered

LEMMA NumbersStep ==
  ASSUME Typed, Counted, InHistory, ValuesServe, Numbered, [Next]_vars
  PROVE  Numbered'
  <1>1. rev["shared"] \in Nat
    BY DEF Typed, Kinds
  <1>2. ASSUME NEW p \in Photo, Write(p) PROVE Numbered'
    <2>1. ASSUME NEW row \in Rows, Commit(p, row, "share") PROVE Numbered'
      <3>1. UNCHANGED Reading /\ rev' = rev
        BY <2>1, Committed
      <3>. QED
        BY <1>1, <3>1, WriterNumbers
    <2>2. ASSUME NEW k \in Kinds, NEW s \in Bumping, Advances(p, k, s) PROVE Numbered'
      <3>1. UNCHANGED Reading /\ (rev' = [rev EXCEPT ![k] = @ + 1] \/ rev' = rev)
        BY <2>2 DEF Advances
      <3>2. rev'["shared"] \in Nat /\ rev'["shared"] >= rev["shared"]
        <4>1. CASE rev' = rev
          BY <1>1, <4>1
        <4>2. CASE rev' = [rev EXCEPT ![k] = @ + 1]
          <5>1. \/ rev'["shared"] = rev["shared"]
                \/ rev'["shared"] = rev["shared"] + 1
            BY <4>2 DEF Typed, Kinds
          <5>. QED
            BY <1>1, <5>1
        <4>. QED
          BY <3>1, <4>1, <4>2
      <3>. QED
        BY <3>1, <3>2, WriterNumbers
    <2>3. CASE Acknowledge(p)
      <3>1. UNCHANGED Reading /\ rev' = rev
        BY <2>3, Acknowledged
      <3>. QED
        BY <1>1, <3>1, WriterNumbers
    <2>. QED
      BY <1>2, <2>1, <2>2, <2>3, CommitAppends, BumpAdvances DEF Write
  <1>3. ASSUME NEW r \in Reader, Step(r) \/ LoadFails(r) \/ \E k \in Kinds : Get(r, k)
        PROVE  Numbered'
    BY <1>3, ReaderNumbers
  <1>4. ASSUME NEW key \in DOMAIN orders, Expire(key) PROVE Numbered'
    <2>1. /\ \A x \in DOMAIN orders' : x \in DOMAIN orders /\ orders'[x] = orders[x]
          /\ UNCHANGED <<cache, builds, builder, readers, rev>>
      BY <1>4, Expired DEF Writing
    <2>2. NoNewCopy
      BY <2>1 DEF NoNewCopy, Copies, Kind
    <2>3. OneEach'
      BY <2>2, EachReader DEF Numbered
    <2>4. LocksBuild' /\ OrderFitsIndex'
      BY <2>1 DEF Numbered, LocksBuild, OrderFitsIndex, At, Kind
    <2>5. LoadsNumber'
      BY <2>1, <2>2 DEF Numbered, LoadsNumber, NoNewCopy, At, Kind
    <2>6. RevisionsNumber'
      BY <2>1, <2>2 DEF Numbered, RevisionsNumber, NoNewCopy, IsCached, At, Kind, Kinds
    <2>. QED
      BY <2>3, <2>4, <2>5, <2>6 DEF Numbered
  <1>5. CASE UNCHANGED vars
    BY <1>1, <1>5, WriterNumbers DEF vars, Reading
  <1>. QED
    BY <1>2, <1>3, <1>4, <1>5 DEF Next
-----------------------------------------------------------------------------
(* The theorems about the caches. *)

LEMMA OneState ==
  ASSUME NEW S, NEW s \in S
  PROVE  <<s>> \in Seq(S) /\ Len(<<s>>) = 1
  OBVIOUS

LEMMA CacheInit == Init => CacheIInv
  <1>. SUFFICES ASSUME Init PROVE CacheIInv
    OBVIOUS
  <1>1. /\ log = << [p \in Photo |-> [album |-> Hidden, ver |-> 0, shared |-> FALSE]] >>
        /\ rev = [k \in Kinds |-> 0] /\ builds = [k \in Kinds |-> 0]
        /\ cache = [k \in Kinds |-> [ready |-> FALSE, revision |-> 0, value |-> NoValue]]
        /\ builder = [k \in Kinds |-> Free] /\ orders = << >>
        /\ writers = [p \in Photo |-> NoWrite] /\ readers = [r \in Reader |-> NoRead]
        /\ floor = [k \in Kinds |-> 1] /\ gets = 0
    BY DEF Init
  <1>2. [p \in Photo |-> [album |-> Hidden, ver |-> 0, shared |-> FALSE]] \in [Photo -> Rows]
    BY DEF Rows
  <1>3. log \in Seq([Photo -> Rows]) /\ Len(log) = 1
    <2>. PICK s : s = [p \in Photo |-> [album |-> Hidden, ver |-> 0, shared |-> FALSE]]
      OBVIOUS
    <2>1. log = <<s>> /\ s \in [Photo -> Rows]
      BY <1>1, <1>2
    <2>. QED
      BY <2>1, OneState
  <1>4. DOMAIN orders = {} /\ IsFiniteSet({}) /\ Cardinality({}) = 0
    BY <1>1, FS_EmptySet
  <1>5. Len(log) \in 1..MaxWrites + 1 /\ 1 \in 1..MaxWrites + 1 /\ 0 \in 0..MaxWrites
        /\ 0 \in 0..MaxGets /\ 0 <= MaxOrders
    BY <1>3, CacheConstants
  <1>6. Typed
    <2>1. NoRead \in ReaderState /\ NoValue \in Value
      BY IdleReader
    <2>2. cache \in [Kinds -> [ready : BOOLEAN, revision : 0..MaxWrites, value : Value]]
      BY <1>1, <1>5, <2>1
    <2>. QED
      BY <1>1, <1>3, <1>4, <1>5, <2>1, <2>2 DEF Typed
  <1>7. Counted
    <2>1. \A k \in Kinds : Pending(k) = {} /\ ToBuild(k) = {}
      BY <1>1 DEF Pending, ToBuild, NoWrite, NoRead, ToBump, Kinds
    <2>2. \A k \in Kinds : Cardinality(Pending(k)) = 0 /\ Cardinality(ToBuild(k)) = 0
      BY <1>4, <2>1
    <2>. QED
      BY <1>1, <1>3, <2>2 DEF Counted
  <1>8. InHistory
    BY <1>1, <1>3 DEF InHistory, NoRead
  <1>9. ValuesServe
    BY <1>1 DEF ValuesServe, NoRead, Valued
  <1>10. \A k \in Kinds : Copies(k) = {}
    BY <1>1, <1>4 DEF Copies, NoRead, Valued
  <1>11. Numbered
    BY <1>1, <1>10 DEF Numbered, OneEach, LocksBuild, LoadsNumber, RevisionsNumber, OrderFitsIndex,
                       NoRead, Locked, At, Kinds
  <1>. QED
    BY <1>6, <1>7, <1>8, <1>9, <1>11 DEF CacheIInv

\* For any photos, requests and bounds: what writers, readers, caches and orders
\* keep of each other at every step (photoChanged, revisionCache.get, photoOrder).
THEOREM CachesInductive == Spec => []CacheIInv
  <1>1. CacheIInv /\ [Next]_vars => CacheIInv'
    BY TypesStep, ValuesStep, NumbersStep DEF CacheIInv
  <1>. QED
    BY <1>1, CacheInit, PTL DEF Spec

\* For any photos, requests and bounds: the caches have their types, the orders
\* stay within their limit, and every page is ordered from the very index its
\* request read (revisionCache.get and photoOrder).
THEOREM PagesFitTheirIndex == Spec => []CacheInv
  <1>1. CacheIInv => CacheInv
    <2>. SUFFICES ASSUME CacheIInv PROVE CacheInv
      OBVIOUS
    <2>1. Typed /\ Counted /\ OrderFitsIndex
      BY DEF CacheIInv, Numbered
    <2>2. \A k \in Kinds : rev[k] \in 0..MaxWrites /\ builds[k] \in 0..MaxGets
      BY <2>1, CountFields
    <2>3. rev \in [Kinds -> 0..MaxWrites] /\ builds \in [Kinds -> 0..MaxGets]
      BY <2>1, <2>2 DEF Typed
    <2>4. \A p \in Photo : writers[p].pc \in {"idle", "share", "index", "albums", "answer"}
      BY <2>1 DEF Typed, WriterState, Bumping, NoWrite
    <2>5. \A r \in Reader :
            /\ readers[r].pc \in {"idle", "peek", "build", "again", "load", "compare", "store", "order", "done"}
            /\ readers[r].kind \in Kinds /\ readers[r].value \in Value
      BY <2>1, ReaderFields DEF Kind
    <2>. QED
      BY <2>1, <2>3, <2>4, <2>5 DEF CacheInv, CacheTypeOK, Typed
  <1>. QED
    BY <1>1, CachesInductive, PTL

\* "A changed revision cannot publish an old snapshot as current": for any
\* photos, requests and bounds, whatever a read answers is the state of the
\* table at some moment after all that was acknowledged before it began.
THEOREM ReadsStayCurrent == Spec => []ReadsAreCurrent
  <1>1. CacheIInv => ReadsAreCurrent
    BY DEF CacheIInv, ValuesServe, ReadsAreCurrent, Answered, At, Valued
  <1>. QED
    BY <1>1, CachesInductive, PTL
-----------------------------------------------------------------------------
(* Signing in. *)

CONSTANTS IP, Attempt
VARIABLES clock, twoStep, pc, login, fails, lastStep

Gate == INSTANCE LoginGate

\* The entry an attempt sees is well-formed, whatever its age.
LEMMA EntryType ==
  ASSUME Gate!TypeOK, NEW i \in IP, NEW now \in Nat
  PROVE  Gate!Entry(i, now) \in [n : 0..Gate!MaxFails, last : Nat]
  BY DEF Gate!TypeOK, Gate!Entry, Gate!NoFails, Gate!MaxFails

\* An answer ends one attempt and keeps every other.
LEMMA AnswerEnds ==
  ASSUME Gate!TypeOK, NEW a \in Attempt, NEW result \in {"ok", "wrong", "locked"}, Gate!Answer(a, result)
  PROVE  /\ pc' \in [Attempt -> {"unmade", "asked", "ok", "wrong", "locked", "past"}]
         /\ pc'[a] = result
         /\ \A b \in Attempt : b # a => pc'[b] = pc[b]
         /\ login' = login /\ clock' = clock /\ twoStep' = twoStep
  BY DEF Gate!TypeOK, Gate!Answer

\* A step that keeps the logins, and accepts and asks none anew, keeps the
\* relations of the accepted ones to the last step.
LEMMA NoneAccepted ==
  ASSUME Gate!GateInv, login' = login, lastStep' = lastStep, twoStep' = twoStep, clock' \in Nat, clock' >= clock,
         \A a \in Attempt : /\ pc'[a] = "ok" => pc[a] = "ok"
                            /\ pc'[a] = "asked" => pc[a] = "asked"
  PROVE  Gate!TimesArePast' /\ Gate!StepIsNewest' /\ Gate!CodeWorksOnce'
  <1>1. Gate!TimesArePast'
    BY DEF Gate!GateInv, Gate!TypeOK, Gate!Login, Gate!TimesArePast
  <1>2. Gate!StepIsNewest' /\ Gate!CodeWorksOnce'
    BY DEF Gate!GateInv, Gate!StepIsNewest, Gate!CodeWorksOnce, Gate!Accepted
  <1>. QED
    BY <1>1, <1>2

\* What every step keeps.
LEMMA GateStep ==
  ASSUME Gate!GateInv, [Gate!Next]_Gate!vars
  PROVE  Gate!GateInv'
  <1>. USE DEF Gate!GateInv
  <1>1. ASSUME NEW a \in Attempt, Gate!Ask(a)
        PROVE  Gate!GateInv'
    <2>1. PICK m \in Gate!Login : m.now = clock /\ login' = [login EXCEPT ![a] = m]
      BY <1>1 DEF Gate!Ask
    <2>2. /\ pc'[a] = "asked" /\ login'[a] = m
          /\ \A b \in Attempt : b # a => pc'[b] = pc[b] /\ login'[b] = login[b]
      BY <1>1, <2>1 DEF Gate!Ask, Gate!TypeOK
    <2>3. Gate!TypeOK'
      BY <1>1, <2>1 DEF Gate!TypeOK, Gate!Ask
    <2>4. Gate!TimesArePast'
      BY <1>1, <2>1, <2>2 DEF Gate!TimesArePast, Gate!Ask, Gate!TypeOK
    <2>5. Gate!StepIsNewest' /\ Gate!CodeWorksOnce'
      BY <1>1, <2>2 DEF Gate!StepIsNewest, Gate!CodeWorksOnce, Gate!Accepted, Gate!Ask
    <2>. QED
      BY <2>3, <2>4, <2>5
  <1>2. ASSUME NEW a \in Attempt, Gate!RefuseLocked(a)
        PROVE  Gate!GateInv'
    <2>1. Gate!Answer(a, "locked") /\ fails' = fails /\ lastStep' = lastStep
      BY <1>2 DEF Gate!RefuseLocked
    <2>2. Gate!TypeOK'
      BY <2>1, AnswerEnds DEF Gate!TypeOK
    <2>3. Gate!TimesArePast' /\ Gate!StepIsNewest' /\ Gate!CodeWorksOnce'
      BY <2>1, AnswerEnds, NoneAccepted DEF Gate!TypeOK
    <2>. QED
      BY <2>2, <2>3
  <1>3. ASSUME NEW a \in Attempt, Gate!RefuseWrong(a)
        PROVE  Gate!GateInv'
    <2>1. Gate!Answer(a, "wrong") /\ lastStep' = lastStep
      BY <1>3 DEF Gate!RefuseWrong
    <2>2. login[a].ip \in IP /\ login[a].now \in Nat
      BY DEF Gate!TypeOK, Gate!Login
    <2>3. fails' \in [IP -> [n : 0..Gate!MaxFails, last : Nat]]
      <3>1. [n |-> Gate!Entry(login[a].ip, login[a].now).n + 1, last |-> login[a].now]
              \in [n : 0..Gate!MaxFails, last : Nat]
        <4>1. Gate!Entry(login[a].ip, login[a].now) \in [n : 0..Gate!MaxFails, last : Nat]
          BY <2>2, EntryType
        <4>2. ~(Gate!Entry(login[a].ip, login[a].now).n >= Gate!MaxFails)
          BY <1>3 DEF Gate!RefuseWrong, Gate!Locked
        <4>3. Gate!Entry(login[a].ip, login[a].now).n + 1 \in 0..Gate!MaxFails
          BY <4>1, <4>2 DEF Gate!MaxFails
        <4>. QED
          BY <2>2, <4>3
      <3>2. \A i \in IP : Gate!Entry(i, login[a].now) \in [n : 0..Gate!MaxFails, last : Nat]
        BY <2>2, EntryType
      <3>. QED
        BY <1>3, <3>1, <3>2 DEF Gate!RefuseWrong
    <2>4. Gate!TypeOK'
      BY <2>1, <2>3, AnswerEnds DEF Gate!TypeOK
    <2>5. Gate!TimesArePast' /\ Gate!StepIsNewest' /\ Gate!CodeWorksOnce'
      BY <2>1, AnswerEnds, NoneAccepted DEF Gate!TypeOK
    <2>. QED
      BY <2>4, <2>5
  <1>4. ASSUME NEW a \in Attempt, Gate!Accept(a)
        PROVE  Gate!GateInv'
    <2>1. Gate!Answer(a, "ok") /\ Gate!Passes(login[a])
      BY <1>4 DEF Gate!Accept
    <2>2. /\ pc'[a] = "ok" /\ \A b \in Attempt : b # a => pc'[b] = pc[b]
          /\ login' = login /\ clock' = clock /\ twoStep' = twoStep
      BY <2>1, AnswerEnds
    <2>3. \A b \in Attempt : login[b].code \in Nat
      BY DEF Gate!TypeOK, Gate!Login
    <2>4. Gate!TypeOK'
      <3>1. fails' \in [IP -> [n : 0..Gate!MaxFails, last : Nat]] /\ lastStep' \in Nat
        <4>1. Gate!NoFails \in [n : 0..Gate!MaxFails, last : Nat]
          BY DEF Gate!NoFails, Gate!MaxFails
        <4>2. fails' = [fails EXCEPT ![login[a].ip] = Gate!NoFails]
          BY <1>4 DEF Gate!Accept
        <4>3. lastStep' = login[a].code \/ lastStep' = lastStep
          BY <1>4 DEF Gate!Accept
        <4>. QED
          BY <2>3, <4>1, <4>2, <4>3 DEF Gate!TypeOK
      <3>. QED
        BY <2>1, <3>1, AnswerEnds DEF Gate!TypeOK
    <2>5. Gate!TimesArePast'
      BY <2>2 DEF Gate!TimesArePast
    <2>6. CASE twoStep
      <3>1. login[a].code > lastStep /\ lastStep' = login[a].code /\ lastStep \in Nat
        BY <1>4, <2>1, <2>6 DEF Gate!Accept, Gate!Passes, Gate!TypeOK
      <3>2. \A b \in Attempt : Gate!Accepted(b) => login[b].code < login[a].code
        BY <2>3, <2>6, <3>1 DEF Gate!StepIsNewest
      <3>3. Gate!StepIsNewest' /\ Gate!CodeWorksOnce'
        BY <2>2, <2>3, <3>1, <3>2 DEF Gate!StepIsNewest, Gate!CodeWorksOnce, Gate!Accepted
      <3>. QED
        BY <2>4, <2>5, <3>3
    <2>7. CASE ~twoStep
      BY <2>2, <2>4, <2>5, <2>7 DEF Gate!StepIsNewest, Gate!CodeWorksOnce
    <2>. QED
      BY <2>6, <2>7
  <1>5. CASE Gate!Tick
    BY <1>5, NoneAccepted DEF Gate!Tick, Gate!TypeOK
  <1>6. CASE Gate!Restart
    <2>1. \A a \in Attempt : pc'[a] \in {"unmade", "past"}
      BY <1>6 DEF Gate!Restart
    <2>2. Gate!TypeOK'
      BY <1>6 DEF Gate!Restart, Gate!TypeOK, Gate!NoFails, Gate!MaxFails
    <2>. QED
      BY <2>1, <2>2 DEF Gate!TimesArePast, Gate!StepIsNewest, Gate!CodeWorksOnce, Gate!Accepted
  <1>7. CASE UNCHANGED Gate!vars
    BY <1>7 DEF Gate!vars, Gate!TypeOK, Gate!TimesArePast, Gate!StepIsNewest, Gate!CodeWorksOnce, Gate!Accepted
  <1>. QED
    BY <1>1, <1>2, <1>3, <1>4, <1>5, <1>6, <1>7 DEF Gate!Next, Gate!Decide

\* The gate's invariant holds in every reachable state.
THEOREM GateInvariant == Gate!Spec => []Gate!GateInv
  <1>1. Gate!Init => Gate!GateInv
    BY DEF Gate!Init, Gate!GateInv, Gate!TypeOK, Gate!TimesArePast, Gate!StepIsNewest, Gate!CodeWorksOnce, Gate!Accepted,
           Gate!NoFails, Gate!MaxFails
  <1>. QED
    BY <1>1, GateStep, PTL DEF Gate!Spec

\* Each code signs in at most once while the process lives (authGate.lastStep).
THEOREM CodesWorkOnce == Gate!Spec => []Gate!CodeWorksOnce
  <1>1. Gate!GateInv => Gate!CodeWorksOnce
    BY DEF Gate!GateInv
  <1>. QED
    BY <1>1, GateInvariant, PTL

\* No step of an attempt ends a lockout before its time.
LEMMA LockoutStep ==
  ASSUME Gate!GateInv, [Gate!Next]_Gate!vars, NEW i \in IP, fails[i].n = Gate!MaxFails, fails'[i] # fails[i]
  PROVE  Gate!Restart \/ clock - fails[i].last >= Gate!Lockout
  <1>1. clock \in Nat /\ fails[i].last \in Nat
    BY DEF Gate!GateInv, Gate!TypeOK
  <1>2. ASSUME NEW a \in Attempt, pc[a] = "asked", Gate!Old(fails[i], login[a].now)
        PROVE  clock - fails[i].last >= Gate!Lockout
    <2>1. login[a].now \in Nat /\ login[a].now <= clock
      BY <1>2 DEF Gate!GateInv, Gate!TypeOK, Gate!TimesArePast, Gate!Login
    <2>. QED
      BY <1>1, <1>2, <2>1 DEF Gate!Old, Gate!Lockout
  <1>3. ASSUME NEW a \in Attempt, Gate!RefuseWrong(a)
        PROVE  clock - fails[i].last >= Gate!Lockout
    <2>1. pc[a] = "asked" /\ ~Gate!Locked(login[a]) /\ login[a].now \in Nat
      BY <1>3 DEF Gate!RefuseWrong, Gate!Answer, Gate!GateInv, Gate!TypeOK, Gate!Login
    <2>2. Gate!Old(fails[i], login[a].now)
      <3>1. CASE i = login[a].ip
        BY <2>1, <3>1 DEF Gate!Locked, Gate!Entry, Gate!MaxFails
      <3>2. CASE i # login[a].ip
        <4>1. fails'[i] = Gate!Entry(i, login[a].now)
          BY <1>3, <3>2 DEF Gate!RefuseWrong
        <4>. QED
          BY <4>1 DEF Gate!Entry
      <3>. QED
        BY <3>1, <3>2
    <2>. QED
      BY <1>2, <2>1, <2>2
  <1>4. ASSUME NEW a \in Attempt, Gate!Accept(a)
        PROVE  clock - fails[i].last >= Gate!Lockout
    <2>1. pc[a] = "asked" /\ ~Gate!Locked(login[a])
      BY <1>4 DEF Gate!Accept, Gate!Answer
    <2>2. i = login[a].ip
      BY <1>4 DEF Gate!Accept, Gate!GateInv, Gate!TypeOK
    <2>3. Gate!Old(fails[i], login[a].now)
      BY <2>1, <2>2 DEF Gate!Locked, Gate!Entry, Gate!MaxFails
    <2>. QED
      BY <1>2, <2>1, <2>3
  <1>. QED
    BY <1>3, <1>4 DEF Gate!Next, Gate!Decide, Gate!Ask, Gate!RefuseLocked, Gate!Tick, Gate!vars

\* A lockout lasts its fifteen minutes, whatever attempts are under way.
THEOREM LockoutsLast == Gate!Spec => Gate!LockoutLasts
  <1>1. Gate!GateInv /\ [Gate!Next]_Gate!vars =>
          [\A i \in IP : fails[i].n = Gate!MaxFails /\ fails'[i] # fails[i] =>
             Gate!Restart \/ clock - fails[i].last >= Gate!Lockout]_Gate!vars
    BY LockoutStep
  <1>. QED
    BY <1>1, GateInvariant, PTL DEF Gate!Spec, Gate!LockoutLasts
=============================================================================
