----------------------------- MODULE QueryCache -----------------------------
(***************************************************************************)
(* The caches behind the gallery's queries (query_cache.go).  Writers      *)
(* commit a change of the photos table and then advance the revisions it   *)
(* concerns; they never wait for a reader.  A reader takes a revision,     *)
(* looks at the cached value, and loads a new one if the revision has      *)
(* moved on; loads of one kind are serialized by buildMu.  The order of a  *)
(* page (photoOrder) is cached once more, under the snapshot number of the *)
(* index it was built from.                                                *)
(*                                                                         *)
(* Three of the kinds are modelled: the index of visible photos, the index *)
(* of shared photos and the album summaries.  They differ in what they     *)
(* depend on and in the writes that advance their revision; the other      *)
(* kinds advance at every write.                                           *)
(***************************************************************************)
EXTENDS Naturals, Sequences, FiniteSets

CONSTANTS
  Photo,       \* photos, each written under its own photo lock
  Album,
  Hidden,      \* the "album" of a photo that is not visible
  Reader,      \* requests that read through a cache
  Queried,     \* bound: the kinds they ask for
  MaxWrites,   \* bound: writes
  MaxGets,     \* bound: reads
  MaxFaults,   \* bound: failed loads
  MaxOrders    \* photoOrderLimits.entries

Free == "free"

ASSUME CacheConstants == /\ IsFiniteSet(Photo) /\ Hidden \notin Album
                         /\ IsFiniteSet(Reader) /\ Free \notin Reader
                         /\ MaxWrites \in Nat /\ MaxGets \in Nat /\ MaxFaults \in Nat
                         /\ MaxOrders \in Nat \ {0}

VARIABLES
  log,      \* the states the photos table has had; the last is the present one
  rev,      \* indexRevision, shareRevision, albumRevision
  cache,    \* revisionCache of each kind: ready, revision, value
  builds,   \* revisionCache.builds
  builder,  \* who holds buildMu of each kind
  orders,   \* the cached orders of pages, by snapshot key
  writers,  \* the write in progress of each photo
  readers,  \* the read in progress of each reader
  floor,    \* the last acknowledged write that a kind depends on
  gets, faults

vars == <<log, rev, cache, builds, builder, orders, writers, readers, floor, gets, faults>>

Kinds == {"index", "shared", "albums"}
Rows  == [album : Album \cup {Hidden}, ver : {0, 1}, shared : BOOLEAN]
db    == log[Len(log)]

\* photoVisible.
Visible(row) == row.album # Hidden

\* What the load of a kind reads of the table.
Proj(kind, state) ==
  [p \in Photo |->
     CASE kind = "index"  -> state[p].album
       [] kind = "shared" -> IF state[p].shared THEN state[p].album ELSE Hidden
       [] kind = "albums" -> IF Visible(state[p]) THEN <<state[p].album, state[p].ver>> ELSE Hidden]

Blank == [p \in Photo |-> Hidden]
NoValue == [snapshot |-> 0, ids |-> Blank]
Value == [snapshot : Nat, ids : [Photo -> Album \cup {Hidden} \cup (Album \X {0, 1})]]

NoRead == [pc |-> "idle", kind |-> "index", current |-> 0, value |-> NoValue,
           from |-> 0, order |-> Blank]

CacheTypeOK ==
  /\ log \in Seq([Photo -> Rows]) /\ Len(log) \in 1..MaxWrites + 1
  /\ rev \in [Kinds -> 0..MaxWrites] /\ builds \in [Kinds -> 0..MaxGets]
  /\ cache \in [Kinds -> [ready : BOOLEAN, revision : 0..MaxWrites, value : Value]]
  /\ builder \in [Kinds -> Reader \cup {Free}]
  /\ Cardinality(DOMAIN orders) <= MaxOrders
  /\ \A p \in Photo : writers[p].pc \in {"idle", "share", "index", "albums", "answer"}
  /\ \A r \in Reader :
       /\ readers[r].pc \in {"idle", "peek", "build", "again", "load", "compare", "store", "order", "done"}
       /\ readers[r].kind \in Kinds /\ readers[r].value \in Value
  /\ floor \in [Kinds -> 1..MaxWrites + 1]

NoWrite == [pc |-> "idle", n |-> 0, before |-> 0]

Init ==
  /\ log = << [p \in Photo |-> [album |-> Hidden, ver |-> 0, shared |-> FALSE]] >>
  /\ rev = [k \in Kinds |-> 0] /\ builds = [k \in Kinds |-> 0]
  /\ cache = [k \in Kinds |-> [ready |-> FALSE, revision |-> 0, value |-> NoValue]]
  /\ builder = [k \in Kinds |-> Free]
  /\ orders = << >>
  /\ writers = [p \in Photo |-> NoWrite]
  /\ readers = [r \in Reader |-> NoRead]
  /\ floor = [k \in Kinds |-> 1]
  /\ gets = 0 /\ faults = 0

Reading == <<cache, builds, builder, orders, readers, gets, faults>>
Writing == <<log, rev, writers, floor>>
-----------------------------------------------------------------------------
(* Writers. *)

Commit(p, row, first) ==
  /\ writers[p] = NoWrite /\ Len(log) <= MaxWrites
  /\ log' = Append(log, [db EXCEPT ![p] = row])
  /\ writers' = [writers EXCEPT ![p] = [pc |-> first, n |-> Len(log) + 1, before |-> db[p]]]
  /\ UNCHANGED <<rev, floor, Reading>>

\* store.upsert or deleteByID: a change of the row ends its share.
\* The version of a photo that is not visible concerns no kind.
WritePhoto(p) == \E a \in Album \cup {Hidden}, v \in {0, 1} :
  /\ a = Hidden => v = 0
  /\ Commit(p, [album |-> a, ver |-> v, shared |-> db[p].shared /\ a = db[p].album /\ v = db[p].ver], "share")

\* saveShare or stopShare: only the shared photos change, and photoChanged is not
\* called; the write passes its revisions without effect.
WriteShare(p) ==
  /\ Visible(db[p])
  /\ Commit(p, [db[p] EXCEPT !.shared = ~@], "share")

Bump(p, kind, next, needed) ==
  /\ writers[p].pc = kind
  /\ rev' = IF needed THEN [rev EXCEPT ![IF kind = "share" THEN "shared" ELSE kind] = @ + 1] ELSE rev
  /\ writers' = [writers EXCEPT ![p].pc = next]
  /\ UNCHANGED <<log, floor, Reading>>

Written(p) == log[writers[p].n][p]
ShareOnly(p) == Written(p) = [writers[p].before EXCEPT !.shared = ~@]

BumpShare(p) == Bump(p, "share", "index", TRUE)

\* Mutant: only a change of visibility counts, not a move to another album.
BumpIndexVisible(p) ==
  Bump(p, "index", "albums", Visible(writers[p].before) # Visible(Written(p)))

\* photoChanged: the index of visible photos depends on visibility and album.
BumpIndex(p) == Bump(p, "index", "albums", writers[p].before.album # Written(p).album)

\* photoChanged: the album summaries depend on everything that is visible.
BumpAlbums(p) ==
  Bump(p, "albums", "answer",
       ~ShareOnly(p) /\ (Visible(writers[p].before) \/ Visible(Written(p))))

Larger(a, b) == IF a > b THEN a ELSE b

\* The writer returns: from now on its change must be seen.
Acknowledge(p) ==
  /\ writers[p].pc = "answer"
  /\ floor' = [k \in Kinds |->
                 IF Proj(k, log[writers[p].n]) # Proj(k, log[writers[p].n - 1])
                 THEN Larger(floor[k], writers[p].n) ELSE floor[k]]
  /\ writers' = [writers EXCEPT ![p] = NoWrite]
  /\ UNCHANGED <<log, rev, Reading>>
-----------------------------------------------------------------------------
(* revisionCache.get. *)

At(r, s) == readers[r].pc = s
Goto(r, s) == readers' = [readers EXCEPT ![r].pc = s]
Kind(r) == readers[r].kind

\* The revision is read, ...
Get(r, kind) ==
  /\ readers[r].pc = "idle" /\ gets < MaxGets /\ kind \in Queried
  /\ gets' = gets + 1
  /\ readers' = [readers EXCEPT ![r] = [NoRead EXCEPT !.pc = "peek", !.kind = kind,
                                          !.current = rev[kind], !.from = floor[kind]]]
  /\ UNCHANGED <<cache, builds, builder, orders, faults, Writing>>

Hit(r) == cache[Kind(r)].ready /\ cache[Kind(r)].revision = readers[r].current

\* Only the two indexes have orders.
AfterGet(r) == IF Kind(r) = "albums" THEN "done" ELSE "order"
Answer(r, value) == readers' = [readers EXCEPT ![r].pc = AfterGet(r), ![r].value = value, ![r].current = 0]

\* ... then the cached value, under mu.
Peek(r) ==
  /\ At(r, "peek")
  /\ IF Hit(r) THEN Answer(r, cache[Kind(r)].value) ELSE Goto(r, "build")
  /\ UNCHANGED <<cache, builds, builder, orders, gets, faults, Writing>>

\* buildMu.Lock, and the revision is read once more.
Lock(r) ==
  /\ At(r, "build") /\ builder[Kind(r)] = Free
  /\ builder' = [builder EXCEPT ![Kind(r)] = r]
  /\ readers' = [readers EXCEPT ![r].pc = "again", ![r].current = rev[Kind(r)]]
  /\ UNCHANGED <<cache, builds, orders, gets, faults, Writing>>

Unlock(r) == builder' = [builder EXCEPT ![Kind(r)] = Free]

\* Mutant: loads are not counted.
PeekAgainUncounted(r) ==
  /\ At(r, "again")
  /\ IF Hit(r) THEN Answer(r, cache[Kind(r)].value) /\ Unlock(r) ELSE Goto(r, "load") /\ UNCHANGED builder
  /\ UNCHANGED <<cache, builds, orders, gets, faults, Writing>>

PeekAgain(r) ==
  /\ At(r, "again")
  /\ \/ Hit(r) /\ Answer(r, cache[Kind(r)].value) /\ Unlock(r) /\ UNCHANGED builds
     \/ /\ ~Hit(r) /\ Goto(r, "load")
        /\ builds' = [builds EXCEPT ![Kind(r)] = @ + 1]
        /\ UNCHANGED builder
  /\ UNCHANGED <<cache, orders, gets, faults, Writing>>

\* One statement reads one state of the table.  The index numbers its snapshots
\* by the loads so far, the index of shared photos by the revision.
Load(r) ==
  /\ At(r, "load")
  /\ readers' = [readers EXCEPT ![r].pc = "compare", ![r].value =
       [snapshot |-> IF Kind(r) = "shared" THEN readers[r].current ELSE builds[Kind(r)],
        ids |-> Proj(Kind(r), db)]]
  /\ UNCHANGED <<cache, builds, builder, orders, gets, faults, Writing>>

LoadFails(r) ==
  /\ At(r, "load") /\ faults < MaxFaults
  /\ faults' = faults + 1
  /\ readers' = [readers EXCEPT ![r] = NoRead] /\ Unlock(r)
  /\ UNCHANGED <<cache, builds, orders, gets, Writing>>

\* A value is published only if the revision is still the one it was loaded for.
Compare(r) ==
  /\ At(r, "compare")
  /\ IF rev[Kind(r)] = readers[r].current
     THEN Goto(r, "store") /\ UNCHANGED builder
     ELSE Goto(r, AfterGet(r)) /\ Unlock(r)
  /\ UNCHANGED <<cache, builds, orders, gets, faults, Writing>>

Store(r) ==
  /\ At(r, "store")
  /\ cache' = [cache EXCEPT ![Kind(r)] =
       [ready |-> TRUE, revision |-> readers[r].current, value |-> readers[r].value]]
  /\ Goto(r, AfterGet(r)) /\ Unlock(r)
  /\ UNCHANGED <<builds, orders, gets, faults, Writing>>
-----------------------------------------------------------------------------
(* photoOrder, through boundedCache.get. *)

OrderKey(r) == <<Kind(r), readers[r].value.snapshot>>
Entry(o, key, ids) == [x \in DOMAIN o \cup {key} |-> IF x = key THEN ids ELSE o[x]]
Evicted(o, key) == [x \in DOMAIN o \ {key} |-> o[x]]

\* Mutant: an entry that makes the cache too large stays.
OrderKept(r) ==
  /\ At(r, "order")
  /\ readers' = [readers EXCEPT ![r].pc = "done", ![r].order =
       IF OrderKey(r) \in DOMAIN orders THEN orders[OrderKey(r)] ELSE readers[r].value.ids]
  /\ orders' = IF OrderKey(r) \in DOMAIN orders THEN orders
               ELSE Entry(orders, OrderKey(r), readers[r].value.ids)
  /\ UNCHANGED <<cache, builds, builder, gets, faults, Writing>>

\* The cached order, or a new one; then the entry used longest ago (here: any)
\* makes room.
Order(r) ==
  /\ At(r, "order")
  /\ LET key == OrderKey(r)
         grown == Entry(orders, key, readers[r].value.ids)
     IN \/ /\ key \in DOMAIN orders
           /\ readers' = [readers EXCEPT ![r].pc = "done", ![r].order = orders[key]]
           /\ UNCHANGED orders
        \/ /\ key \notin DOMAIN orders
           /\ readers' = [readers EXCEPT ![r].pc = "done", ![r].order = readers[r].value.ids]
           /\ IF Cardinality(DOMAIN grown) <= MaxOrders THEN orders' = grown
              ELSE \E x \in DOMAIN grown : orders' = Evicted(grown, x)
  /\ UNCHANGED <<cache, builds, builder, gets, faults, Writing>>

\* An entry that was not used for a while goes.
Expire(key) ==
  /\ key \in DOMAIN orders
  /\ orders' = Evicted(orders, key)
  /\ UNCHANGED <<cache, builds, builder, readers, gets, faults, Writing>>

Finish(r) ==
  /\ At(r, "done")
  /\ readers' = [readers EXCEPT ![r] = NoRead]
  /\ UNCHANGED <<cache, builds, builder, orders, gets, faults, Writing>>
-----------------------------------------------------------------------------
Write(p) == WritePhoto(p) \/ WriteShare(p) \/ BumpShare(p) \/ BumpIndex(p) \/ BumpAlbums(p) \/ Acknowledge(p)

Step(r) == \/ Peek(r) \/ Lock(r) \/ PeekAgain(r) \/ Load(r) \/ Compare(r) \/ Store(r)
           \/ Order(r) \/ Finish(r)

Next == \/ \E p \in Photo : Write(p)
        \/ \E r \in Reader : Step(r) \/ LoadFails(r) \/ \E k \in Kinds : Get(r, k)
        \/ \E key \in DOMAIN orders : Expire(key)

Spec == Init /\ [][Next]_vars
-----------------------------------------------------------------------------
Answered(r) == At(r, "order") \/ At(r, "done")

\* "A changed revision cannot publish an old snapshot as current": a read shows
\* the photos as they were at some moment after every change that was
\* acknowledged before the read began; which revisions photoChanged leaves alone
\* and the gap between a commit and its revision make no difference.
ReadsAreCurrent ==
  \A r \in Reader : Answered(r) =>
    \E i \in readers[r].from..Len(log) : readers[r].value.ids = Proj(Kind(r), log[i])

\* A page is ordered from the very index the request read: equal snapshot
\* numbers mean equal indexes, however loads and writes interleave.
OrderFitsIndex ==
  \A r \in Reader : At(r, "done") /\ Kind(r) # "albums" => readers[r].order = readers[r].value.ids

\* The types of the caches, and orders that fit their index.
CacheInv == CacheTypeOK /\ OrderFitsIndex
=============================================================================
