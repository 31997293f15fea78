----------------------------- MODULE PhotoShares -----------------------------
(***************************************************************************)
(* Sharing of single originals: the photo_shares table with its triggers   *)
(* (share_store.go) and the handlers that show, grant, stop and serve a    *)
(* permit (sharing.go).  A request is formed in the browser from a state   *)
(* it was shown, arrives later, and reads the source in several steps      *)
(* while sources, the index and other requests go on.                      *)
(*                                                                         *)
(* A source object is its version, its bytes and the scope (where the      *)
(* configured storage points).  Bytes may change under an unchanged        *)
(* version: an in-place writer that keeps size and time.  The digest of a  *)
(* permit stands for the bytes.  Photos are row ids: a row may be deleted  *)
(* and its id used again, and the permit row outlives it.  A version       *)
(* stands for source key and version together, so an id that is used again *)
(* by another photo has a new one.                                         *)
(***************************************************************************)
EXTENDS Naturals, FiniteSets

CONSTANTS
  Photo,        \* row ids of photos
  Request,      \* HTTP requests in progress
  Bytes,        \* contents of originals
  MaxChanges,   \* bound: new source versions and repointed storages, together
  MaxToken,     \* bound: tokens drawn
  MaxGen,       \* bound: generations of a permit row
  OwnerSlots, PublicSlots   \* shareAPI.owner and shareAPI.public

ASSUME ShareConstants ==
  /\ IsFiniteSet(Request) /\ Bytes # {}
  /\ MaxChanges \in Nat
  /\ MaxToken \in Nat /\ MaxGen \in Nat
  /\ OwnerSlots \in Nat \ {0} /\ PublicSlots \in Nat \ {0}

VARIABLES
  src,      \* the source object of each photo, as it is now
  photos,   \* the photos table: version and visibility, or NoPhoto
  shares,   \* the photo_shares table
  reqs,     \* the requests in progress
  drawn,    \* tokens drawn so far
  ended,    \* how many permits of each photo have ended
  granted,  \* tokens that have ever been a permit's
  served    \* pairs of a token and the bytes a visitor was shown under it

vars == <<src, photos, shares, reqs, drawn, ended, granted, served>>

Tokens   == 1..MaxToken
Versions == 1..(MaxChanges + 1)
Object   == [version : Versions, bytes : Bytes, scope : Versions, there : BOOLEAN]
NoPhoto  == [version |-> 0, visible |-> FALSE, there |-> FALSE]
PhotoRow == [version : {0} \cup Versions, visible : BOOLEAN, there : BOOLEAN]
\* Token 0 is NULL: the permit is inactive.
Share    == [token : 0..MaxToken, gen : 0..MaxGen, version : {0} \cup Versions,
             scope : {0} \cup Versions, bytes : Bytes]

Kinds == {"none", "create", "stop", "get", "media"}
Steps == {"idle", "formed", "slot", "open", "copy", "confirm", "save", "source",
          "photo", "lookup", "retire", "recheck", "done"}

AnyBytes == CHOOSE b \in Bytes : TRUE

\* The locals of a handler: the photo and version it selected, the generation
\* and token of the request, what its snapshot read, and the permit it serves.
NoReq == [kind |-> "none", pc |-> "idle", photo |-> 0, version |-> 0, gen |-> 0, token |-> 0,
          scope |-> 0, bytes |-> AnyBytes, permit |-> AnyBytes, permitScope |-> 0,
          ended |-> 0, ok |-> FALSE]

ReqState == [kind : Kinds, pc : Steps, photo : Photo \cup {0}, version : {0} \cup Versions,
             gen : 0..MaxGen, token : 0..MaxToken, scope : {0} \cup Versions,
             bytes : Bytes, permit : Bytes, permitScope : {0} \cup Versions,
             ended : Nat, ok : BOOLEAN]

TypeOK ==
  /\ src \in [Photo -> Object]
  /\ photos \in [Photo -> PhotoRow]
  /\ shares \in [Photo -> Share]
  /\ reqs \in [Request -> ReqState]
  /\ drawn \in 0..MaxToken
  /\ ended \in [Photo -> Nat]
  /\ granted \in SUBSET Tokens
  /\ served \in SUBSET (Tokens \X Bytes)

Init ==
  /\ src \in [Photo -> {o \in Object : o.version = 1 /\ o.scope = 1 /\ o.bytes = AnyBytes /\ o.there}]
  /\ photos = [p \in Photo |-> [version |-> 1, visible |-> TRUE, there |-> TRUE]]
  /\ shares = [p \in Photo |-> [token |-> 0, gen |-> 0, version |-> 0, scope |-> 0, bytes |-> AnyBytes]]
  /\ reqs = [r \in Request |-> NoReq]
  /\ drawn = 0
  /\ ended = [p \in Photo |-> 0]
  /\ granted = {}
  /\ served = {}
-----------------------------------------------------------------------------
Active(p) == shares[p].token # 0

\* Mutant: the generation is taken back instead of moved on.
RetiredBack(p) == [shares[p] EXCEPT !.token = 0, !.gen = @ - 1]

\* retireShares: the address stops working and the generation moves on.
Retired(p) == [shares[p] EXCEPT !.token = 0, !.gen = @ + 1]
Retire(p) == /\ shares[p].gen < MaxGen
             /\ shares' = [shares EXCEPT ![p] = Retired(p)]
             /\ ended' = [ended EXCEPT ![p] = IF Active(p) THEN @ + 1 ELSE @]
Keep == UNCHANGED <<shares, ended>>

At(r, k, s) == reqs[r].kind \in k /\ reqs[r].pc = s
Goto(r, s) == reqs' = [reqs EXCEPT ![r].pc = s]
Answer(r, ok) == reqs' = [reqs EXCEPT ![r] = [NoReq EXCEPT !.pc = "done", !.ok = ok]]
Fail(r) == Answer(r, FALSE)

\* retireShare: by token, so a permit granted since is not touched.
RetireToken(n) == IF \E p \in Photo : n # 0 /\ shares[p].token = n
                  THEN \E p \in Photo : shares[p].token = n /\ Retire(p)
                  ELSE Keep
-----------------------------------------------------------------------------
(* The browser forms a request from the state it was shown. *)

Form(r, k, p) ==
  /\ reqs[r] = NoReq
  /\ k = "create" => drawn < MaxToken
  /\ drawn' = IF k = "create" THEN drawn + 1 ELSE drawn
  /\ reqs' = [reqs EXCEPT ![r] =
       [NoReq EXCEPT !.kind = k, !.pc = "formed", !.photo = p, !.version = photos[p].version,
                     !.gen = shares[p].gen, !.ended = ended[p],
                     !.token = IF k = "create" THEN drawn + 1 ELSE 0]]
  /\ Keep /\ UNCHANGED <<src, photos, granted, served>>

Selected(r) == LET row == photos[reqs[r].photo]
               IN row.there /\ row.visible /\ row.version = reqs[r].version

\* selected: the photo must still be the one the browser showed.
Arrive(r) ==
  /\ At(r, {"create", "stop"}, "formed")
  /\ IF ~Selected(r) THEN Fail(r)
     ELSE Goto(r, IF reqs[r].kind = "create" THEN "slot" ELSE "save")
  /\ Keep /\ UNCHANGED <<src, photos, drawn, granted, served>>

Reading(r) == reqs[r].pc \in {"open", "copy", "confirm", "save", "lookup", "retire", "recheck"}
InUse(k) == Cardinality({r \in Request : reqs[r].kind = k /\ Reading(r)})

\* slots.acquire: the owner's copying and the visitors take separate slots.
AcquireSlot(r) ==
  /\ At(r, {"create", "media"}, "slot")
  /\ InUse(reqs[r].kind) < IF reqs[r].kind = "create" THEN OwnerSlots ELSE PublicSlots
  /\ Goto(r, "open")
  /\ Keep /\ UNCHANGED <<src, photos, drawn, granted, served>>
-----------------------------------------------------------------------------
(* snapshot: compare, copy, compare again. *)

Object0(r) == src[reqs[r].photo]
SameVersion(r) == Object0(r).there /\ Object0(r).version = reqs[r].version

\* The source is not what it was: the copy is dropped, and the permit in question
\* is retired next.  create has yet to look for one, and draws no token of its own.
Changed(r) == reqs' = [reqs EXCEPT ![r] =
  [reqs[r] EXCEPT !.pc = IF reqs[r].kind = "create" THEN "lookup" ELSE "retire",
                  !.token = IF reqs[r].kind = "create" THEN 0 ELSE reqs[r].token,
                  !.scope = 0, !.bytes = AnyBytes]]

Open(r) ==
  /\ reqs[r].pc = "open"
  /\ IF SameVersion(r)
     THEN reqs' = [reqs EXCEPT ![r].pc = "copy", ![r].scope = Object0(r).scope]
     ELSE Changed(r)
  /\ Keep /\ UNCHANGED <<src, photos, drawn, granted, served>>

Copy(r) ==
  /\ reqs[r].pc = "copy"
  /\ IF SameVersion(r)
     THEN reqs' = [reqs EXCEPT ![r].pc = "confirm", ![r].bytes = Object0(r).bytes]
     ELSE Changed(r)
  /\ Keep /\ UNCHANGED <<src, photos, drawn, granted, served>>

\* Mutant: the digest of the copy is not compared with the permit's.
ConfirmNoDigest(r) ==
  /\ reqs[r].pc = "confirm"
  /\ IF SameVersion(r) /\ Object0(r).scope = reqs[r].scope
     THEN Goto(r, IF reqs[r].kind = "create" THEN "save" ELSE "recheck")
     ELSE Changed(r)
  /\ Keep /\ UNCHANGED <<src, photos, drawn, granted, served>>

\* The copy holds; a visitor's must also be the very bytes of the permit.
Confirm(r) ==
  /\ reqs[r].pc = "confirm"
  /\ IF /\ SameVersion(r) /\ Object0(r).scope = reqs[r].scope
        /\ reqs[r].kind = "media" => /\ reqs[r].bytes = reqs[r].permit
                                     /\ reqs[r].scope = reqs[r].permitScope
     THEN Goto(r, IF reqs[r].kind = "create" THEN "save" ELSE "recheck")
     ELSE Changed(r)
  /\ Keep /\ UNCHANGED <<src, photos, drawn, granted, served>>

\* create retires the permit its photo has by now, when it has one.
FindPermit(r) ==
  /\ At(r, {"create"}, "lookup")
  /\ reqs' = [reqs EXCEPT ![r].pc = "retire", ![r].token = shares[reqs[r].photo].token]
  /\ Keep /\ UNCHANGED <<src, photos, drawn, granted, served>>

\* retireShare, and the answer: a view shows the state, the others an error.
RetireStep(r) ==
  /\ reqs[r].pc = "retire"
  /\ RetireToken(reqs[r].token)
  /\ Answer(r, reqs[r].kind = "get")
  /\ UNCHANGED <<src, photos, drawn, granted, served>>

\* The source cannot be read just now, or the client goes away.
GiveUp(r) ==
  /\ reqs[r].pc \notin {"idle", "done"}
  /\ Fail(r)
  /\ Keep /\ UNCHANGED <<src, photos, drawn, granted, served>>
-----------------------------------------------------------------------------
(* writeShare and writeStopShare, each one transaction. *)

\* Mutant: any later generation converges with the request.
ExpectedOrLater(r) == shares[reqs[r].photo].gen >= reqs[r].gen

\* The generation the request names is the row's, or a copy that started with
\* the same inactive generation has just been granted.
Expected(r) == LET cur == shares[reqs[r].photo]
               IN cur.gen = reqs[r].gen \/ (cur.token # 0 /\ cur.gen = reqs[r].gen + 1)

SameGrant(r) == LET cur == shares[reqs[r].photo]
                IN cur.bytes = reqs[r].bytes /\ cur.scope = reqs[r].scope /\ cur.version = reqs[r].version

Granted(r) == [token |-> reqs[r].token, gen |-> shares[reqs[r].photo].gen + 1,
               version |-> reqs[r].version, scope |-> reqs[r].scope, bytes |-> reqs[r].bytes]

SaveShare(r) ==
  /\ At(r, {"create"}, "save")
  /\ LET p == reqs[r].photo
     IN \/ ~(Selected(r) /\ Expected(r)) /\ Fail(r) /\ Keep /\ UNCHANGED granted
        \/ /\ Selected(r) /\ Expected(r) /\ Active(p)
           /\ IF SameGrant(r) THEN Answer(r, TRUE) /\ Keep ELSE Fail(r) /\ Retire(p)
           /\ UNCHANGED granted
        \/ /\ Selected(r) /\ Expected(r) /\ ~Active(p) /\ shares[p].gen < MaxGen
           /\ shares' = [shares EXCEPT ![p] = Granted(r)]
           /\ granted' = granted \cup {reqs[r].token}
           /\ Answer(r, TRUE)
           /\ UNCHANGED ended
  /\ UNCHANGED <<src, photos, drawn, served>>

\* stopShare: repeating a stop is no error, and does not end a newer permit.
SaveStop(r) ==
  /\ At(r, {"stop"}, "save")
  /\ LET p == reqs[r].photo
         g == reqs[r].gen
     IN \/ ~Active(p) /\ shares[p].gen \in {g, g + 1} /\ Answer(r, TRUE) /\ Keep
        \/ (Active(p) \/ shares[p].gen # g + 1) /\ shares[p].gen # g /\ Fail(r) /\ Keep
        \/ Active(p) /\ shares[p].gen = g /\ Answer(r, TRUE) /\ Retire(p)
  /\ UNCHANGED <<src, photos, drawn, granted, served>>
-----------------------------------------------------------------------------
(* get: the state of a permit, retired on the way if its source has changed. *)

GetRead(r) ==
  /\ At(r, {"get"}, "formed")
  /\ IF ~photos[reqs[r].photo].there THEN Fail(r)
     ELSE IF ~Active(reqs[r].photo) THEN Answer(r, TRUE)
     ELSE reqs' = [reqs EXCEPT ![r].pc = "source", ![r].token = shares[reqs[r].photo].token,
                     ![r].version = shares[reqs[r].photo].version,
                     ![r].permitScope = shares[reqs[r].photo].scope]
  /\ Keep /\ UNCHANGED <<src, photos, drawn, granted, served>>

\* checkSource.
GetCheck(r) ==
  /\ At(r, {"get"}, "source")
  /\ IF SameVersion(r) /\ Object0(r).scope = reqs[r].permitScope
     THEN Answer(r, TRUE) ELSE Goto(r, "retire")
  /\ Keep /\ UNCHANGED <<src, photos, drawn, granted, served>>
-----------------------------------------------------------------------------
(* media: a visitor opens a link.  Unknown tokens are turned away at once. *)

MediaRead(r, p) ==
  /\ reqs[r] = NoReq /\ Active(p)
  /\ reqs' = [reqs EXCEPT ![r] =
       [NoReq EXCEPT !.kind = "media", !.pc = "photo", !.photo = p, !.token = shares[p].token,
                     !.version = shares[p].version, !.permit = shares[p].bytes,
                     !.permitScope = shares[p].scope]]
  /\ Keep /\ UNCHANGED <<src, photos, drawn, granted, served>>

MediaPhoto(r) ==
  /\ At(r, {"media"}, "photo")
  /\ Goto(r, IF Selected(r) THEN "slot" ELSE "retire")
  /\ Keep /\ UNCHANGED <<src, photos, drawn, granted, served>>

Serve(r) == served' = served \cup {<<reqs[r].token, reqs[r].bytes>>}

\* A stop during the source read still counts: nothing has been sent yet.
Recheck(r) ==
  /\ At(r, {"media"}, "recheck")
  /\ IF \E p \in Photo : shares[p].token = reqs[r].token
     THEN Serve(r) /\ Answer(r, TRUE) ELSE Fail(r) /\ UNCHANGED served
  /\ Keep /\ UNCHANGED <<src, photos, drawn, granted>>

Finish(r) ==
  /\ reqs[r].pc = "done"
  /\ reqs' = [reqs EXCEPT ![r] = NoReq]
  /\ Keep /\ UNCHANGED <<src, photos, drawn, granted, served>>
-----------------------------------------------------------------------------
(* The index follows the source; triggers end permits in the same statement. *)

\* Mutant: an update of the row does not fire the trigger.
PublishQuietly(p) ==
  /\ photos[p].there /\ src[p].there
  /\ photos' = [photos EXCEPT ![p].version = src[p].version, ![p].visible = TRUE]
  /\ Keep /\ UNCHANGED <<src, reqs, drawn, granted, served>>

\* store.upsert of a usable version.  photos_change_shares fires when the
\* version differs.
Publish(p) ==
  /\ photos[p].there /\ src[p].there
  /\ photos' = [photos EXCEPT ![p].version = src[p].version, ![p].visible = TRUE]
  /\ IF photos[p].version # src[p].version THEN Retire(p) ELSE Keep
  /\ UNCHANGED <<src, reqs, drawn, granted, served>>

\* store.upsert of a version marked broken.
PublishBroken(p) ==
  /\ photos[p].there /\ src[p].there
  /\ photos' = [photos EXCEPT ![p].version = src[p].version, ![p].visible = FALSE]
  /\ Retire(p)
  /\ UNCHANGED <<src, reqs, drawn, granted, served>>

\* store.deleteByID and photos_delete_shares: the permit row stays.
Delete(p) ==
  /\ photos[p].there
  /\ photos' = [photos EXCEPT ![p] = NoPhoto]
  /\ Retire(p)
  /\ UNCHANGED <<src, reqs, drawn, granted, served>>

\* The id is used again for a row that is not usable yet; photos_insert_shares
\* finds the old permit row and leaves it.
Insert(p) ==
  /\ ~photos[p].there
  /\ photos' = [photos EXCEPT ![p].there = TRUE]
  /\ Keep /\ UNCHANGED <<src, reqs, drawn, granted, served>>

\* The bound on changes: each version of an object and each place is new.
MayChange(p) == src[p].version + src[p].scope - 2 < MaxChanges

Overwrite(p) ==
  /\ MayChange(p)
  /\ \E b \in Bytes : src' = [src EXCEPT ![p].version = @ + 1, ![p].bytes = b, ![p].there = TRUE]
  /\ Keep /\ UNCHANGED <<photos, reqs, drawn, granted, served>>

\* An in-place writer that keeps size and time.
Rewrite(p) ==
  /\ \E b \in Bytes : b # src[p].bytes /\ src' = [src EXCEPT ![p].bytes = b]
  /\ Keep /\ UNCHANGED <<photos, reqs, drawn, granted, served>>

\* The storage of the photo is pointed elsewhere in the settings.
Repoint(p) ==
  /\ MayChange(p)
  /\ src' = [src EXCEPT ![p].scope = @ + 1]
  /\ Keep /\ UNCHANGED <<photos, reqs, drawn, granted, served>>

Vanish(p) ==
  /\ src[p].there
  /\ src' = [src EXCEPT ![p].there = FALSE]
  /\ Keep /\ UNCHANGED <<photos, reqs, drawn, granted, served>>

\* The process restarts: requests are gone, the tables stay.
Restart ==
  /\ \E r \in Request : reqs[r] # NoReq
  /\ reqs' = [r \in Request |-> NoReq]
  /\ Keep /\ UNCHANGED <<src, photos, drawn, granted, served>>
-----------------------------------------------------------------------------
Handle(r) == \/ Arrive(r) \/ AcquireSlot(r) \/ Open(r) \/ Copy(r) \/ Confirm(r)
             \/ FindPermit(r) \/ RetireStep(r) \/ GiveUp(r) \/ SaveShare(r) \/ SaveStop(r)
             \/ GetRead(r) \/ GetCheck(r) \/ MediaPhoto(r) \/ Recheck(r) \/ Finish(r)

Next == \/ \E r \in Request : \/ Handle(r)
                              \/ \E p \in Photo : \/ MediaRead(r, p)
                                                  \/ \E k \in {"create", "stop", "get"} : Form(r, k, p)
        \/ \E p \in Photo : \/ Publish(p) \/ PublishBroken(p) \/ Delete(p) \/ Insert(p)
                            \/ Overwrite(p) \/ Rewrite(p) \/ Repoint(p) \/ Vanish(p)
        \/ Restart

Spec == Init /\ [][Next]_vars
-----------------------------------------------------------------------------
\* A working link always belongs to a visible photo of the very version it was
\* granted for, in every state of the database: triggers and writeShare's own
\* check leave no gap between an index change and the end of the permit.
PermitMatchesIndex ==
  \A p \in Photo : Active(p) => /\ photos[p].there /\ photos[p].visible
                                /\ photos[p].version = shares[p].version

\* The types of permits and requests, and permits that match the index.
PermitInv == TypeOK /\ PermitMatchesIndex

\* A delayed or repeated "share" cannot undo a stop, a deletion or a change of
\* the photo that came after it was formed: it only succeeds if no permit of
\* the photo has ended since.
DelayedShareIsRefused ==
  [][\A r \in Request : At(r, {"create"}, "save") /\ reqs'[r].ok =>
       ended[reqs[r].photo] = reqs[r].ended]_vars

Permits == INSTANCE SharePermits
             WITH Token <- Tokens, NoPermit <- [token |-> 0, bytes |-> AnyBytes],
                  permit <- [p \in Photo |-> IF Active(p)
                                             THEN [token |-> shares[p].token, bytes |-> shares[p].bytes]
                                             ELSE [token |-> 0, bytes |-> AnyBytes]],
                  used <- granted

\* The handlers and the table implement SharePermits: visitors see exactly the
\* bytes a permit was granted for, only while it lasts, and no link comes back.
ImplementsSharePermits == Permits!SPSpec
=============================================================================
