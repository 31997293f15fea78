------------------------- MODULE PhotoSharesProofs -------------------------
(* Proofs about PhotoShares: for any photos, requests and contents, and any   *)
(* bounds on changes, tokens and generations.                                 *)
EXTENDS PhotoShares, TLAPS

\* A request that is not begun or was answered.
Over(q) == q.kind = "none" /\ q.pc \in {"idle", "done"}

\* A request on the way to a new permit, whose token is still its own.
Copying(q) == q.kind = "create" /\ q.pc \in {"formed", "slot", "open", "copy", "confirm", "save"}

\* A token is granted once, to one photo.
TokensAreFresh ==
  /\ \A n \in granted : n <= drawn
  /\ \A p \in Photo : Active(p) => shares[p].token \in granted
  /\ \A p, o \in Photo : Active(p) /\ shares[p].token = shares[o].token => p = o
  /\ \A r, s \in Request : Copying(reqs[r]) /\ Copying(reqs[s]) /\ reqs[r].token = reqs[s].token
                             => r = s

\* The generation tells a request to share whether a permit of its photo has ended:
\* not if the generation is its own, nor if the next one is that of a permit.
GenTells(q) ==
  LET cur == shares[q.photo]
  IN /\ q.gen <= cur.gen
     /\ cur.gen = q.gen \/ (cur.token # 0 /\ cur.gen = q.gen + 1) => ended[q.photo] = q.ended

\* What a visitor's request holds: a token once granted, and the bytes of its
\* permit; it comes to its last check only with these.
HoldsPermit(q) ==
  /\ q.token \in granted
  /\ \A p \in Photo : shares[p].token = q.token => shares[p].bytes = q.permit
  /\ q.pc = "recheck" => q.bytes = q.permit

ReqSound(q) ==
  /\ Over(q) \/ (q.kind # "none" /\ q.photo \in Photo /\ ~q.ok)
  /\ q.kind = "create" => GenTells(q)
  /\ Copying(q) => q.token \in 1..drawn /\ q.token \notin granted
  /\ q.kind = "media" => HoldsPermit(q)

RequestsAreSound == \A r \in Request : ReqSound(reqs[r])

ShareIInv == TypeOK /\ PermitMatchesIndex /\ TokensAreFresh /\ RequestsAreSound
-----------------------------------------------------------------------------
USE ShareConstants

LEMMA AnyBytesType == AnyBytes \in Bytes
  BY DEF AnyBytes

\* An answered request is a request without a kind.
LEMMA AnswerType ==
  ASSUME NEW ok \in BOOLEAN
  PROVE  /\ NoReq \in ReqState /\ [NoReq EXCEPT !.pc = "done", !.ok = ok] \in ReqState
         /\ Over(NoReq) /\ Over([NoReq EXCEPT !.pc = "done", !.ok = ok])
         /\ ~NoReq.ok /\ [NoReq EXCEPT !.pc = "done", !.ok = ok].ok = ok
  <1>1. NoReq \in ReqState
    <2>1. /\ "none" \in Kinds /\ "idle" \in Steps /\ 0 \in Photo \cup {0}
          /\ 0 \in {0} \cup Versions /\ 0 \in 0..MaxGen /\ 0 \in 0..MaxToken /\ 0 \in Nat
          /\ AnyBytes \in Bytes /\ FALSE \in BOOLEAN
      BY AnyBytesType DEF Kinds, Steps
    <2>. QED
      BY <2>1 DEF NoReq, ReqState
  <1>2. Over(NoReq) /\ ~NoReq.ok
    BY DEF NoReq, Over
  <1>3. "done" \in Steps
    BY DEF Steps
  <1>. HIDE DEF NoReq
  <1>4. [NoReq EXCEPT !.pc = "done", !.ok = ok] \in ReqState
    BY <1>1, <1>3 DEF ReqState
  <1>5. Over([NoReq EXCEPT !.pc = "done", !.ok = ok]) /\ [NoReq EXCEPT !.pc = "done", !.ok = ok].ok = ok
    BY <1>1, <1>2 DEF ReqState, Over
  <1>. QED
    BY <1>1, <1>2, <1>4, <1>5

\* The tables start without permits.
LEMMA ShareInit == Init => ShareIInv
  <1>. SUFFICES ASSUME Init PROVE ShareIInv
    OBVIOUS
  <1>1. src \in [Photo -> Object]
    BY DEF Init
  <1>2. /\ 1 \in Versions /\ 0 \in 0..MaxToken /\ 0 \in 0..MaxGen
        /\ shares \in [Photo -> Share] /\ photos \in [Photo -> PhotoRow]
    BY AnyBytesType DEF Init, Versions, Share, PhotoRow
  <1>3. reqs \in [Request -> ReqState] /\ \A r \in Request : Over(reqs[r])
    BY AnswerType DEF Init
  <1>4. TypeOK
    BY <1>1, <1>2, <1>3 DEF Init, TypeOK
  <1>5. \A p \in Photo : ~Active(p)
    BY DEF Init, Active
  <1>6. PermitMatchesIndex /\ TokensAreFresh /\ RequestsAreSound
    BY <1>3, <1>5 DEF PermitMatchesIndex, TokensAreFresh, RequestsAreSound, ReqSound, Over, Copying, Init
  <1>. QED
    BY <1>4, <1>6 DEF ShareIInv

\* A request goes on, or is answered, while the permits stay.
LEMMA RequestGoesOn ==
  ASSUME ShareIInv, NEW r \in Request, NEW q \in ReqState,
         reqs' = [reqs EXCEPT ![r] = q],
         UNCHANGED <<src, shares, ended, photos, granted, drawn, served>>,
         ReqSound(q), Copying(q) => Copying(reqs[r]) /\ q.token = reqs[r].token
  PROVE  ShareIInv'
  <1>1. reqs' \in [Request -> ReqState] /\ reqs'[r] = q /\ \A s \in Request : s # r => reqs'[s] = reqs[s]
    BY DEF ShareIInv, TypeOK
  <1>2. PermitMatchesIndex'
    BY DEF ShareIInv, PermitMatchesIndex, Active
  <1>3. TokensAreFresh'
    <2>1. \A s \in Request : Copying(reqs'[s]) => Copying(reqs[s]) /\ reqs'[s].token = reqs[s].token
      BY <1>1
    <2>2. \A s, t \in Request : Copying(reqs'[s]) /\ Copying(reqs'[t]) /\ reqs'[s].token = reqs'[t].token => s = t
      BY <2>1 DEF ShareIInv, TokensAreFresh
    <2>. QED
      BY <2>2 DEF ShareIInv, TokensAreFresh, Active, Over, Copying
  <1>4. RequestsAreSound'
    BY <1>1 DEF ShareIInv, RequestsAreSound, ReqSound, GenTells, HoldsPermit, Over, Copying
  <1>. QED
    BY <1>1, <1>2, <1>3, <1>4 DEF ShareIInv, TypeOK

\* A permit row is retired, by a request that is answered with it or by the index.
LEMMA RetireKeeps ==
  ASSUME ShareIInv, NEW p \in Photo, Retire(p), UNCHANGED <<granted, drawn>>,
         reqs' \in [Request -> ReqState],
         \A r \in Request : reqs'[r] = reqs[r] \/ Over(reqs'[r]),
         \A o \in Photo : o # p => photos'[o] = photos[o]
  PROVE  /\ shares' \in [Photo -> Share] /\ ended' \in [Photo -> Nat]
         /\ PermitMatchesIndex' /\ TokensAreFresh' /\ RequestsAreSound'
  <1>1. shares[p] \in Share /\ shares[p].gen \in Nat /\ ended[p] \in Nat
    BY DEF ShareIInv, TypeOK, Share
  <1>2. Retired(p) \in Share /\ Retired(p).token = 0 /\ Retired(p).gen = shares[p].gen + 1
    <2>1. 0 \in 0..MaxToken /\ shares[p].gen + 1 \in 0..MaxGen
      BY <1>1 DEF Retire, Share
    <2>. QED
      BY <1>1, <2>1 DEF Retired, Share
  <1>3. /\ shares' \in [Photo -> Share] /\ shares'[p] = Retired(p)
        /\ \A o \in Photo : o # p => shares'[o] = shares[o]
    BY <1>2 DEF Retire, ShareIInv, TypeOK
  <1>4. /\ ended' \in [Photo -> Nat] /\ ended'[p] = (IF shares[p].token # 0 THEN ended[p] + 1 ELSE ended[p])
        /\ \A o \in Photo : o # p => ended'[o] = ended[o]
    BY <1>1 DEF Retire, Active, ShareIInv, TypeOK
  <1>5. PermitMatchesIndex'
    BY <1>2, <1>3 DEF ShareIInv, PermitMatchesIndex, Active
  <1>6. TokensAreFresh'
    BY <1>2, <1>3 DEF ShareIInv, TokensAreFresh, Active, Over, Copying
  <1>7. RequestsAreSound'
    <2>. SUFFICES ASSUME NEW r \in Request, reqs'[r] = reqs[r]
                  PROVE  ReqSound(reqs[r])'
      BY DEF RequestsAreSound, ReqSound, Over, Copying
    <2>1. ReqSound(reqs[r]) /\ reqs[r] \in ReqState
      BY DEF ShareIInv, RequestsAreSound, TypeOK
    <2>2. reqs[r].kind = "create" => GenTells(reqs[r])'
      <3>. SUFFICES ASSUME reqs[r].kind = "create" PROVE GenTells(reqs[r])'
        OBVIOUS
      <3>1. GenTells(reqs[r]) /\ reqs[r].photo \in Photo /\ reqs[r].gen \in Nat
        BY <2>1 DEF ReqSound, ReqState, Over
      <3>2. CASE reqs[r].photo = p
        BY <1>1, <1>2, <1>3, <1>4, <3>1, <3>2 DEF GenTells
      <3>3. CASE reqs[r].photo # p
        BY <1>3, <1>4, <3>1, <3>3 DEF GenTells
      <3>. QED
        BY <3>2, <3>3
    <2>3. reqs[r].kind = "media" => HoldsPermit(reqs[r])'
      <3>. SUFFICES ASSUME reqs[r].kind = "media" PROVE HoldsPermit(reqs[r])'
        OBVIOUS
      <3>1. HoldsPermit(reqs[r]) /\ reqs[r].token # 0
        BY <2>1 DEF ReqSound, HoldsPermit, ShareIInv, TypeOK, Tokens
      <3>. QED
        BY <1>2, <1>3, <3>1 DEF HoldsPermit
    <2>. QED
      BY <2>1, <2>2, <2>3 DEF ReqSound, Over, Copying
  <1>. QED
    BY <1>3, <1>4, <1>5, <1>6, <1>7

\* A step that only moves the source or rows without a permit.
LEMMA PermitsStay ==
  ASSUME ShareIInv, UNCHANGED <<shares, ended, granted, drawn>>,
         reqs' \in [Request -> ReqState],
         \A r \in Request : reqs'[r] = reqs[r] \/ Over(reqs'[r]),
         \A p \in Photo : Active(p) => /\ photos'[p].there /\ photos'[p].visible
                                       /\ photos'[p].version = photos[p].version
  PROVE  PermitMatchesIndex' /\ TokensAreFresh' /\ RequestsAreSound'
  <1>1. PermitMatchesIndex'
    BY DEF ShareIInv, PermitMatchesIndex, Active
  <1>2. TokensAreFresh'
    BY DEF ShareIInv, TokensAreFresh, Active, Over, Copying
  <1>3. RequestsAreSound'
    BY DEF ShareIInv, RequestsAreSound, ReqSound, GenTells, HoldsPermit, Over, Copying
  <1>. QED
    BY <1>1, <1>2, <1>3

\* A request is answered while the permits stay.
LEMMA AnswerKeeps ==
  ASSUME ShareIInv, NEW r \in Request, NEW ok \in BOOLEAN, Answer(r, ok),
         UNCHANGED <<src, shares, ended, photos, granted, drawn, served>>
  PROVE  ShareIInv'
  <1>. DEFINE q == [NoReq EXCEPT !.pc = "done", !.ok = ok]
  <1>1. q \in ReqState /\ Over(q) /\ reqs' = [reqs EXCEPT ![r] = q]
    BY AnswerType DEF Answer
  <1>. HIDE DEF q
  <1>2. ReqSound(q) /\ ~Copying(q)
    BY <1>1 DEF ReqSound, Over, Copying
  <1>. QED
    BY <1>1, <1>2, RequestGoesOn

\* A request takes its next step, with nothing but its place changed.
LEMMA GotoKeeps ==
  ASSUME ShareIInv, NEW r \in Request, NEW s \in Steps, ~Over(reqs[r]), Goto(r, s),
         UNCHANGED <<src, shares, ended, photos, granted, drawn, served>>,
         Copying([reqs[r] EXCEPT !.pc = s]) => Copying(reqs[r]),
         reqs[r].kind = "media" /\ s = "recheck" => reqs[r].bytes = reqs[r].permit
  PROVE  ShareIInv'
  <1>. DEFINE q == [reqs[r] EXCEPT !.pc = s]
  <1>1. reqs[r] \in ReqState /\ ReqSound(reqs[r])
    BY DEF ShareIInv, TypeOK, RequestsAreSound
  <1>2. /\ q \in ReqState /\ q.pc = s /\ q.kind = reqs[r].kind /\ q.photo = reqs[r].photo
        /\ q.gen = reqs[r].gen /\ q.ended = reqs[r].ended /\ q.token = reqs[r].token
        /\ q.bytes = reqs[r].bytes /\ q.permit = reqs[r].permit /\ q.ok = reqs[r].ok
    BY <1>1 DEF ReqState
  <1>3. reqs' = [reqs EXCEPT ![r] = q]
    BY DEF Goto, ShareIInv, TypeOK
  <1>. HIDE DEF q
  <1>4. Copying(q) => Copying(reqs[r])
    BY DEF q
  <1>5. ReqSound(q)
    BY <1>1, <1>2, <1>4 DEF ReqSound, GenTells, HoldsPermit
  <1>. QED
    BY <1>2, <1>3, <1>4, <1>5, RequestGoesOn

\* The source has changed: the request goes on to retire a permit, and no copy
\* of it is on the way any more.
LEMMA ChangedKeeps ==
  ASSUME ShareIInv, NEW r \in Request, ~Over(reqs[r]), Changed(r),
         UNCHANGED <<src, shares, ended, photos, granted, drawn, served>>
  PROVE  ShareIInv'
  <1>. DEFINE s == IF reqs[r].kind = "create" THEN "lookup" ELSE "retire"
              n == IF reqs[r].kind = "create" THEN 0 ELSE reqs[r].token
              q == [reqs[r] EXCEPT !.pc = s, !.token = n, !.scope = 0, !.bytes = AnyBytes]
  <1>1. reqs[r] \in ReqState /\ ReqSound(reqs[r])
    BY DEF ShareIInv, TypeOK, RequestsAreSound
  <1>2. /\ s \in Steps /\ s \in {"lookup", "retire"}
        /\ n \in 0..MaxToken /\ (reqs[r].kind # "create" => n = reqs[r].token)
    BY <1>1 DEF Steps, ReqState
  <1>3. reqs' = [reqs EXCEPT ![r] = q]
    BY DEF Changed
  <1>. HIDE DEF s, n
  <1>4. /\ q \in ReqState /\ q.pc = s /\ q.kind = reqs[r].kind /\ q.photo = reqs[r].photo
        /\ q.gen = reqs[r].gen /\ q.ended = reqs[r].ended /\ q.ok = reqs[r].ok
        /\ q.permit = reqs[r].permit /\ q.token = n
    BY <1>1, <1>2, AnyBytesType DEF ReqState
  <1>. HIDE DEF q
  <1>5. ~Copying(q)
    BY <1>2, <1>4 DEF Copying
  <1>6. ReqSound(q)
    BY <1>1, <1>2, <1>4, <1>5 DEF ReqSound, GenTells, HoldsPermit
  <1>. QED
    BY <1>3, <1>4, <1>5, <1>6, RequestGoesOn

\* A request that has found the permit to retire.
LEMMA FindPermitKeeps ==
  ASSUME ShareIInv, NEW r \in Request, FindPermit(r)
  PROVE  ShareIInv'
  <1>. DEFINE n == shares[reqs[r].photo].token
              q == [reqs[r] EXCEPT !.pc = "retire", !.token = n]
  <1>1. /\ reqs[r] \in ReqState /\ ReqSound(reqs[r]) /\ reqs[r].photo \in Photo
        /\ reqs[r].kind = "create" /\ reqs[r].pc = "lookup"
    BY DEF FindPermit, At, ShareIInv, TypeOK, RequestsAreSound, ReqSound, Over
  <1>2. n \in 0..MaxToken
    BY <1>1 DEF ShareIInv, TypeOK, Share
  <1>3. reqs' = [reqs EXCEPT ![r] = q]
    BY DEF FindPermit, ShareIInv, TypeOK
  <1>. HIDE DEF n
  <1>4. /\ q \in ReqState /\ q.pc = "retire" /\ q.kind = "create" /\ q.photo = reqs[r].photo
        /\ q.gen = reqs[r].gen /\ q.ended = reqs[r].ended /\ q.ok = reqs[r].ok
        /\ q.permit = reqs[r].permit
    BY <1>1, <1>2 DEF ReqState, Steps
  <1>. HIDE DEF q
  <1>5. ~Copying(q)
    BY <1>4 DEF Copying
  <1>6. GenTells(reqs[r]) /\ ~reqs[r].ok
    BY <1>1 DEF ReqSound, Over
  <1>7. GenTells(q)
    BY <1>4, <1>6 DEF GenTells
  <1>8. ReqSound(q)
    BY <1>1, <1>4, <1>5, <1>6, <1>7 DEF ReqSound
  <1>. QED
    BY <1>3, <1>4, <1>5, <1>8, RequestGoesOn DEF FindPermit, Keep

\* The steps of a request that leave the tables alone.
LEMMA ReadSteps ==
  ASSUME ShareIInv, NEW r \in Request,
         \/ Arrive(r) \/ AcquireSlot(r) \/ Open(r) \/ Copy(r) \/ Confirm(r)
         \/ GiveUp(r) \/ GetRead(r) \/ GetCheck(r) \/ MediaPhoto(r)
  PROVE  ShareIInv'
  <1>. USE DEF Keep, At, Fail
  <1>0. reqs[r] \in ReqState /\ ReqSound(reqs[r])
    BY DEF ShareIInv, TypeOK, RequestsAreSound
  <1>1. CASE Arrive(r)
    <2>1. CASE Fail(r)
      BY <1>1, <2>1, AnswerKeeps DEF Arrive
    <2>2. CASE Goto(r, IF reqs[r].kind = "create" THEN "slot" ELSE "save")
      BY <1>0, <1>1, <2>2, GotoKeeps DEF Arrive, Copying, Over, Steps, ReqState
    <2>. QED
      BY <1>1, <2>1, <2>2 DEF Arrive
  <1>2. CASE AcquireSlot(r)
    BY <1>0, <1>2, GotoKeeps DEF AcquireSlot, Copying, Over, Steps, ReqState
  <1>3. CASE Open(r)
    <2>. DEFINE q == [reqs[r] EXCEPT !.pc = "copy", !.scope = Object0(r).scope]
    <2>1. CASE Changed(r)
      BY <1>3, <2>1, ChangedKeeps DEF Open, Over
    <2>2. CASE reqs' = [reqs EXCEPT ![r].pc = "copy", ![r].scope = Object0(r).scope]
      <3>1. Object0(r).scope \in Versions
        BY <1>0, <1>3 DEF Open, ReqSound, Over, ShareIInv, TypeOK, Object, Object0
      <3>2. /\ q \in ReqState /\ q.pc = "copy" /\ q.kind = reqs[r].kind /\ q.photo = reqs[r].photo
            /\ q.gen = reqs[r].gen /\ q.ended = reqs[r].ended /\ q.token = reqs[r].token
            /\ q.permit = reqs[r].permit /\ q.ok = reqs[r].ok
        BY <1>0, <3>1 DEF ReqState, Steps
      <3>3. reqs' = [reqs EXCEPT ![r] = q]
        BY <2>2 DEF ShareIInv, TypeOK
      <3>. HIDE DEF q
      <3>4. ReqSound(q) /\ (Copying(q) => Copying(reqs[r]))
        BY <1>0, <1>3, <3>2 DEF Open, ReqSound, GenTells, HoldsPermit, Over, Copying
      <3>. QED
        BY <1>3, <3>2, <3>3, <3>4, RequestGoesOn DEF Open
    <2>. QED
      BY <1>3, <2>1, <2>2 DEF Open
  <1>4. CASE Copy(r)
    <2>. DEFINE q == [reqs[r] EXCEPT !.pc = "confirm", !.bytes = Object0(r).bytes]
    <2>1. CASE Changed(r)
      BY <1>4, <2>1, ChangedKeeps DEF Copy, Over
    <2>2. CASE reqs' = [reqs EXCEPT ![r].pc = "confirm", ![r].bytes = Object0(r).bytes]
      <3>1. Object0(r).bytes \in Bytes
        BY <1>0, <1>4 DEF Copy, ReqSound, Over, ShareIInv, TypeOK, Object, Object0
      <3>2. /\ q \in ReqState /\ q.pc = "confirm" /\ q.kind = reqs[r].kind /\ q.photo = reqs[r].photo
            /\ q.gen = reqs[r].gen /\ q.ended = reqs[r].ended /\ q.token = reqs[r].token
            /\ q.permit = reqs[r].permit /\ q.ok = reqs[r].ok
        BY <1>0, <3>1 DEF ReqState, Steps
      <3>3. reqs' = [reqs EXCEPT ![r] = q]
        BY <2>2 DEF ShareIInv, TypeOK
      <3>. HIDE DEF q
      <3>4. ReqSound(q) /\ (Copying(q) => Copying(reqs[r]))
        BY <1>0, <1>4, <3>2 DEF Copy, ReqSound, GenTells, HoldsPermit, Over, Copying
      <3>. QED
        BY <1>4, <3>2, <3>3, <3>4, RequestGoesOn DEF Copy
    <2>. QED
      BY <1>4, <2>1, <2>2 DEF Copy
  <1>5. CASE Confirm(r)
    <2>1. CASE Changed(r)
      BY <1>5, <2>1, ChangedKeeps DEF Confirm, Over
    <2>2. CASE ~Changed(r)
      <3>. DEFINE s == IF reqs[r].kind = "create" THEN "save" ELSE "recheck"
      <3>1. Goto(r, s)
        BY <1>5, <2>2 DEF Confirm
      <3>2. s \in Steps /\ (Copying([reqs[r] EXCEPT !.pc = s]) => Copying(reqs[r]))
        BY <1>0, <1>5 DEF Confirm, Copying, ReqState, Steps
      <3>3. reqs[r].kind = "media" /\ s = "recheck" => reqs[r].bytes = reqs[r].permit
        BY <1>5, <2>2 DEF Confirm
      <3>. HIDE DEF s
      <3>. QED
        BY <1>5, <3>1, <3>2, <3>3, GotoKeeps DEF Confirm, Over
    <2>. QED
      BY <2>1, <2>2
  <1>6. CASE GiveUp(r)
    BY <1>6, AnswerKeeps DEF GiveUp
  <1>7. CASE GetRead(r)
    <2>. DEFINE p == reqs[r].photo
                q == [reqs[r] EXCEPT !.pc = "source", !.token = shares[p].token,
                        !.version = shares[p].version, !.permitScope = shares[p].scope]
    <2>1. CASE Fail(r) \/ Answer(r, TRUE)
      BY <1>7, <2>1, AnswerKeeps DEF GetRead
    <2>2. CASE reqs' = [reqs EXCEPT ![r].pc = "source", ![r].token = shares[p].token,
                          ![r].version = shares[p].version, ![r].permitScope = shares[p].scope]
      <3>1. shares[p] \in Share /\ p \in Photo
        BY <1>0, <1>7 DEF GetRead, ReqSound, Over, ShareIInv, TypeOK
      <3>2. /\ shares[p].token \in 0..MaxToken /\ shares[p].version \in {0} \cup Versions
            /\ shares[p].scope \in {0} \cup Versions
        BY <3>1 DEF Share
      <3>3. q \in ReqState /\ q.kind = "get" /\ q.photo = p /\ q.ok = reqs[r].ok
        BY <1>0, <1>7, <3>2 DEF GetRead, ReqState, Steps
      <3>4. reqs' = [reqs EXCEPT ![r] = q]
        BY <2>2 DEF ShareIInv, TypeOK
      <3>. HIDE DEF q
      <3>5. ReqSound(q) /\ ~Copying(q)
        BY <1>0, <1>7, <3>1, <3>3 DEF GetRead, Over, ReqSound, Copying
      <3>. QED
        BY <1>7, <3>3, <3>4, <3>5, RequestGoesOn DEF GetRead
    <2>. QED
      BY <1>7, <2>1, <2>2 DEF GetRead
  <1>8. CASE GetCheck(r)
    <2>1. CASE Answer(r, TRUE)
      BY <1>8, <2>1, AnswerKeeps DEF GetCheck
    <2>2. CASE Goto(r, "retire")
      BY <1>0, <1>8, <2>2, GotoKeeps DEF GetCheck, Copying, Over, Steps, ReqState
    <2>. QED
      BY <1>8, <2>1, <2>2 DEF GetCheck
  <1>9. CASE MediaPhoto(r)
    BY <1>0, <1>9, GotoKeeps DEF MediaPhoto, Copying, Over, Steps, ReqState
  <1>. QED
    BY <1>1, <1>2, <1>3, <1>4, <1>5, <1>6, <1>7, <1>8, <1>9

\* A request ends and retires a permit with its answer.
LEMMA RetireAndAnswer ==
  ASSUME ShareIInv, NEW r \in Request, NEW p \in Photo, NEW ok \in BOOLEAN, Retire(p), Answer(r, ok),
         UNCHANGED <<src, photos, drawn, granted, served>>
  PROVE  ShareIInv'
  <1>1. reqs' \in [Request -> ReqState] /\ \A s \in Request : reqs'[s] = reqs[s] \/ Over(reqs'[s])
    BY AnswerType DEF Answer, ShareIInv, TypeOK
  <1>. QED
    BY <1>1, RetireKeeps DEF ShareIInv, TypeOK

LEMMA RetireStepKeeps ==
  ASSUME ShareIInv, NEW r \in Request, RetireStep(r)
  PROVE  ShareIInv'
  <1>1. Answer(r, reqs[r].kind = "get") /\ UNCHANGED <<src, photos, drawn, granted, served>>
    BY DEF RetireStep
  <1>2. CASE Keep
    BY <1>1, <1>2, AnswerKeeps DEF Keep
  <1>3. CASE ~Keep
    <2>1. PICK p \in Photo : Retire(p)
      BY <1>3 DEF RetireStep, RetireToken
    <2>. QED
      BY <1>1, <2>1, RetireAndAnswer
  <1>. QED
    BY <1>2, <1>3

\* A permit is granted: its token is new, its photo is the one of the index, and
\* the generation moves on without an end.
LEMMA GrantKeeps ==
  ASSUME ShareIInv, NEW r \in Request, At(r, {"create"}, "save"), Selected(r),
         ~Active(reqs[r].photo), shares[reqs[r].photo].gen < MaxGen,
         shares' = [shares EXCEPT ![reqs[r].photo] = Granted(r)],
         granted' = granted \cup {reqs[r].token},
         Answer(r, TRUE), UNCHANGED <<src, photos, drawn, ended, served>>
  PROVE  ShareIInv'
  <1>. DEFINE p == reqs[r].photo
              n == reqs[r].token
              new == Granted(r)
  <1>1. /\ reqs[r] \in ReqState /\ Copying(reqs[r]) /\ p \in Photo
        /\ n \in 1..drawn /\ n \notin granted
    BY DEF ShareIInv, TypeOK, RequestsAreSound, ReqSound, Over, At, Copying
  <1>2. /\ shares[p].gen + 1 \in 0..MaxGen /\ n \in 0..MaxToken /\ n \in Tokens /\ n # 0
        /\ drawn \in Nat /\ n <= drawn
    BY <1>1 DEF ShareIInv, TypeOK, Share, Tokens
  <1>3. /\ new \in Share /\ new.token = n /\ new.gen = shares[p].gen + 1
        /\ new.version = reqs[r].version
    BY <1>1, <1>2 DEF Granted, Share, ReqState
  <1>. HIDE DEF new
  <1>4. /\ shares' = [shares EXCEPT ![p] = new] /\ shares' \in [Photo -> Share]
        /\ shares'[p] = new /\ \A o \in Photo : o # p => shares'[o] = shares[o]
    BY <1>1, <1>3 DEF new, ShareIInv, TypeOK
  <1>5. /\ reqs' \in [Request -> ReqState] /\ Over(reqs'[r])
        /\ \A s \in Request : s # r => reqs'[s] = reqs[s]
    BY AnswerType DEF Answer, ShareIInv, TypeOK
  <1>6. TypeOK'
    BY <1>2, <1>4, <1>5 DEF ShareIInv, TypeOK
  <1>7. PermitMatchesIndex'
    BY <1>3, <1>4 DEF ShareIInv, PermitMatchesIndex, Active, Selected
  <1>8. TokensAreFresh'
    <2>1. \A o \in Photo : o # p /\ Active(o) => shares[o].token # n
      BY <1>1 DEF ShareIInv, TokensAreFresh
    <2>2. \A o, m \in Photo : Active(o)' /\ shares'[o].token = shares'[m].token => o = m
      BY <1>2, <1>3, <1>4, <2>1 DEF ShareIInv, TokensAreFresh, Active
    <2>3. \A s, t \in Request : Copying(reqs'[s]) /\ Copying(reqs'[t]) /\ reqs'[s].token = reqs'[t].token => s = t
      BY <1>5 DEF ShareIInv, TokensAreFresh, Over, Copying
    <2>4. \A m \in granted' : m <= drawn'
      BY <1>2 DEF ShareIInv, TokensAreFresh
    <2>5. \A o \in Photo : Active(o)' => shares'[o].token \in granted'
      BY <1>3, <1>4 DEF ShareIInv, TokensAreFresh, Active
    <2>. QED
      BY <2>2, <2>3, <2>4, <2>5 DEF TokensAreFresh, Copying
  <1>9. RequestsAreSound'
    <2>. SUFFICES ASSUME NEW s \in Request, s # r
                  PROVE  ReqSound(reqs[s])'
      BY <1>5 DEF RequestsAreSound, ReqSound, Over, Copying
    <2>1. ReqSound(reqs[s]) /\ reqs[s] \in ReqState /\ reqs'[s] = reqs[s]
      BY <1>5 DEF ShareIInv, RequestsAreSound, TypeOK
    <2>2. reqs[s].kind = "create" => GenTells(reqs[s])'
      <3>. SUFFICES ASSUME reqs[s].kind = "create" PROVE GenTells(reqs[s])'
        OBVIOUS
      <3>1. /\ GenTells(reqs[s]) /\ reqs[s].photo \in Photo /\ reqs[s].gen \in Nat
            /\ shares[p].gen \in Nat /\ shares[p].token = 0
        BY <1>1, <2>1 DEF ReqSound, Over, ReqState, ShareIInv, TypeOK, Share, Active
      <3>2. CASE reqs[s].photo = p
        BY <1>3, <1>4, <2>1, <3>1, <3>2 DEF GenTells
      <3>3. CASE reqs[s].photo # p
        BY <1>4, <2>1, <3>1, <3>3 DEF GenTells
      <3>. QED
        BY <3>2, <3>3
    <2>3. Copying(reqs[s]) => reqs[s].token # n
      BY <1>1 DEF ShareIInv, TokensAreFresh
    <2>4. reqs[s].kind = "media" => HoldsPermit(reqs[s])'
      <3>. SUFFICES ASSUME reqs[s].kind = "media" PROVE HoldsPermit(reqs[s])'
        OBVIOUS
      <3>1. HoldsPermit(reqs[s]) /\ reqs[s].token # n
        BY <1>1, <2>1 DEF ReqSound, HoldsPermit
      <3>. QED
        BY <1>3, <1>4, <2>1, <3>1 DEF HoldsPermit
    <2>. QED
      BY <2>1, <2>2, <2>3, <2>4 DEF ReqSound, Over, Copying
  <1>. QED
    BY <1>6, <1>7, <1>8, <1>9 DEF ShareIInv

LEMMA SaveShareKeeps ==
  ASSUME ShareIInv, NEW r \in Request, SaveShare(r)
  PROVE  ShareIInv'
  <1>. DEFINE p == reqs[r].photo
  <1>1. p \in Photo
    BY DEF ShareIInv, RequestsAreSound, ReqSound, Over, SaveShare, At
  <1>2. CASE UNCHANGED <<shares, ended, granted>> /\ \E ok \in BOOLEAN : Answer(r, ok)
    BY <1>2, AnswerKeeps DEF SaveShare
  <1>3. CASE Retire(p) /\ Fail(r) /\ UNCHANGED granted
    BY <1>1, <1>3, RetireAndAnswer DEF SaveShare, Fail
  <1>4. CASE /\ Selected(r) /\ ~Active(p) /\ shares[p].gen < MaxGen
             /\ shares' = [shares EXCEPT ![p] = Granted(r)]
             /\ granted' = granted \cup {reqs[r].token}
             /\ Answer(r, TRUE) /\ UNCHANGED ended
    BY <1>4, GrantKeeps DEF SaveShare
  <1>. QED
    BY <1>2, <1>3, <1>4 DEF SaveShare, Keep, Fail

LEMMA SaveStopKeeps ==
  ASSUME ShareIInv, NEW r \in Request, SaveStop(r)
  PROVE  ShareIInv'
  <1>1. reqs[r].photo \in Photo
    BY DEF ShareIInv, RequestsAreSound, ReqSound, Over, SaveStop, At
  <1>2. CASE Keep /\ \E ok \in BOOLEAN : Answer(r, ok)
    BY <1>2, AnswerKeeps DEF SaveStop, Keep
  <1>3. CASE Retire(reqs[r].photo) /\ Answer(r, TRUE)
    BY <1>1, <1>3, RetireAndAnswer DEF SaveStop
  <1>. QED
    BY <1>2, <1>3 DEF SaveStop, Fail

\* A visitor's last check: the bytes go out while the token is a permit's.
LEMMA RecheckKeeps ==
  ASSUME ShareIInv, NEW r \in Request, Recheck(r)
  PROVE  ShareIInv'
  <1>. USE DEF Recheck, Keep, Fail
  <1>1. reqs' \in [Request -> ReqState] /\ \A s \in Request : reqs'[s] = reqs[s] \/ Over(reqs'[s])
    BY AnswerType DEF Answer, ShareIInv, TypeOK
  <1>2. reqs[r].token \in Tokens /\ reqs[r].bytes \in Bytes
    BY DEF ShareIInv, TypeOK, ReqState, RequestsAreSound, ReqSound, HoldsPermit, At
  <1>3. served' \in SUBSET (Tokens \X Bytes)
    <2>1. <<reqs[r].token, reqs[r].bytes>> \in Tokens \X Bytes
      BY <1>2
    <2>. QED
      BY <2>1 DEF Serve, ShareIInv, TypeOK
  <1>. QED
    BY <1>1, <1>3, PermitsStay DEF ShareIInv, TypeOK, PermitMatchesIndex

\* An answered request makes room for another; a restart drops all of them.
LEMMA EndKeeps ==
  ASSUME ShareIInv, (\E r \in Request : Finish(r)) \/ Restart
  PROVE  ShareIInv'
  <1>1. reqs' \in [Request -> ReqState] /\ \A s \in Request : reqs'[s] = reqs[s] \/ Over(reqs'[s])
    BY AnswerType DEF Finish, Restart, ShareIInv, TypeOK
  <1>2. UNCHANGED <<src, photos, shares, ended, granted, drawn, served>>
    BY DEF Finish, Restart, Keep
  <1>. QED
    BY <1>1, <1>2, PermitsStay DEF ShareIInv, TypeOK, PermitMatchesIndex

\* The browser forms a request: one to share draws a token nobody has.
LEMMA FormKeeps ==
  ASSUME ShareIInv, NEW r \in Request, NEW p \in Photo, NEW k \in {"create", "stop", "get"},
         Form(r, k, p)
  PROVE  ShareIInv'
  <1>. DEFINE n == IF k = "create" THEN drawn + 1 ELSE 0
  <1>1. /\ photos[p].version \in {0} \cup Versions /\ shares[p].gen \in 0..MaxGen
        /\ ended[p] \in Nat /\ shares[p].token \in 0..MaxToken
        /\ drawn \in 0..MaxToken
        /\ k = "create" => drawn + 1 \in 1..MaxToken
    BY DEF Form, ShareIInv, TypeOK, PhotoRow, Share
  <1>2. n \in 0..MaxToken
    BY <1>1
  <1>3. PICK q \in ReqState :
           /\ reqs' = [reqs EXCEPT ![r] = q]
           /\ q.kind = k /\ q.pc = "formed" /\ q.photo = p /\ q.token = n
           /\ q.gen = shares[p].gen /\ q.ended = ended[p] /\ ~q.ok
    <2>. DEFINE new == [NoReq EXCEPT !.kind = k, !.pc = "formed", !.photo = p, !.version = photos[p].version,
                                     !.gen = shares[p].gen, !.ended = ended[p], !.token = n]
    <2>1. k \in Kinds /\ "formed" \in Steps
      BY DEF Kinds, Steps
    <2>2. NoReq \in ReqState
      BY AnswerType
    <2>3. reqs' = [reqs EXCEPT ![r] = new]
      BY DEF Form
    <2>4. /\ new \in ReqState /\ new.kind = k /\ new.pc = "formed" /\ new.photo = p /\ new.token = n
          /\ new.gen = shares[p].gen /\ new.ended = ended[p] /\ new.ok = NoReq.ok
      <3>. HIDE DEF n, NoReq
      <3>. QED
        BY <1>1, <1>2, <2>1, <2>2 DEF ReqState
    <2>. HIDE DEF new
    <2>. QED
      BY <2>3, <2>4 DEF NoReq
  <1>5. /\ reqs' \in [Request -> ReqState] /\ reqs'[r] = q
        /\ \A s \in Request : s # r => reqs'[s] = reqs[s]
    BY <1>3 DEF ShareIInv, TypeOK
  <1>6. /\ UNCHANGED <<src, photos, shares, ended, granted, served>>
        /\ drawn' = IF k = "create" THEN drawn + 1 ELSE drawn
    BY DEF Form, Keep
  <1>7. TypeOK' /\ PermitMatchesIndex'
    BY <1>1, <1>5, <1>6 DEF ShareIInv, TypeOK, PermitMatchesIndex, Active
  <1>8. \A m \in granted : m <= drawn /\ m \in Nat
    BY DEF ShareIInv, TypeOK, TokensAreFresh, Tokens
  <1>9. TokensAreFresh'
    <2>1. \A m \in granted' : m <= drawn'
      BY <1>1, <1>6, <1>8
    <2>2. \A s \in Request : Copying(reqs[s]) => reqs[s].token \in 1..drawn
      BY DEF ShareIInv, RequestsAreSound, ReqSound
    <2>3. Copying(q) => q.token = drawn + 1
      BY <1>3 DEF Copying
    <2>4. \A s, t \in Request : Copying(reqs'[s]) /\ Copying(reqs'[t]) /\ reqs'[s].token = reqs'[t].token => s = t
      BY <1>1, <1>5, <2>2, <2>3 DEF ShareIInv, TokensAreFresh
    <2>. QED
      BY <1>6, <2>1, <2>4 DEF ShareIInv, TokensAreFresh, Active, Copying
  <1>10. RequestsAreSound'
    <2>1. ReqSound(q)'
      BY <1>1, <1>3, <1>6, <1>8 DEF ReqSound, GenTells, Over, Copying
    <2>2. ASSUME NEW s \in Request, s # r PROVE (ReqSound(reqs[s]))'
      <3>1. ReqSound(reqs[s]) /\ reqs'[s] = reqs[s] /\ 1..drawn \subseteq 1..drawn'
        BY <1>1, <1>5, <1>6, <2>2 DEF ShareIInv, RequestsAreSound
      <3>. QED
        BY <1>6, <3>1 DEF ReqSound, GenTells, HoldsPermit, Over, Copying, Active
    <2>. QED
      BY <1>5, <2>1, <2>2 DEF RequestsAreSound
  <1>. QED
    BY <1>7, <1>9, <1>10 DEF ShareIInv

\* A visitor's request holds the permit its token was found with.
LEMMA MediaReadKeeps ==
  ASSUME ShareIInv, NEW r \in Request, NEW p \in Photo, MediaRead(r, p)
  PROVE  ShareIInv'
  <1>. DEFINE q == [NoReq EXCEPT !.kind = "media", !.pc = "photo", !.photo = p, !.token = shares[p].token,
                                 !.version = shares[p].version, !.permit = shares[p].bytes,
                                 !.permitScope = shares[p].scope]
  <1>1. /\ shares[p].version \in {0} \cup Versions /\ shares[p].token \in 0..MaxToken
        /\ shares[p].bytes \in Bytes /\ shares[p].scope \in {0} \cup Versions
    BY DEF ShareIInv, TypeOK, Share
  <1>2. /\ q \in ReqState /\ q.kind = "media" /\ q.pc = "photo" /\ q.photo = p
        /\ q.token = shares[p].token /\ q.permit = shares[p].bytes /\ q.ok = NoReq.ok
    <2>1. "media" \in Kinds /\ "photo" \in Steps
      BY DEF Kinds, Steps
    <2>2. NoReq \in ReqState
      BY AnswerType
    <2>. HIDE DEF NoReq
    <2>. QED
      BY <1>1, <2>1, <2>2 DEF ReqState
  <1>3. reqs' = [reqs EXCEPT ![r] = q] /\ UNCHANGED <<src, shares, ended, photos, granted, drawn, served>>
    BY DEF MediaRead, Keep
  <1>. HIDE DEF q
  <1>4. ~Copying(q)
    BY <1>2 DEF Copying
  <1>5. ReqSound(q)
    BY <1>2, <1>4 DEF NoReq, ReqSound, HoldsPermit, MediaRead, Active, ShareIInv, TokensAreFresh
  <1>. QED
    BY <1>2, <1>3, <1>4, <1>5, RequestGoesOn

\* The index follows the source: a permit ends with the version it was granted for.
LEMMA IndexKeeps ==
  ASSUME ShareIInv, NEW p \in Photo, Publish(p) \/ PublishBroken(p) \/ Delete(p) \/ Insert(p)
  PROVE  ShareIInv'
  <1>1. /\ UNCHANGED <<src, reqs, drawn, granted, served>>
        /\ \A o \in Photo : o # p => photos'[o] = photos[o]
    BY DEF Publish, PublishBroken, Delete, Insert, ShareIInv, TypeOK
  <1>2. photos' \in [Photo -> PhotoRow]
    <2>1. photos[p] \in PhotoRow /\ src[p].version \in Versions
      BY DEF ShareIInv, TypeOK, Object
    <2>2. NoPhoto \in PhotoRow
      BY DEF NoPhoto, PhotoRow
    <2>3. [photos[p] EXCEPT !.version = src[p].version, !.visible = TRUE] \in PhotoRow
      BY <2>1 DEF PhotoRow
    <2>4. [photos[p] EXCEPT !.version = src[p].version, !.visible = FALSE] \in PhotoRow
      BY <2>1 DEF PhotoRow
    <2>5. [photos[p] EXCEPT !.there = TRUE] \in PhotoRow
      BY <2>1 DEF PhotoRow
    <2>. QED
      BY <2>2, <2>3, <2>4, <2>5 DEF Publish, PublishBroken, Delete, Insert, ShareIInv, TypeOK
  <1>3. CASE Retire(p)
    BY <1>1, <1>2, <1>3, RetireKeeps DEF ShareIInv, TypeOK
  <1>4. CASE Keep
    <2>1. \A o \in Photo : Active(o) => /\ photos'[o].there /\ photos'[o].visible
                                        /\ photos'[o].version = photos[o].version
      <3>1. Publish(p) \/ Insert(p) \/ Retire(p)
        BY DEF PublishBroken, Delete
      <3>2. photos[p] \in PhotoRow
        BY DEF ShareIInv, TypeOK
      <3>3. CASE Publish(p) /\ photos[p].version = src[p].version
        <4>1. photos'[p] = [photos[p] EXCEPT !.version = src[p].version, !.visible = TRUE]
          BY <3>3 DEF Publish, ShareIInv, TypeOK
        <4>2. photos'[p].there = photos[p].there /\ photos'[p].visible
              /\ photos'[p].version = photos[p].version
          BY <3>2, <3>3, <4>1 DEF PhotoRow
        <4>. QED
          BY <1>1, <4>2 DEF ShareIInv, PermitMatchesIndex
      <3>4. CASE Insert(p)
        BY <1>1, <3>4 DEF Insert, ShareIInv, PermitMatchesIndex
      <3>5. CASE Retire(p)
        <4>1. shares[p] \in Share
          BY DEF ShareIInv, TypeOK
        <4>2. shares'[p].gen = shares[p].gen + 1 /\ shares[p].gen \in Nat
          BY <3>5, <4>1 DEF Retire, Retired, Share, ShareIInv, TypeOK
        <4>. QED
          BY <1>4, <4>2 DEF Keep
      <3>. QED
        BY <3>1, <3>3, <3>4, <3>5 DEF Publish
    <2>. QED
      BY <1>1, <1>2, <1>4, <2>1, PermitsStay DEF Keep, ShareIInv, TypeOK
  <1>. QED
    BY <1>3, <1>4 DEF Publish, PublishBroken, Delete, Insert

\* The source changes: no table does.
LEMMA SourceKeeps ==
  ASSUME ShareIInv, NEW p \in Photo, Overwrite(p) \/ Rewrite(p) \/ Repoint(p) \/ Vanish(p)
  PROVE  ShareIInv'
  <1>1. UNCHANGED <<photos, shares, ended, reqs, drawn, granted, served>>
    BY DEF Overwrite, Rewrite, Repoint, Vanish, Keep
  <1>2. src[p] \in Object /\ src[p].version \in Versions /\ src[p].scope \in Versions
    BY DEF ShareIInv, TypeOK, Object
  <1>3. MayChange(p) => src[p].version + 1 \in Versions /\ src[p].scope + 1 \in Versions
    BY <1>2 DEF MayChange, Versions
  <1>4. src' \in [Photo -> Object]
    <2>1. CASE Overwrite(p)
      <3>1. PICK b \in Bytes : src' = [src EXCEPT ![p].version = @ + 1, ![p].bytes = b, ![p].there = TRUE]
        BY <2>1 DEF Overwrite
      <3>2. [src[p] EXCEPT !.version = @ + 1, !.bytes = b, !.there = TRUE] \in Object
        BY <1>2, <1>3, <2>1 DEF Overwrite, Object
      <3>. QED
        BY <3>1, <3>2 DEF ShareIInv, TypeOK
    <2>2. CASE Rewrite(p)
      <3>1. PICK b \in Bytes : src' = [src EXCEPT ![p].bytes = b]
        BY <2>2 DEF Rewrite
      <3>2. [src[p] EXCEPT !.bytes = b] \in Object
        BY <1>2 DEF Object
      <3>. QED
        BY <3>1, <3>2 DEF ShareIInv, TypeOK
    <2>3. CASE Repoint(p)
      <3>1. [src[p] EXCEPT !.scope = @ + 1] \in Object
        BY <1>2, <1>3, <2>3 DEF Repoint, Object
      <3>. QED
        BY <2>3, <3>1 DEF Repoint, ShareIInv, TypeOK
    <2>4. CASE Vanish(p)
      <3>1. [src[p] EXCEPT !.there = FALSE] \in Object
        BY <1>2 DEF Object
      <3>. QED
        BY <2>4, <3>1 DEF Vanish, ShareIInv, TypeOK
    <2>. QED
      BY <2>1, <2>2, <2>3, <2>4
  <1>. QED
    BY <1>1, <1>4, PermitsStay DEF ShareIInv, TypeOK, PermitMatchesIndex

\* What every step keeps.
LEMMA ShareStep ==
  ASSUME ShareIInv, [Next]_vars
  PROVE  ShareIInv'
  <1>1. CASE UNCHANGED vars
    BY <1>1, PermitsStay DEF vars, ShareIInv, TypeOK, PermitMatchesIndex
  <1>2. ASSUME NEW r \in Request, Handle(r) PROVE ShareIInv'
    BY <1>2, ReadSteps, FindPermitKeeps, RetireStepKeeps, SaveShareKeeps, SaveStopKeeps, RecheckKeeps, EndKeeps DEF Handle
  <1>. QED
    BY <1>1, <1>2, FormKeeps, MediaReadKeeps, IndexKeeps, SourceKeeps, EndKeeps DEF Next

\* The invariant holds in every state.
THEOREM SharesAlwaysSound == Spec => []ShareIInv
  BY ShareInit, ShareStep, PTL DEF Spec

\* A working link always belongs to a visible photo of the very version it was
\* granted for: the triggers and writeShare leave no gap.
THEOREM PermitsMatchTheIndex == Spec => []PermitInv
  <1>1. ShareIInv => PermitInv
    BY DEF ShareIInv, PermitInv
  <1>. QED
    BY <1>1, SharesAlwaysSound, PTL

\* A request to share that comes to its transaction: nothing but the transaction
\* answers it with success, and only if no permit of the photo has ended.
LEMMA SharedInTime ==
  ASSUME ShareIInv, NEW r \in Request, At(r, {"create"}, "save"), [Next]_vars, reqs'[r].ok
  PROVE  ended[reqs[r].photo] = reqs[r].ended
  <1>. USE DEF At
  <1>0. /\ reqs[r] \in ReqState /\ ~reqs[r].ok /\ GenTells(reqs[r])
        /\ \A s \in Request : reqs[s] \in ReqState
    BY DEF ShareIInv, TypeOK, RequestsAreSound, ReqSound, Over
  <1>1. reqs'[r] # reqs[r]
    BY <1>0
  <1>2. ~NoReq.ok /\ reqs'[r] # [NoReq EXCEPT !.pc = "done", !.ok = FALSE] /\ reqs[r] # NoReq
    <2>1. ~NoReq.ok /\ ~[NoReq EXCEPT !.pc = "done", !.ok = FALSE].ok
      BY AnswerType
    <2>2. NoReq.kind = "none" /\ reqs[r].kind # "none"
      BY DEF NoReq
    <2>. HIDE DEF NoReq
    <2>. QED
      BY <2>1, <2>2
  <1>3. SaveShare(r)
    <2>1. \A s \in Request, ok \in BOOLEAN : ~Fail(r) /\ (Answer(s, ok) => s = r)
      BY <1>1, <1>2 DEF Answer, Fail, ShareIInv, TypeOK
    <2>2. ASSUME NEW s \in Request, Handle(s) PROVE s = r
      BY <1>1, <2>2 DEF Handle, Arrive, AcquireSlot, Open, Copy, Confirm, FindPermit, RetireStep, GiveUp, SaveShare,
         SaveStop, GetRead, GetCheck, MediaPhoto, Recheck, Finish, Answer, Fail, Goto, Changed, ShareIInv, TypeOK
    <2>3. Handle(r) => SaveShare(r)
      BY <2>1 DEF Handle, Arrive, AcquireSlot, Open, Copy, Confirm, FindPermit, RetireStep, GiveUp,
         SaveStop, GetRead, GetCheck, MediaPhoto, Recheck, Finish
    <2>4. ~\E s \in Request, p \in Photo : \/ MediaRead(s, p)
                                           \/ \E k \in {"create", "stop", "get"} : Form(s, k, p)
      BY <1>1, <1>2 DEF MediaRead, Form, ShareIInv, TypeOK
    <2>5. ~\E p \in Photo : \/ Publish(p) \/ PublishBroken(p) \/ Delete(p) \/ Insert(p)
                            \/ Overwrite(p) \/ Rewrite(p) \/ Repoint(p) \/ Vanish(p)
      BY <1>1 DEF Publish, PublishBroken, Delete, Insert, Overwrite, Rewrite, Repoint, Vanish
    <2>6. ~Restart /\ ~UNCHANGED vars
      BY <1>1, <1>2 DEF Restart, vars
    <2>. QED
      BY <2>2, <2>3, <2>4, <2>5, <2>6 DEF Next
  <1>4. Expected(r)
    BY <1>2, <1>3 DEF SaveShare, Fail, Answer, ShareIInv, TypeOK
  <1>. QED
    BY <1>0, <1>4 DEF Expected, GenTells

\* A delayed or repeated request to share undoes no stop, deletion or change.
THEOREM DelayedShareNeverUndoesAnEnd == Spec => DelayedShareIsRefused
  <1>1. ShareIInv /\ [Next]_vars =>
          [\A r \in Request : At(r, {"create"}, "save") /\ reqs'[r].ok =>
             ended[reqs[r].photo] = reqs[r].ended]_vars
    BY SharedInTime
  <1>. QED
    BY <1>1, SharesAlwaysSound, PTL DEF Spec, DelayedShareIsRefused
-----------------------------------------------------------------------------
(* PhotoShares implements SharePermits. *)

NoPermit0 == [token |-> 0, bytes |-> AnyBytes]

\* What SharePermits sees of a permit row.
PermitOf(p) == IF Active(p) THEN [token |-> shares[p].token, bytes |-> shares[p].bytes] ELSE NoPermit0
Mapped == [p \in Photo |-> PermitOf(p)]

\* Two photos, one permit each: what a step does to one row it does to one permit.
LEMMA OnePermitChanges ==
  ASSUME NEW p \in Photo, \A o \in Photo : o # p => shares'[o] = shares[o]
  PROVE  Mapped' = [Mapped EXCEPT ![p] = PermitOf(p)']
  BY DEF Mapped, PermitOf, Active

LEMMA SharesInitRefines == Init => Permits!SPInit
  BY DEF Init, Permits!SPInit, Active

\* Steps that change neither the permits nor what was shown.
LEMMA StutterRefines ==
  ASSUME UNCHANGED <<shares, granted, served>>
  PROVE  UNCHANGED Permits!spVars
  BY DEF Permits!spVars, Active

\* Retiring a row ends its permit, or changes nothing if it had none.
LEMMA RetireRefines ==
  ASSUME ShareIInv, NEW p \in Photo, Retire(p), UNCHANGED <<granted, served>>
  PROVE  Permits!End(p) \/ UNCHANGED Permits!spVars
  <1>1. shares[p] \in Share
    BY DEF ShareIInv, TypeOK
  <1>2. /\ shares'[p].token = 0
        /\ \A o \in Photo : o # p => shares'[o] = shares[o]
    BY <1>1 DEF Retire, Retired, Share, ShareIInv, TypeOK
  <1>3. Mapped' = [Mapped EXCEPT ![p] = NoPermit0]
    BY <1>2, OnePermitChanges DEF PermitOf, Active, NoPermit0
  <1>4. CASE Active(p)
    <2>1. Mapped[p] # NoPermit0
      BY <1>4 DEF Mapped, PermitOf, Active, NoPermit0
    <2>. QED
      BY <1>3, <2>1 DEF Permits!End, Mapped, PermitOf, NoPermit0
  <1>5. CASE ~Active(p)
    <2>1. Mapped' = Mapped
      BY <1>3, <1>5 DEF Mapped, PermitOf
    <2>. QED
      BY <2>1 DEF Permits!spVars, Mapped, PermitOf, NoPermit0
  <1>. QED
    BY <1>4, <1>5

\* A granted permit has a token that no permit had before.
LEMMA GrantRefines ==
  ASSUME ShareIInv, NEW r \in Request, At(r, {"create"}, "save"), ~Active(reqs[r].photo),
         shares' = [shares EXCEPT ![reqs[r].photo] = Granted(r)],
         granted' = granted \cup {reqs[r].token}, UNCHANGED served
  PROVE  \E n \in Tokens, b \in Bytes : Permits!Grant(reqs[r].photo, n, b)
  <1>. DEFINE p == reqs[r].photo
              n == reqs[r].token
              b == reqs[r].bytes
  <1>1. /\ reqs[r] \in ReqState /\ Copying(reqs[r]) /\ p \in Photo /\ drawn \in 0..MaxToken
        /\ n \in 1..drawn /\ n \notin granted
    BY DEF ShareIInv, TypeOK, RequestsAreSound, ReqSound, Over, At, Copying
  <1>2. n \in Tokens /\ n # 0 /\ b \in Bytes
    BY <1>1 DEF Tokens, ReqState
  <1>3. /\ shares'[p] = Granted(r)
        /\ \A o \in Photo : o # p => shares'[o] = shares[o]
    BY <1>1 DEF ShareIInv, TypeOK
  <1>4. Mapped' = [Mapped EXCEPT ![p] = [token |-> n, bytes |-> b]]
    BY <1>1, <1>2, <1>3, OnePermitChanges DEF PermitOf, Active, Granted
  <1>5. Mapped[p] = NoPermit0
    BY <1>1 DEF Mapped, PermitOf
  <1>6. Permits!Grant(p, n, b)
    BY <1>1, <1>4, <1>5 DEF Permits!Grant, Mapped, PermitOf, NoPermit0
  <1>. QED
    BY <1>2, <1>6 DEF Permits!Grant

\* A visitor is shown the bytes of a permit that lasts.
LEMMA RecheckRefines ==
  ASSUME ShareIInv, NEW r \in Request, Recheck(r)
  PROVE  (\E p \in Photo : Permits!Serve(p)) \/ UNCHANGED Permits!spVars
  <1>1. UNCHANGED <<shares, granted>>
    BY DEF Recheck, Keep
  <1>2. CASE Serve(r) /\ \E p \in Photo : shares[p].token = reqs[r].token
    <2>1. PICK p \in Photo : shares[p].token = reqs[r].token
      BY <1>2
    <2>2. reqs[r].token # 0 /\ shares[p].bytes = reqs[r].bytes
      BY <2>1 DEF Recheck, At, ShareIInv, TypeOK, Tokens, RequestsAreSound, ReqSound, HoldsPermit
    <2>3. Active(p)
      BY <2>1, <2>2 DEF Active
    <2>4. Mapped[p] # NoPermit0 /\ Mapped[p].token = reqs[r].token /\ Mapped[p].bytes = reqs[r].bytes
      BY <2>1, <2>2, <2>3 DEF Mapped, PermitOf, NoPermit0
    <2>5. Mapped' = Mapped
      BY <1>1 DEF Mapped, PermitOf, Active
    <2>6. Permits!Serve(p)
      BY <1>1, <1>2, <2>4, <2>5 DEF Permits!Serve, Serve, Mapped, PermitOf, NoPermit0
    <2>. QED
      BY <2>6
  <1>3. CASE UNCHANGED served
    BY <1>1, <1>3, StutterRefines
  <1>. QED
    BY <1>2, <1>3 DEF Recheck

\* Every step of the handlers and the table is a step of SharePermits, or none.
LEMMA SharesStepRefines ==
  ASSUME ShareIInv, [Next]_vars
  PROVE  [Permits!SPNext]_Permits!spVars
  <1>1. ASSUME NEW p \in Photo, Retire(p), UNCHANGED <<granted, served>>
        PROVE  [Permits!SPNext]_Permits!spVars
    BY <1>1, RetireRefines DEF Permits!SPNext
  <1>2. CASE UNCHANGED <<shares, granted, served>>
    BY <1>2, StutterRefines
  <1>3. ASSUME NEW r \in Request, SaveShare(r)
        PROVE  [Permits!SPNext]_Permits!spVars
    <2>1. reqs[r].photo \in Photo /\ UNCHANGED served /\ At(r, {"create"}, "save")
      BY <1>3 DEF SaveShare, At, ShareIInv, RequestsAreSound, ReqSound, Over
    <2>2. CASE (Keep \/ Retire(reqs[r].photo)) /\ UNCHANGED granted
      BY <1>1, <1>2, <2>1, <2>2 DEF Keep
    <2>3. CASE /\ ~Active(reqs[r].photo)
               /\ shares' = [shares EXCEPT ![reqs[r].photo] = Granted(r)]
               /\ granted' = granted \cup {reqs[r].token}
      <3>1. \E n \in Tokens, b \in Bytes : Permits!Grant(reqs[r].photo, n, b)
        BY <2>1, <2>3, GrantRefines
      <3>. QED
        BY <2>1, <3>1 DEF Permits!SPNext
    <2>. QED
      BY <1>3, <2>2, <2>3 DEF SaveShare
  <1>4. ASSUME NEW r \in Request, SaveStop(r)
        PROVE  [Permits!SPNext]_Permits!spVars
    <2>1. reqs[r].photo \in Photo
      BY <1>4 DEF SaveStop, At, ShareIInv, RequestsAreSound, ReqSound, Over
    <2>. QED
      BY <1>1, <1>2, <1>4, <2>1 DEF SaveStop, Keep
  <1>5. ASSUME NEW r \in Request, RetireStep(r)
        PROVE  [Permits!SPNext]_Permits!spVars
    BY <1>1, <1>2, <1>5 DEF RetireStep, RetireToken, Keep
  <1>6. ASSUME NEW r \in Request, Recheck(r)
        PROVE  [Permits!SPNext]_Permits!spVars
    BY <1>6, RecheckRefines DEF Permits!SPNext
  <1>7. ASSUME NEW r \in Request, Handle(r)
        PROVE  [Permits!SPNext]_Permits!spVars
    <2>1. \/ UNCHANGED <<shares, granted, served>>
          \/ RetireStep(r) \/ SaveShare(r) \/ SaveStop(r) \/ Recheck(r)
      BY <1>7 DEF Handle, Arrive, AcquireSlot, Open, Copy, Confirm, FindPermit, GiveUp, GetRead, GetCheck,
         MediaPhoto, Finish, Keep
    <2>. QED
      BY <1>2, <1>3, <1>4, <1>5, <1>6, <2>1
  <1>8. ASSUME NEW p \in Photo, Publish(p) \/ PublishBroken(p) \/ Delete(p)
        PROVE  [Permits!SPNext]_Permits!spVars
    BY <1>1, <1>2, <1>8 DEF Publish, PublishBroken, Delete, Keep
  <1>9. \/ UNCHANGED <<shares, granted, served>>
        \/ \E r \in Request : Handle(r)
        \/ \E p \in Photo : Publish(p) \/ PublishBroken(p) \/ Delete(p)
    BY DEF Next, vars, MediaRead, Form, Insert, Overwrite, Rewrite, Repoint, Vanish, Restart, Keep
  <1>. QED
    BY <1>2, <1>7, <1>8, <1>9

\* The handlers and the photo_shares table keep what sharing an original promises:
\* visitors see exactly the bytes a permit was granted for, only while it lasts,
\* and a link that has ended never works again.
THEOREM SharesImplementPermits == Spec => ImplementsSharePermits
  BY SharesInitRefines, SharesStepRefines, SharesAlwaysSound, PTL
     DEF Spec, ImplementsSharePermits, Permits!SPSpec
=============================================================================
