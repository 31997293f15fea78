--------------------------- MODULE EventHubProofs ---------------------------
(* Proofs about EventHub: for any keys and goroutines, any number of tries,   *)
(* and any bounds on changes and faults.                                      *)
EXTENDS EventHub, FiniteSetTheorems, TLAPS

\* A goroutine without a key is unused, one with a key is at one of its tries,
\* and waits for another only when one is left.
RoutinesAreSound ==
  \A g \in Routine :
    /\ gos[g].key = NoKey <=> gos[g].pc = "none"
    /\ gos[g].pc = "none" => gos[g] = NoGo
    /\ gos[g].pc = "wait" => gos[g].attempt < Attempts

\* OneRoutinePerKey without counting.
RoutinesMatchPending ==
  /\ \A g, h \in Routine : gos[g].key # NoKey /\ gos[g].key = gos[h].key => g = h
  /\ \A k \in Key : pending[k] # "absent" <=> \E g \in Routine : gos[g].key = k

\* Every notification tells of a change or was repeated.
SentIsBounded == \A k \in Key : sent[k] <= src[k] + faults

\* The key of g has nothing more on its way that would bring another pass.
LastPass(g) == LET k == gos[g].key
               IN k \in Key /\ pending[k] = "once" /\ sent[k] = 0 /\ k \notin excused

\* A pass that none will follow works on the source as it is, and settles once
\* the index shows it: a change in between is on its way or was folded in.
LastPassSeesAll ==
  \A g \in Routine : LastPass(g) =>
    /\ gos[g].pc = "work" => gos[g].seen = src[gos[g].key]
    /\ gos[g].pc = "settle" => shown[gos[g].key] = src[gos[g].key]

HubIInv == /\ HubTypeOK /\ RoutinesAreSound /\ RoutinesMatchPending
           /\ SentIsBounded /\ LastPassSeesAll /\ QuietKeyIsShown
-----------------------------------------------------------------------------
USE HubConstants

\* The empty hub satisfies the invariant.
LEMMA HubInit == Init => HubIInv
  BY DEF Init, HubIInv, HubTypeOK, States, NoGo, RoutinesAreSound, RoutinesMatchPending,
         SentIsBounded, LastPassSeesAll, LastPass, QuietKeyIsShown

\* What the fields of a goroutine are.
LEMMA GoType ==
  ASSUME HubTypeOK, NEW g \in Routine
  PROVE  /\ gos[g] \in [key : Key \cup {NoKey}, pc : {"none", "sync", "work", "wait", "settle"},
                        attempt : 0..Attempts, seen : States]
         /\ gos[g].key \in Key \cup {NoKey}
         /\ gos[g].pc \in {"none", "sync", "work", "wait", "settle"}
         /\ gos[g].attempt \in 0..Attempts
         /\ gos[g].seen \in States
  BY DEF HubTypeOK

\* A goroutine at one of its tries has a key, and the entry of that key is there.
LEMMA GoHasKey ==
  ASSUME HubIInv, NEW g \in Routine, gos[g].pc # "none"
  PROVE  gos[g].key \in Key /\ pending[gos[g].key] # "absent"
  BY GoType DEF HubIInv, RoutinesAreSound, RoutinesMatchPending

\* The storage changes an object: its key has a notification on its way.
LEMMA ChangeStep ==
  ASSUME HubIInv, NEW k \in Key, Change(k)
  PROVE  HubIInv'
  <1>. USE DEF HubIInv, Change
  <1>1. src[k] \in Nat /\ sent[k] \in Nat /\ faults \in Nat /\ faults <= MaxFaults
    BY DEF HubTypeOK, States
  <1>2. SentIsBounded'
    BY <1>1 DEF HubTypeOK, States, SentIsBounded
  <1>3. HubTypeOK'
    <2>1. sent[k] + 1 \in 0..MaxVersion + MaxFaults
      BY <1>1 DEF SentIsBounded
    <2>2. src[k] + 1 \in States
      BY <1>1 DEF States
    <2>. QED
      BY <2>1, <2>2 DEF HubTypeOK
  <1>4. RoutinesAreSound' /\ RoutinesMatchPending'
    BY DEF RoutinesAreSound, RoutinesMatchPending
  <1>5. sent'[k] # 0 /\ \A j \in Key : j # k => sent'[j] = sent[j] /\ src'[j] = src[j]
    BY <1>1 DEF HubTypeOK
  <1>6. LastPassSeesAll' /\ QuietKeyIsShown'
    BY <1>5 DEF LastPassSeesAll, LastPass, QuietKeyIsShown
  <1>. QED
    BY <1>2, <1>3, <1>4, <1>6

\* A notification is repeated.
LEMMA RepeatStep ==
  ASSUME HubIInv, NEW k \in Key, Repeat(k)
  PROVE  HubIInv'
  <1>. USE DEF HubIInv, Repeat, Fault
  <1>1. src[k] \in 0..MaxVersion /\ sent[k] \in Nat /\ faults \in Nat /\ sent[k] <= src[k] + faults
    BY DEF HubTypeOK, States, SentIsBounded
  <1>2. SentIsBounded'
    BY <1>1 DEF HubTypeOK, States, SentIsBounded
  <1>3. HubTypeOK'
    <2>1. sent[k] + 1 \in 0..MaxVersion + MaxFaults /\ faults + 1 \in 0..MaxFaults
      BY <1>1
    <2>. QED
      BY <2>1 DEF HubTypeOK
  <1>4. RoutinesAreSound' /\ RoutinesMatchPending'
    BY DEF RoutinesAreSound, RoutinesMatchPending
  <1>5. sent'[k] # 0 /\ \A j \in Key : j # k => sent'[j] = sent[j]
    BY <1>1 DEF HubTypeOK
  <1>6. LastPassSeesAll' /\ QuietKeyIsShown'
    BY <1>5 DEF LastPassSeesAll, LastPass, QuietKeyIsShown
  <1>. QED
    BY <1>2, <1>3, <1>4, <1>6

\* A notification is lost: its key is excused until the source is looked at.
LEMMA LoseStep ==
  ASSUME HubIInv, NEW k \in Key, Lose(k)
  PROVE  HubIInv'
  <1>. USE DEF HubIInv, Lose, Fault
  <1>1. sent[k] \in 0..MaxVersion + MaxFaults /\ sent[k] > 0 /\ faults \in 0..MaxFaults
    BY DEF HubTypeOK
  <1>2. SentIsBounded'
    BY <1>1 DEF HubTypeOK, States, SentIsBounded
  <1>3. HubTypeOK'
    <2>1. sent[k] - 1 \in 0..MaxVersion + MaxFaults /\ faults + 1 \in 0..MaxFaults
      BY <1>1
    <2>. QED
      BY <2>1 DEF HubTypeOK
  <1>4. RoutinesAreSound' /\ RoutinesMatchPending'
    BY DEF RoutinesAreSound, RoutinesMatchPending
  <1>5. k \in excused' /\ excused \subseteq excused' /\ \A j \in Key : j # k => sent'[j] = sent[j]
    BY DEF HubTypeOK
  <1>6. LastPassSeesAll' /\ QuietKeyIsShown'
    BY <1>5 DEF LastPassSeesAll, LastPass, QuietKeyIsShown
  <1>. QED
    BY <1>2, <1>3, <1>4, <1>6

\* What a delivery does to the notifications on their way.
LEMMA DeliveredKeeps ==
  ASSUME HubIInv, NEW k \in Key, Delivered(k), UNCHANGED <<src, faults>>
  PROVE  /\ sent' \in [Key -> 0..MaxVersion + MaxFaults]
         /\ SentIsBounded'
         /\ \A j \in Key : j # k => sent'[j] = sent[j]
  <1>1. sent[k] \in 0..MaxVersion + MaxFaults /\ sent[k] > 0
    BY DEF HubIInv, HubTypeOK, Delivered
  <1>2. sent[k] - 1 \in 0..MaxVersion + MaxFaults
    BY <1>1
  <1>. QED
    BY <1>1, <1>2 DEF HubIInv, HubTypeOK, States, SentIsBounded, Delivered

\* A notification for a busy key: one more pass will follow.
LEMMA FoldStep ==
  ASSUME HubIInv, NEW k \in Key, Fold(k)
  PROVE  HubIInv'
  <1>. USE DEF HubIInv, Fold
  <1>1. HubTypeOK' /\ SentIsBounded'
    BY DeliveredKeeps DEF HubTypeOK
  <1>2. pending'[k] = "again" /\ \A j \in Key : j # k => pending'[j] = pending[j]
    BY DEF HubTypeOK
  <1>3. RoutinesAreSound' /\ RoutinesMatchPending'
    BY <1>2 DEF RoutinesAreSound, RoutinesMatchPending
  <1>4. LastPassSeesAll' /\ QuietKeyIsShown'
    BY <1>2, DeliveredKeeps DEF LastPassSeesAll, LastPass, QuietKeyIsShown
  <1>. QED
    BY <1>1, <1>3, <1>4

\* A notification for a key at rest: a goroutine starts, which will look at the source.
LEMMA BeginStep ==
  ASSUME HubIInv, NEW k \in Key, NEW g \in Routine, Begin(k, g)
  PROVE  HubIInv'
  <1>. USE DEF HubIInv, Begin
  <1>. DEFINE new == FirstTry(k)
  <1>1. /\ gos' = [gos EXCEPT ![g] = new]
        /\ gos'[g] = new /\ \A h \in Routine : h # g => gos'[h] = gos[h]
    BY DEF HubTypeOK
  <1>2. pending'[k] = "once" /\ \A j \in Key : j # k => pending'[j] = pending[j]
    BY DEF HubTypeOK
  <1>3. HubTypeOK' /\ SentIsBounded'
    <2>1. new \in [key : Key \cup {NoKey}, pc : {"none", "sync", "work", "wait", "settle"},
                   attempt : 0..Attempts, seen : States]
      BY DEF States, FirstTry
    <2>. HIDE DEF new
    <2>. QED
      BY <1>1, <2>1, DeliveredKeeps DEF HubTypeOK
  <1>4. RoutinesAreSound'
    BY <1>1 DEF RoutinesAreSound, NoGo, FirstTry
  <1>5. RoutinesMatchPending'
    <2>1. gos[g].key = NoKey /\ \A h \in Routine : gos[h].key # k
      BY DEF RoutinesMatchPending, NoGo
    <2>. QED
      BY <1>1, <1>2, <2>1 DEF RoutinesMatchPending, FirstTry
  <1>6. LastPassSeesAll' /\ QuietKeyIsShown'
    <2>1. \A h \in Routine : h # g => gos'[h].key # k
      BY <1>1, <1>5, <1>2 DEF RoutinesMatchPending
    <2>. QED
      BY <1>1, <1>2, <2>1, DeliveredKeeps DEF LastPassSeesAll, LastPass, QuietKeyIsShown, FirstTry
  <1>. QED
    BY <1>3, <1>4, <1>5, <1>6

\* A goroutine goes on with its key: what of the invariant this keeps.
LEMMA GoesOn ==
  ASSUME HubIInv, NEW g \in Routine, gos[g].pc # "none",
         NEW go \in [key : {gos[g].key}, pc : {"sync", "work", "wait", "settle"},
                     attempt : 0..Attempts, seen : States],
         go.pc = "wait" => go.attempt < Attempts,
         gos' = [gos EXCEPT ![g] = go],
         pending' \in [Key -> {"absent", "once", "again"}],
         \A k \in Key : pending'[k] = "absent" <=> pending[k] = "absent"
  PROVE  /\ gos' \in [Routine -> [key : Key \cup {NoKey},
                                  pc : {"none", "sync", "work", "wait", "settle"},
                                  attempt : 0..Attempts, seen : States]]
         /\ RoutinesAreSound' /\ RoutinesMatchPending'
         /\ gos'[g] = go /\ \A h \in Routine : h # g => gos'[h] = gos[h]
         /\ \A h \in Routine : gos'[h].key = gos[h].key
         /\ \A h \in Routine : h # g => gos[h].key # gos[g].key
  <1>1. gos[g].key \in Key
    BY GoHasKey
  <1>2. gos'[g] = go /\ \A h \in Routine : h # g => gos'[h] = gos[h]
    BY DEF HubIInv, HubTypeOK
  <1>3. \A h \in Routine : gos'[h].key = gos[h].key
    BY <1>2
  <1>4. gos' \in [Routine -> [key : Key \cup {NoKey},
                             pc : {"none", "sync", "work", "wait", "settle"},
                             attempt : 0..Attempts, seen : States]]
    BY <1>1 DEF HubIInv, HubTypeOK
  <1>5. RoutinesAreSound'
    BY <1>1, <1>2 DEF HubIInv, RoutinesAreSound
  <1>6. RoutinesMatchPending' /\ \A h \in Routine : h # g => gos[h].key # gos[g].key
    BY <1>1, <1>3 DEF HubIInv, RoutinesMatchPending
  <1>. QED
    BY <1>2, <1>3, <1>4, <1>5, <1>6

\* The source is looked at: whatever was excused before is seen now.
LEMMA LookStep ==
  ASSUME HubIInv, NEW g \in Routine, Look(g)
  PROVE  HubIInv'
  <1>. USE DEF Look, At
  <1>. DEFINE go == [gos[g] EXCEPT !.pc = "work", !.seen = src[gos[g].key]]
  <1>1. gos[g].key \in Key /\ pending[gos[g].key] # "absent"
    BY GoHasKey
  <1>2. /\ go \in [key : {gos[g].key}, pc : {"sync", "work", "wait", "settle"},
                   attempt : 0..Attempts, seen : States]
        /\ go.pc = "work" /\ go.seen = src[gos[g].key]
    BY <1>1, GoType DEF HubIInv, HubTypeOK
  <1>3. gos' = [gos EXCEPT ![g] = go]
    BY DEF HubIInv, HubTypeOK
  <1>. HIDE DEF go
  <1>4. /\ gos' \in [Routine -> [key : Key \cup {NoKey},
                                pc : {"none", "sync", "work", "wait", "settle"},
                                attempt : 0..Attempts, seen : States]]
        /\ RoutinesAreSound' /\ RoutinesMatchPending'
        /\ gos'[g] = go /\ \A h \in Routine : h # g => gos'[h] = gos[h]
        /\ \A h \in Routine : gos'[h].key = gos[h].key
        /\ \A h \in Routine : h # g => gos[h].key # gos[g].key
    BY <1>2, <1>3, GoesOn DEF HubIInv, HubTypeOK
  <1>5. HubTypeOK' /\ SentIsBounded'
    BY <1>4 DEF HubIInv, HubTypeOK, SentIsBounded
  <1>6. LastPassSeesAll' /\ QuietKeyIsShown'
    BY <1>1, <1>2, <1>4 DEF HubIInv, LastPassSeesAll, LastPass, QuietKeyIsShown
  <1>. QED
    BY <1>4, <1>5, <1>6 DEF HubIInv

\* A pass that is over waits for the next try or settles.
LEMMA TryAgainKeeps ==
  ASSUME HubIInv, NEW g \in Routine, gos[g].pc # "none", TryAgain(g), UNCHANGED pending
  PROVE  /\ gos' \in [Routine -> [key : Key \cup {NoKey},
                                  pc : {"none", "sync", "work", "wait", "settle"},
                                  attempt : 0..Attempts, seen : States]]
         /\ RoutinesAreSound' /\ RoutinesMatchPending'
         /\ gos'[g].pc = IF gos[g].attempt < Attempts THEN "wait" ELSE "settle"
         /\ \A h \in Routine : h # g => gos'[h] = gos[h]
         /\ \A h \in Routine : gos'[h].key = gos[h].key
         /\ \A h \in Routine : h # g => gos[h].key # gos[g].key
  <1>. DEFINE go == [gos[g] EXCEPT !.pc = IF gos[g].attempt < Attempts THEN "wait" ELSE "settle"]
  <1>1. /\ go \in [key : {gos[g].key}, pc : {"sync", "work", "wait", "settle"},
                   attempt : 0..Attempts, seen : States]
        /\ go.pc = IF gos[g].attempt < Attempts THEN "wait" ELSE "settle"
        /\ go.pc = "wait" => go.attempt < Attempts
    BY GoType DEF HubIInv
  <1>2. gos' = [gos EXCEPT ![g] = go]
    BY DEF HubIInv, HubTypeOK, TryAgain, Goto
  <1>. HIDE DEF go
  <1>. QED
    BY <1>1, <1>2, GoesOn DEF HubIInv, HubTypeOK

\* A pass shows what it saw, or finds that the source has changed meanwhile: then
\* a notification is on its way or was folded in, or the key is excused.
LEMMA ApplyStep ==
  ASSUME HubIInv, NEW g \in Routine, Apply(g)
  PROVE  HubIInv'
  <1>. USE DEF Apply, At
  <1>. DEFINE k == gos[g].key
  <1>1. k \in Key /\ pending[k] # "absent"
    BY GoHasKey
  <1>2. CASE src[k] = gos[g].seen
    <2>. DEFINE go == [gos[g] EXCEPT !.pc = "settle"]
    <2>1. /\ go \in [key : {gos[g].key}, pc : {"sync", "work", "wait", "settle"},
                     attempt : 0..Attempts, seen : States]
          /\ go.pc = "settle"
      BY GoType DEF HubIInv
    <2>2. gos' = [gos EXCEPT ![g] = go]
      BY <1>2 DEF HubIInv, HubTypeOK, Goto
    <2>. HIDE DEF go
    <2>3. /\ gos' \in [Routine -> [key : Key \cup {NoKey},
                                  pc : {"none", "sync", "work", "wait", "settle"},
                                  attempt : 0..Attempts, seen : States]]
          /\ RoutinesAreSound' /\ RoutinesMatchPending'
          /\ gos'[g] = go /\ \A h \in Routine : h # g => gos'[h] = gos[h]
          /\ \A h \in Routine : gos'[h].key = gos[h].key
          /\ \A h \in Routine : h # g => gos[h].key # gos[g].key
      BY <2>1, <2>2, GoesOn DEF HubIInv, HubTypeOK
    <2>4. shown'[k] = src[k] /\ \A j \in Key : j # k => shown'[j] = shown[j]
      BY <1>1, <1>2 DEF HubIInv, HubTypeOK
    <2>5. HubTypeOK' /\ SentIsBounded'
      BY <1>2, <2>3, GoType DEF HubIInv, HubTypeOK, SentIsBounded
    <2>6. LastPassSeesAll' /\ QuietKeyIsShown'
      BY <1>1, <2>1, <2>3, <2>4 DEF HubIInv, LastPassSeesAll, LastPass, QuietKeyIsShown
    <2>. QED
      BY <2>3, <2>5, <2>6 DEF HubIInv
  <1>3. CASE src[k] # gos[g].seen
    <2>1. TryAgain(g) /\ UNCHANGED <<src, shown, sent, pending, excused, faults>>
      BY <1>3
    <2>2. HubTypeOK' /\ SentIsBounded'
      BY <2>1, TryAgainKeeps DEF HubIInv, HubTypeOK, SentIsBounded
    <2>3. ~LastPass(g)
      BY <1>3 DEF HubIInv, LastPassSeesAll
    <2>4. LastPassSeesAll' /\ QuietKeyIsShown'
      BY <2>1, <2>3, TryAgainKeeps DEF HubIInv, LastPassSeesAll, LastPass, QuietKeyIsShown
    <2>. QED
      BY <2>1, <2>2, <2>4, TryAgainKeeps DEF HubIInv
  <1>. QED
    BY <1>2, <1>3

\* A pass fails: the last one leaves the key to the scan.
LEMMA FailStep ==
  ASSUME HubIInv, NEW g \in Routine, Fail(g)
  PROVE  HubIInv'
  <1>. USE DEF Fail, At
  <1>1. gos[g].key \in Key /\ gos[g].attempt \in 0..Attempts
    BY GoHasKey, GoType DEF HubIInv
  <1>2. HubTypeOK' /\ SentIsBounded'
    <2>1. HubTypeOK'
      BY <1>1, TryAgainKeeps DEF HubIInv, HubTypeOK
    <2>2. SentIsBounded'
      BY DEF HubIInv, SentIsBounded
    <2>. QED
      BY <2>1, <2>2
  <1>3. gos'[g].pc = "wait" \/ gos[g].key \in excused'
    <2>1. CASE gos[g].attempt = Attempts
      BY <2>1
    <2>2. CASE gos[g].attempt # Attempts
      <3>1. gos[g].attempt < Attempts
        BY <1>1, <2>2
      <3>. QED
        BY <1>1, <3>1, TryAgainKeeps
    <2>. QED
      BY <2>1, <2>2
  <1>4. excused \subseteq excused'
    OBVIOUS
  <1>5. LastPassSeesAll' /\ QuietKeyIsShown'
    BY <1>3, <1>4, TryAgainKeeps DEF HubIInv, LastPassSeesAll, LastPass, QuietKeyIsShown
  <1>. QED
    BY <1>2, <1>5, TryAgainKeeps DEF HubIInv

\* The next try of a pass.
LEMMA RetryStep ==
  ASSUME HubIInv, NEW g \in Routine, Retry(g)
  PROVE  HubIInv'
  <1>. USE DEF Retry, At
  <1>. DEFINE go == [gos[g] EXCEPT !.pc = "sync", !.attempt = @ + 1]
  <1>1. gos[g].attempt + 1 \in 0..Attempts
    BY GoType DEF HubIInv, RoutinesAreSound
  <1>2. /\ go \in [key : {gos[g].key}, pc : {"sync", "work", "wait", "settle"},
                   attempt : 0..Attempts, seen : States]
        /\ go.pc = "sync"
    BY <1>1, GoType DEF HubIInv
  <1>3. gos' = [gos EXCEPT ![g] = go]
    BY DEF HubIInv, HubTypeOK
  <1>. HIDE DEF go
  <1>4. /\ gos' \in [Routine -> [key : Key \cup {NoKey},
                                pc : {"none", "sync", "work", "wait", "settle"},
                                attempt : 0..Attempts, seen : States]]
        /\ RoutinesAreSound' /\ RoutinesMatchPending'
        /\ gos'[g] = go /\ \A h \in Routine : h # g => gos'[h] = gos[h]
        /\ \A h \in Routine : gos'[h].key = gos[h].key
        /\ \A h \in Routine : h # g => gos[h].key # gos[g].key
    BY <1>2, <1>3, GoesOn DEF HubIInv, HubTypeOK
  <1>5. HubTypeOK' /\ SentIsBounded'
    BY <1>4 DEF HubIInv, HubTypeOK, SentIsBounded
  <1>6. LastPassSeesAll' /\ QuietKeyIsShown'
    BY <1>2, <1>4 DEF HubIInv, LastPassSeesAll, LastPass, QuietKeyIsShown
  <1>. QED
    BY <1>4, <1>5, <1>6 DEF HubIInv

\* A pass settles: another one follows, or the entry and the goroutine go.
LEMMA SettleStep ==
  ASSUME HubIInv, NEW g \in Routine, Settle(g)
  PROVE  HubIInv'
  <1>. USE DEF At
  <1>. DEFINE k == gos[g].key
  <1>0. gos[g].pc = "settle" /\ UNCHANGED <<src, shown, sent, excused, faults>>
    BY DEF Settle
  <1>1. k \in Key /\ pending[k] # "absent" /\ pending[k] \in {"absent", "once", "again"}
    BY <1>0, GoHasKey DEF HubIInv, HubTypeOK
  <1>2. CASE pending[k] = "again"
    <2>. DEFINE go == FirstTry(k)
    <2>1. /\ go \in [key : {gos[g].key}, pc : {"sync", "work", "wait", "settle"},
                     attempt : 0..Attempts, seen : States]
          /\ go.pc = "sync"
      BY DEF States, FirstTry
    <2>2. gos' = [gos EXCEPT ![g] = go] /\ pending' = [pending EXCEPT ![k] = "once"]
      BY <1>2 DEF HubIInv, HubTypeOK, Settle
    <2>. HIDE DEF go
    <2>3. /\ pending' \in [Key -> {"absent", "once", "again"}]
          /\ \A j \in Key : pending'[j] = "absent" <=> pending[j] = "absent"
          /\ \A j \in Key : j # k => pending'[j] = pending[j]
      BY <1>1, <2>2 DEF HubIInv, HubTypeOK
    <2>4. /\ gos' \in [Routine -> [key : Key \cup {NoKey},
                                  pc : {"none", "sync", "work", "wait", "settle"},
                                  attempt : 0..Attempts, seen : States]]
          /\ RoutinesAreSound' /\ RoutinesMatchPending'
          /\ gos'[g] = go /\ \A h \in Routine : h # g => gos'[h] = gos[h]
          /\ \A h \in Routine : gos'[h].key = gos[h].key
          /\ \A h \in Routine : h # g => gos[h].key # gos[g].key
      BY <1>0, <2>1, <2>2, <2>3, GoesOn
    <2>5. HubTypeOK' /\ SentIsBounded'
      BY <1>0, <2>3, <2>4 DEF HubIInv, HubTypeOK, SentIsBounded
    <2>6. LastPassSeesAll' /\ QuietKeyIsShown'
      BY <1>0, <2>1, <2>3, <2>4 DEF HubIInv, LastPassSeesAll, LastPass, QuietKeyIsShown
    <2>. QED
      BY <2>4, <2>5, <2>6 DEF HubIInv
  <1>3. CASE pending[k] = "once"
    <2>1. gos' = [gos EXCEPT ![g] = NoGo] /\ pending' = [pending EXCEPT ![k] = "absent"]
      BY <1>3 DEF Settle
    <2>2. gos'[g] = NoGo /\ \A h \in Routine : h # g => gos'[h] = gos[h]
      BY <2>1 DEF HubIInv, HubTypeOK
    <2>3. pending'[k] = "absent" /\ \A j \in Key : j # k => pending'[j] = pending[j]
      BY <1>1, <2>1 DEF HubIInv, HubTypeOK
    <2>4. HubTypeOK' /\ SentIsBounded'
      <3>1. NoGo \in [key : Key \cup {NoKey}, pc : {"none", "sync", "work", "wait", "settle"},
                      attempt : 0..Attempts, seen : States]
        BY DEF NoGo, States
      <3>. QED
        BY <1>0, <2>1, <3>1 DEF HubIInv, HubTypeOK, SentIsBounded
    <2>5. RoutinesAreSound'
      BY <2>2 DEF HubIInv, RoutinesAreSound, NoGo
    <2>6. RoutinesMatchPending'
      BY <1>1, <2>2, <2>3 DEF HubIInv, RoutinesMatchPending, NoGo
    <2>7. LastPassSeesAll'
      BY <1>0, <2>2, <2>3 DEF HubIInv, LastPassSeesAll, LastPass, NoGo
    <2>8. QuietKeyIsShown'
      BY <1>0, <1>1, <1>3, <2>3 DEF HubIInv, LastPassSeesAll, LastPass, QuietKeyIsShown
    <2>. QED
      BY <2>4, <2>5, <2>6, <2>7, <2>8 DEF HubIInv
  <1>. QED
    BY <1>1, <1>2, <1>3

\* A restart leaves what was pending to the scan.
LEMMA RestartStep ==
  ASSUME HubIInv, Restart
  PROVE  HubIInv'
  <1>. USE DEF HubIInv, Restart, Fault
  <1>1. HubTypeOK' /\ SentIsBounded'
    <2>1. NoGo \in [key : Key \cup {NoKey}, pc : {"none", "sync", "work", "wait", "settle"},
                    attempt : 0..Attempts, seen : States]
      BY DEF NoGo, States
    <2>2. faults' \in 0..MaxFaults /\ faults' = faults + 1
      BY DEF HubTypeOK
    <2>3. SentIsBounded'
      BY <2>2 DEF HubTypeOK, SentIsBounded, States
    <2>. QED
      BY <2>1, <2>2, <2>3 DEF HubTypeOK
  <1>2. RoutinesAreSound' /\ RoutinesMatchPending' /\ LastPassSeesAll'
    BY DEF RoutinesAreSound, RoutinesMatchPending, LastPassSeesAll, LastPass, NoGo
  <1>3. QuietKeyIsShown'
    BY DEF QuietKeyIsShown
  <1>. QED
    BY <1>1, <1>2, <1>3

\* What every step keeps.
LEMMA HubStep ==
  ASSUME HubIInv, [Next]_vars
  PROVE  HubIInv'
  <1>1. CASE UNCHANGED vars
    BY <1>1 DEF vars, HubIInv, HubTypeOK, RoutinesAreSound, RoutinesMatchPending,
                SentIsBounded, LastPassSeesAll, LastPass, QuietKeyIsShown
  <1>. QED
    BY <1>1, ChangeStep, RepeatStep, LoseStep, FoldStep, BeginStep, LookStep, ApplyStep,
       FailStep, RetryStep, SettleStep, RestartStep
       DEF Next, Deliver, Run

\* Uniqueness gives the count that OneRoutinePerKey states.
LEMMA OneRoutine ==
  ASSUME HubIInv
  PROVE  OneRoutinePerKey
  <1>. SUFFICES ASSUME NEW k \in Key
                PROVE  Cardinality(Of(k)) = IF pending[k] = "absent" THEN 0 ELSE 1
    BY DEF OneRoutinePerKey
  <1>1. CASE pending[k] = "absent"
    <2>1. Of(k) = {}
      BY <1>1 DEF Of, HubIInv, RoutinesMatchPending
    <2>. QED
      BY <1>1, <2>1, FS_EmptySet
  <1>2. CASE pending[k] # "absent"
    <2>1. PICK g \in Routine : gos[g].key = k
      BY <1>2 DEF HubIInv, RoutinesMatchPending
    <2>2. Of(k) = {g}
      BY <2>1 DEF Of, HubIInv, RoutinesMatchPending
    <2>. QED
      BY <1>2, <2>2, FS_Singleton
  <1>. QED
    BY <1>1, <1>2

\* The invariant holds in every state.
THEOREM HubAlwaysSound == Spec => []HubIInv
  BY HubInit, HubStep, PTL DEF Spec

\* A key is synced by at most one goroutine, and exactly while it has an entry in
\* pending: schedule and sync never start a second one and never leave one over.
THEOREM OneRoutineAtATime == Spec => []HubInv
  <1>1. HubIInv => HubInv
    BY OneRoutine DEF HubIInv, HubInv
  <1>. QED
    BY <1>1, HubAlwaysSound, PTL

\* Folding notifications loses none: a key at rest shows its source as it is,
\* unless its last notification was lost or its last pass gave up.
THEOREM FoldingLosesNothing == Spec => []QuietKeyIsShown
  <1>1. HubIInv => QuietKeyIsShown
    BY DEF HubIInv
  <1>. QED
    BY <1>1, HubAlwaysSound, PTL
=============================================================================
