------------------------------ MODULE EventHub ------------------------------
(***************************************************************************)
(* Storage notifications (events.go).  A storage posts a webhook for every *)
(* change of an object; a delivery is answered at once and the photo is    *)
(* synced by a goroutine of its own.  Notifications for a key that is      *)
(* being synced fold into one more pass.  Deliveries are lost, repeated    *)
(* and late; a sync fails, is tried three times and then left to the next  *)
(* scan; the process stops and comes back.                                 *)
(*                                                                         *)
(* SyncKey is PhotoProcessing's: it looks at the source, works on it for a *)
(* while and fails when the source has changed meanwhile.                  *)
(***************************************************************************)
EXTENDS Naturals, FiniteSets

CONSTANTS
  Key,         \* photo keys with a configured source
  Routine,     \* goroutines started by schedule
  NoKey,
  MaxVersion,  \* bound: states of a source object
  MaxFaults,   \* bound: losses, repetitions and restarts
  Attempts     \* tries of one pass (3 in the code)

ASSUME HubConstants == /\ IsFiniteSet(Routine) /\ NoKey \notin Key
                       /\ MaxVersion \in Nat /\ MaxFaults \in Nat
                       /\ Attempts \in Nat \ {0}

VARIABLES
  src,       \* the state of each source object, counted up at every change
  shown,     \* the state of each object that the index shows
  sent,      \* notifications on their way, by key
  pending,   \* eventHub.pending: "absent", or whether notified again meanwhile
  gos,       \* the goroutines of schedule
  excused,   \* keys whose last notification was lost, or that a pass gave up on
  faults

vars == <<src, shown, sent, pending, gos, excused, faults>>

States == 0..MaxVersion
NoGo   == [key |-> NoKey, pc |-> "none", attempt |-> 0, seen |-> 0]

\* A goroutine at the start of a pass.
FirstTry(k) == [key |-> k, pc |-> "sync", attempt |-> 1, seen |-> 0]

HubTypeOK ==
  /\ src \in [Key -> States] /\ shown \in [Key -> States]
  /\ sent \in [Key -> 0..MaxVersion + MaxFaults]
  /\ pending \in [Key -> {"absent", "once", "again"}]
  /\ gos \in [Routine -> [key : Key \cup {NoKey},
                          pc : {"none", "sync", "work", "wait", "settle"},
                          attempt : 0..Attempts, seen : States]]
  /\ excused \in SUBSET Key
  /\ faults \in 0..MaxFaults

Init == /\ src = [k \in Key |-> 0] /\ shown = [k \in Key |-> 0]
        /\ sent = [k \in Key |-> 0]
        /\ pending = [k \in Key |-> "absent"]
        /\ gos = [g \in Routine |-> NoGo]
        /\ excused = {}
        /\ faults = 0
-----------------------------------------------------------------------------
(* The storage. *)

Change(k) ==
  /\ src[k] < MaxVersion
  /\ src' = [src EXCEPT ![k] = @ + 1]
  /\ sent' = [sent EXCEPT ![k] = @ + 1]
  /\ UNCHANGED <<shown, pending, gos, excused, faults>>

Fault == faults < MaxFaults /\ faults' = faults + 1

\* An answer was not seen in time: the same notification is sent again.
Repeat(k) ==
  /\ Fault
  /\ sent' = [sent EXCEPT ![k] = @ + 1]
  /\ UNCHANGED <<src, shown, pending, gos, excused>>

\* The sender abandons a delivery, or its body cannot be read.
Lose(k) ==
  /\ sent[k] > 0 /\ Fault
  /\ sent' = [sent EXCEPT ![k] = @ - 1]
  /\ excused' = excused \cup {k}
  /\ UNCHANGED <<src, shown, pending, gos>>
-----------------------------------------------------------------------------
(* receive and schedule. *)

At(g, p) == gos[g].pc = p
Goto(g, p) == gos' = [gos EXCEPT ![g].pc = p]

Delivered(k) == sent[k] > 0 /\ sent' = [sent EXCEPT ![k] = @ - 1]

\* Mutant: a key that is being synced needs nothing more.
FoldForgets(k) ==
  /\ Delivered(k) /\ pending[k] # "absent"
  /\ UNCHANGED <<src, shown, pending, gos, excused, faults>>

\* The key is busy: one more pass after the current one.
Fold(k) ==
  /\ Delivered(k) /\ pending[k] # "absent"
  /\ pending' = [pending EXCEPT ![k] = "again"]
  /\ UNCHANGED <<src, shown, gos, excused, faults>>

Begin(k, g) ==
  /\ Delivered(k) /\ pending[k] = "absent"
  /\ gos[g] = NoGo
  /\ pending' = [pending EXCEPT ![k] = "once"]
  /\ gos' = [gos EXCEPT ![g] = FirstTry(k)]
  /\ UNCHANGED <<src, shown, excused, faults>>
-----------------------------------------------------------------------------
(* sync: up to Attempts calls of SyncKey. *)

\* SyncKey stats the source under the photo lock: whatever was lost or given up
\* before is seen now.
Look(g) ==
  /\ At(g, "sync")
  /\ gos' = [gos EXCEPT ![g].pc = "work", ![g].seen = src[gos[g].key]]
  /\ excused' = excused \ {gos[g].key}
  /\ UNCHANGED <<src, shown, sent, pending, faults>>

\* Mutant: one try too many.
TryOnceMore(g) == Goto(g, IF gos[g].attempt <= Attempts THEN "wait" ELSE "settle")

\* A retryable error waits for the next try; the last one is left to the scan.
TryAgain(g) == Goto(g, IF gos[g].attempt < Attempts THEN "wait" ELSE "settle")

\* SyncKey ends: the index shows what was seen (usable, unreadable or gone), or
\* the source has changed meanwhile.
Apply(g) ==
  /\ At(g, "work")
  /\ IF src[gos[g].key] = gos[g].seen
     THEN shown' = [shown EXCEPT ![gos[g].key] = gos[g].seen] /\ Goto(g, "settle")
     ELSE UNCHANGED shown /\ TryAgain(g)
  /\ UNCHANGED <<src, sent, pending, excused, faults>>

\* A call on the way fails, before or after the source was looked at.
Fail(g) ==
  /\ At(g, "sync") \/ At(g, "work")
  /\ TryAgain(g)
  /\ excused' = IF gos[g].attempt = Attempts THEN excused \cup {gos[g].key} ELSE excused
  /\ UNCHANGED <<src, shown, sent, pending, faults>>

\* Mutant: the number of tries is not counted.
RetryUncounted(g) ==
  /\ At(g, "wait")
  /\ Goto(g, "sync")
  /\ UNCHANGED <<src, shown, sent, pending, excused, faults>>

Retry(g) ==
  /\ At(g, "wait")
  /\ gos' = [gos EXCEPT ![g].pc = "sync", ![g].attempt = @ + 1]
  /\ UNCHANGED <<src, shown, sent, pending, excused, faults>>

\* Mutant: the entry goes even though another pass follows.
SettleDropsEntry(g) ==
  /\ At(g, "settle")
  /\ pending' = [pending EXCEPT ![gos[g].key] = "absent"]
  /\ gos' = [gos EXCEPT ![g] = IF pending[gos[g].key] = "again"
                               THEN FirstTry(gos[g].key) ELSE NoGo]
  /\ UNCHANGED <<src, shown, sent, excused, faults>>

\* Under the hub's mutex: one more pass, or the entry and the goroutine go.
Settle(g) ==
  /\ At(g, "settle")
  /\ LET k == gos[g].key
     IN IF pending[k] = "again"
        THEN /\ pending' = [pending EXCEPT ![k] = "once"]
             /\ gos' = [gos EXCEPT ![g] = FirstTry(k)]
        ELSE /\ pending' = [pending EXCEPT ![k] = "absent"]
             /\ gos' = [gos EXCEPT ![g] = NoGo]
  /\ UNCHANGED <<src, shown, sent, excused, faults>>

\* The process stops and starts again; what it had answered for is left to the
\* scan, what is still on its way may arrive later.
Restart ==
  /\ Fault
  /\ excused' = excused \cup {k \in Key : pending[k] # "absent"}
  /\ pending' = [k \in Key |-> "absent"]
  /\ gos' = [g \in Routine |-> NoGo]
  /\ UNCHANGED <<src, shown, sent>>
-----------------------------------------------------------------------------
Deliver(k) == Fold(k) \/ \E g \in Routine : Begin(k, g)
Run(g) == Look(g) \/ Apply(g) \/ Retry(g) \/ Settle(g)

Next == \/ \E k \in Key : Change(k) \/ Repeat(k) \/ Lose(k) \/ Deliver(k)
        \/ \E g \in Routine : Run(g) \/ Fail(g)
        \/ Restart

Spec == Init /\ [][Next]_vars

\* The sender keeps delivering and goroutines run.
FairSpec == /\ Spec
            /\ \A k \in Key : WF_vars(Deliver(k))
            /\ \A g \in Routine : WF_vars(Run(g))
-----------------------------------------------------------------------------
Of(k) == {g \in Routine : gos[g].key = k}

\* However notifications and syncs interleave, a key that nothing more is under
\* way for shows its source as it is now, unless a notification was lost or the
\* last pass gave up: folding several notifications into one pass loses none.
QuietKeyIsShown ==
  \A k \in Key : pending[k] = "absent" /\ sent[k] = 0 /\ k \notin excused => shown[k] = src[k]

\* A key is synced by at most one goroutine, and pending names exactly the keys
\* that one is at work on.
OneRoutinePerKey ==
  \A k \in Key : Cardinality(Of(k)) = IF pending[k] = "absent" THEN 0 ELSE 1

\* The types of the hub, and one goroutine for each pending key.
HubInv == HubTypeOK /\ OneRoutinePerKey

\* A busy key becomes quiet again: no pass retries without end and no goroutine
\* is left over.
PassesEnd == \A k \in Key : pending[k] # "absent" ~> pending[k] = "absent"

\* A change reaches the index, unless its notification or the pass failed.
ChangesArrive == \A k \in Key : shown[k] # src[k] ~> shown[k] = src[k] \/ k \in excused
=============================================================================
