-------------------------- MODULE OrganizeReceipts --------------------------
(***************************************************************************)
(* Changes of the organize page (organize_receipts.go and the page's queue *)
(* in frontend/lib/album-organizer.ts).  A page sends its changes one      *)
(* after the other, each under an id that holds the time of issue.  The    *)
(* server applies a change and writes its receipt in one transaction.      *)
(* Answers are lost and calls arrive late, so the page asks for the        *)
(* receipt and may send the same change again.  Receipts are pruned by age *)
(* and number; a floor keeps the pruned ids from being applied again,      *)
(* whatever the clocks of server and browsers do.                          *)
(*                                                                         *)
(* What a change does to the names is left out: the server applies or      *)
(* refuses it.  A page freezes the content of a change with its id, so the *)
(* comparison of fingerprints always agrees.                               *)
(***************************************************************************)
EXTENDS Integers, FiniteSets

CONSTANTS
  Page,       \* open organize pages
  Changes,    \* bound: Changes[g] is the number of changes made on page g
  MaxTime,    \* bound: moments on the clocks
  MaxResends, \* bound: changes sent again
  MaxSetBacks,\* bound: times the server's clock is set back
  TTL,        \* organizeReceiptTTL
  Ahead,      \* how far ahead of the server's clock an id may be issued
  Limit       \* organizeReceiptLimit

ASSUME ReceiptConstants ==
  /\ IsFiniteSet(Page)
  /\ Changes \in [Page -> Nat] /\ MaxTime \in Nat /\ MaxResends \in Nat /\ MaxSetBacks \in Nat
  /\ TTL \in Nat /\ Ahead \in Nat /\ Limit \in Nat

VARIABLES
  clock,     \* the server's time
  setBacks,  \* times it was set back
  issued,    \* the time in the id of each change, 0 before it has one
  receipts,  \* changes with a row in organize_receipts
  floor,     \* organize_receipt_floor.before_ms
  applied,   \* how often each change was applied
  calls,     \* POST /api/organize on their way or waiting for the database, with the times
             \* the server's clock has shown meanwhile
  page,      \* what each page waits for
  outcome,   \* what each page told its user about a change
  late,      \* changes a page sent again while an earlier call was still under way
  resends    \* changes sent again so far

vars == <<clock, setBacks, issued, receipts, floor, applied, calls, page, outcome, late, resends>>
server == <<clock, setBacks, receipts, floor, applied>>

Time == 1..MaxTime
Op   == UNION {{g} \X (1..Changes[g]) : g \in Page}
Call == [op : Op, try : Nat, seen : SUBSET (Time \cup {0})]
PageState == [head : Nat \ {0}, state : {"next", "sending", "checking", "uncertain"},
              try : Nat, canRetry : BOOLEAN,
              got : {"", "ok", "refused", "expired", "failed"}]

TypeOK ==
  /\ clock \in Time \cup {0}
  /\ setBacks \in 0..MaxSetBacks
  /\ issued \in [Op -> Time \cup {0}]
  /\ receipts \in SUBSET Op
  /\ floor \in Nat
  /\ applied \in [Op -> Nat]
  /\ calls \in SUBSET Call
  /\ page \in [Page -> PageState]
  /\ outcome \in [Op -> {"pending", "confirmed", "refused"}]
  /\ late \in SUBSET Op
  /\ resends \in 0..MaxResends

Ready(n) == [head |-> n, state |-> "next", try |-> 0, canRetry |-> FALSE, got |-> ""]

Init ==
  /\ clock = 0 /\ setBacks = 0 /\ floor = 0 /\ resends = 0
  /\ issued = [o \in Op |-> 0]
  /\ receipts = {} /\ calls = {} /\ late = {}
  /\ applied = [o \in Op |-> 0]
  /\ page = [g \in Page |-> Ready(1)]
  /\ outcome = [o \in Op |-> "pending"]
-----------------------------------------------------------------------------
(* The server: one transaction for every call.  The handler reads the clock (now)
   before it waits for the only connection to the database. *)

\* Mutant: only the age of an id counts, not the floor.
ExpiredByAge(o, now) == issued[o] <= now - TTL

\* receiptExpired.
Expired(o, now) == issued[o] <= floor \/ issued[o] <= now - TTL

\* The answer reaches the page if it still waits for this very call.
Answer(c, what) ==
  /\ calls' = calls \ {c}
  /\ page' = [page EXCEPT ![c.op[1]].got =
       IF @ = "" /\ page[c.op[1]].state = "sending" /\ page[c.op[1]].head = c.op[2]
             /\ page[c.op[1]].try = c.try
       THEN what ELSE @]

\* What pruneOrganizeReceipts may cut at, when the results of `fit` receipts
\* keep within organizeReceiptBytes: too old, or beyond the ones that fit.
Cutoffs(kept, fit, now) ==
  {now - TTL} \cup
  {issued[o] : o \in {x \in kept : Cardinality({y \in kept : issued[y] >= issued[x]}) > fit}}

\* Mutant: the floor follows the cut down again when the clock was set back.
PruneMovesFloor(kept, fit, now) ==
  \E cut \in Cutoffs(kept, fit, now) :
    /\ \A c \in Cutoffs(kept, fit, now) : c <= cut
    /\ receipts' = {o \in kept : issued[o] > cut}
    /\ floor' = cut

\* The oldest go, and the floor keeps their ids from coming back.
Prune(kept, fit, now) ==
  \E cut \in Cutoffs(kept, fit, now) :
    /\ \A c \in Cutoffs(kept, fit, now) : c <= cut
    /\ receipts' = {o \in kept : issued[o] > cut}
    /\ floor' = IF cut > floor THEN cut ELSE floor

TooFarAhead(o, now) == issued[o] > now + Ahead

\* The change was applied before: the same result again.
AnswerAgain(c) ==
  /\ c.op \in receipts /\ \E now \in c.seen : ~TooFarAhead(c.op, now)
  /\ Answer(c, "ok")
  /\ UNCHANGED <<server, issued, outcome, late, resends>>

RefuseTime(c) ==
  /\ \E now \in c.seen : TooFarAhead(c.op, now)
  /\ Answer(c, "refused")
  /\ UNCHANGED <<server, issued, outcome, late, resends>>

RefuseExpired(c) ==
  /\ c.op \notin receipts
  /\ \E now \in c.seen : ~TooFarAhead(c.op, now) /\ Expired(c.op, now)
  /\ Answer(c, "expired")
  /\ UNCHANGED <<server, issued, outcome, late, resends>>

Fresh(o, now) == ~TooFarAhead(o, now) /\ o \notin receipts /\ ~Expired(o, now)

\* The change, its receipt and the pruning commit together.
Apply(c) ==
  /\ \E now \in c.seen, fit \in 0..Limit :
       Fresh(c.op, now) /\ Prune(receipts \cup {c.op}, fit, now)
  /\ applied' = [applied EXCEPT ![c.op] = @ + 1]
  /\ Answer(c, "ok")
  /\ UNCHANGED <<clock, setBacks, issued, outcome, late, resends>>

\* The name or album is not there (any more), or the input is not valid.
Refuse(c) ==
  /\ \E now \in c.seen : Fresh(c.op, now)
  /\ Answer(c, "refused")
  /\ UNCHANGED <<server, issued, outcome, late, resends>>

\* An error before the commit rolls everything back.
Fail(c) ==
  /\ Answer(c, "failed")
  /\ UNCHANGED <<server, issued, outcome, late, resends>>

Handle(c) == \/ AnswerAgain(c) \/ RefuseTime(c) \/ RefuseExpired(c)
             \/ Apply(c) \/ Refuse(c) \/ Fail(c)

\* A call never arrives, or the process stops before it commits.
Lose(c) ==
  /\ calls' = calls \ {c}
  /\ UNCHANGED <<server, issued, page, outcome, late, resends>>
-----------------------------------------------------------------------------
(* The page. *)

HeadOp(g) == <<g, page[g].head>>
Is(g, state) == page[g].state = state /\ page[g].head <= Changes[g]

\* pump: the id is drawn once and stays with the change.  The browser's clock
\* shows any time.
Send(g) ==
  /\ Is(g, "next")
  /\ IF issued[HeadOp(g)] = 0 THEN \E t \in Time : issued' = [issued EXCEPT ![HeadOp(g)] = t]
                              ELSE UNCHANGED issued
  /\ calls' = calls \cup {[op |-> HeadOp(g), try |-> page[g].try + 1, seen |-> {clock}]}
  /\ page' = [page EXCEPT ![g].state = "sending", ![g].try = @ + 1, ![g].got = ""]
  /\ late' = late \cup ({HeadOp(g)} \cap {c.op : c \in calls})
  /\ UNCHANGED <<server, outcome, resends>>

Accept(g) ==
  /\ page' = [page EXCEPT ![g] = Ready(page[g].head + 1)]
  /\ outcome' = [outcome EXCEPT ![HeadOp(g)] = "confirmed"]
  /\ UNCHANGED late

\* The change is withdrawn; the ones behind it stay.
Withdraw(g) ==
  /\ page' = [page EXCEPT ![g] = Ready(page[g].head + 1)]
  /\ outcome' = [outcome EXCEPT ![HeadOp(g)] = "refused"]
  /\ UNCHANGED late

\* prepare throws: the name is gone, or nothing is left to change.
RejectUnsent(g) ==
  /\ Is(g, "next") /\ issued[HeadOp(g)] = 0
  /\ Withdraw(g)
  /\ UNCHANGED <<server, issued, calls, resends>>

Check(g) ==
  /\ page' = [page EXCEPT ![g].state = "checking", ![g].got = "", ![g].canRetry = FALSE]
  /\ UNCHANGED <<outcome, late>>

\* Mutant: an answer that decides nothing is taken for a saved change.
ConfirmedByAny(g) == Is(g, "sending") /\ page[g].got \in {"ok", "expired"}

\* Mutant: 410 counts as a refusal.
RejectedWhenExpired(g) == Is(g, "sending") /\ page[g].got \in {"refused", "expired"}

Confirmed(g) == Is(g, "sending") /\ page[g].got = "ok"
Rejected(g)  == Is(g, "sending") /\ page[g].got = "refused"

\* An answer that decides; 410 and 5xx do not.
Receive(g) ==
  /\ \/ Confirmed(g) /\ Accept(g)
     \/ Rejected(g) /\ Withdraw(g)
     \/ Is(g, "sending") /\ page[g].got \in {"expired", "failed"} /\ Check(g)
  /\ UNCHANGED <<server, issued, calls, resends>>

\* Mutant: the page goes on with the next change meanwhile.
GiveUpMovesOn(g) ==
  /\ Is(g, "sending")
  /\ page' = [page EXCEPT ![g] = Ready(page[g].head + 1)]
  /\ UNCHANGED <<server, issued, calls, outcome, late, resends>>

\* The connection breaks: the call may still arrive.
GiveUp(g) ==
  /\ Is(g, "sending")
  /\ Check(g)
  /\ UNCHANGED <<server, issued, calls, resends>>

Doubt(g, retry) ==
  /\ page' = [page EXCEPT ![g].state = "uncertain", ![g].canRetry = retry]
  /\ UNCHANGED <<outcome, late>>

\* verifyHead: GET /api/organize/receipts/{operation} and what the page makes of
\* the answer; nothing else of the page moves while it waits.  Without an answer
\* there is nothing to retry on.
Lookup(g) ==
  /\ Is(g, "checking")
  /\ \/ HeadOp(g) \in receipts /\ Accept(g)
     \/ HeadOp(g) \notin receipts /\ Doubt(g, ~Expired(HeadOp(g), clock))
     \/ Doubt(g, FALSE)
  /\ UNCHANGED <<server, issued, calls, resends>>

Verify(g) ==
  /\ Is(g, "uncertain")
  /\ Check(g)
  /\ UNCHANGED <<server, issued, calls, resends>>

Retry(g) ==
  /\ Is(g, "uncertain") /\ page[g].canRetry
  /\ resends < MaxResends /\ resends' = resends + 1
  /\ page' = [page EXCEPT ![g].state = "next", ![g].canRetry = FALSE]
  /\ UNCHANGED <<server, issued, calls, outcome, late>>
-----------------------------------------------------------------------------
Show(t) ==
  /\ clock' = t
  /\ calls' = {[c EXCEPT !.seen = @ \cup {t}] : c \in calls}
  /\ UNCHANGED <<issued, receipts, floor, applied, page, outcome, late, resends>>

Tick ==
  /\ clock < MaxTime
  /\ Show(clock + 1)
  /\ UNCHANGED setBacks

SetBack ==
  /\ setBacks < MaxSetBacks
  /\ setBacks' = setBacks + 1
  /\ \E t \in Time \cup {0} : t < clock /\ Show(t)

Next == \/ \E c \in calls : Handle(c) \/ Lose(c)
        \/ \E g \in Page : \/ Send(g) \/ RejectUnsent(g) \/ Receive(g) \/ GiveUp(g)
                           \/ Lookup(g) \/ Verify(g) \/ Retry(g)
        \/ Tick \/ SetBack

Spec == Init /\ [][Next]_vars
-----------------------------------------------------------------------------
\* However often a change is sent, however late its calls arrive, and whatever
\* the clocks say, it is applied at most once: "The floor prevents a pruned
\* receipt's ID from being executed again".
AppliedAtMostOnce == \A o \in Op : applied[o] <= 1

\* A receipt that is "missing" means that the change has not been applied, so
\* the page may offer to send it again.
MissingMeansNotApplied ==
  \A o \in Op : issued[o] # 0 /\ o \notin receipts /\ ~Expired(o, clock) => applied[o] = 0

\* What a page calls saved has been applied.
ConfirmedIsApplied == \A o \in Op : outcome[o] = "confirmed" => applied[o] = 1

\* The changes of a page reach the server in the page's order: nothing of a later
\* change is sent while an earlier one is neither saved nor withdrawn.
LaterChangesWait ==
  \A g \in Page : \A i, j \in 1..Changes[g] :
    i < j /\ (applied[<<g, j>>] > 0 \/ \E c \in calls : c.op = <<g, j>>) => outcome[<<g, i>>] # "pending"

\* What a page withdrew as refused has no effect, unless it was sent again while
\* an earlier call of it was still under way or the server's clock was set back.
RefusedHasNoEffect ==
  \A o \in Op : outcome[o] = "refused" /\ applied[o] > 0 => o \in late \/ setBacks > 0

\* Why it holds: a change that was applied has its receipt, or the floor has
\* passed its id; ids are drawn before a call is made and never change.
CallsHaveIds == \A c \in calls : issued[c.op] # 0
AppliedHasReceipt == \A o \in Op : applied[o] > 0 => issued[o] # 0 /\ (o \in receipts \/ issued[o] <= floor)
ReceiptsAreApplied == \A o \in receipts : applied[o] > 0
ConfirmedWasApplied == \A o \in Op : outcome[o] = "confirmed" => applied[o] > 0
AnswersAreTrue ==
  \A g \in Page : Is(g, "sending") /\ page[g].got = "ok" => applied[HeadOp(g)] > 0

\* The inductive invariant of the receipts.
ReceiptInv == /\ TypeOK
              /\ CallsHaveIds
              /\ AppliedHasReceipt
              /\ ReceiptsAreApplied
              /\ AppliedAtMostOnce
              /\ AnswersAreTrue
              /\ ConfirmedWasApplied

\* Why the order holds: a page has decided the changes before the one it works
\* on, and nothing was sent of those behind it.
PagesInOrder ==
  \A g \in Page : \A i \in 1..Changes[g] :
    /\ i < page[g].head => outcome[<<g, i>>] # "pending"
    /\ i >= page[g].head => outcome[<<g, i>>] = "pending"
    /\ i > page[g].head => applied[<<g, i>>] = 0 /\ \A c \in calls : c.op # <<g, i>>

\* Nothing is left of a change: it was not applied, and no call of it is under way.
NoTrace(o) == applied[o] = 0 /\ \A c \in calls : c.op # o

OneCall(o) == \A c, d \in calls : c.op = o /\ d.op = o => c = d
InTime(o) ==
  applied[o] > 0 => /\ issued[o] <= clock + Ahead
                    /\ \A c \in calls : c.op = o => \A t \in c.seen : issued[o] <= t + Ahead
RefusedFor(o) ==
  outcome[o] = "refused" \/ (\E g \in Page : Is(g, "sending") /\ page[g].got = "refused" /\ HeadOp(g) = o)

\* Why a refusal is final while the clock is not set back: a change has one call
\* at a time unless its page did not wait; the id of an applied one is in time
\* for every later call; and nothing is left of it once it is refused.
RefusedSound ==
  setBacks = 0 =>
    /\ \A c \in calls : \A t \in c.seen : t <= clock
    /\ \A o \in Op \ late : OneCall(o) /\ InTime(o) /\ (RefusedFor(o) => NoTrace(o))

\* The inductive invariant of the pages.
PagesInv == ReceiptInv /\ PagesInOrder /\ RefusedSound
=============================================================================
