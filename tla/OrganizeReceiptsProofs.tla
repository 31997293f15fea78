----------------------- MODULE OrganizeReceiptsProofs -----------------------
(***************************************************************************)
(* Proofs about OrganizeReceipts: whatever the number of pages, changes    *)
(* and receipts, and whatever the clocks do, a change is applied at most   *)
(* once, a missing receipt means that it was not applied, and what a page  *)
(* calls saved was applied.                                                *)
(***************************************************************************)
EXTENDS OrganizeReceipts, TLAPS

\* A change is its page and its number there.
LEMMA OpParts ==
  /\ \A o \in Op : o = <<o[1], o[2]>> /\ o[1] \in Page /\ o[2] \in 1..Changes[o[1]]
  /\ \A g \in Page : \A i \in 1..Changes[g] : <<g, i>> \in Op
<1>1. ASSUME NEW o \in Op
      PROVE  o = <<o[1], o[2]>> /\ o[1] \in Page /\ o[2] \in 1..Changes[o[1]]
  <2>1. PICK g \in Page : o \in {g} \X (1..Changes[g])
    BY DEF Op
  <2> QED BY <2>1
<1>2. ASSUME NEW g \in Page, NEW i \in 1..Changes[g]
      PROVE  <<g, i>> \in Op
  <2>1. <<g, i>> \in {g} \X (1..Changes[g])
    OBVIOUS
  <2> QED BY <2>1 DEF Op
<1> QED BY <1>1, <1>2

\* While a page waits, the change at its head is one of its changes.
LEMMA HeadIsOp ==
  ASSUME TypeOK, NEW g \in Page, NEW s, Is(g, s)
  PROVE  HeadOp(g) \in Op
<1>1. page[g].head \in Nat \ {0}
  BY DEF TypeOK, PageState
<1>2. page[g].head <= Changes[g] /\ Changes[g] \in Nat
  BY ReceiptConstants DEF Is
<1>3. page[g].head \in 1..Changes[g]
  BY <1>1, <1>2
<1> QED BY <1>3, OpParts DEF HeadOp

\* What a page waits for may be answered.
LEMMA PageStates ==
  ASSUME NEW s \in PageState
  PROVE  /\ \A w \in {"", "ok", "refused", "expired", "failed"} :
              [s EXCEPT !.got = w] \in PageState
         /\ [s EXCEPT !.got = s.got] = s
  BY DEF PageState

\* Only the change a page waits for is answered to it.
LEMMA AnswerKeepsPages ==
  ASSUME TypeOK, NEW c \in calls, NEW what \in {"ok", "refused", "expired", "failed"}, Answer(c, what)
  PROVE  /\ page' \in [Page -> PageState]
         /\ calls' \in SUBSET Call
         /\ \A g \in Page : /\ page'[g].head = page[g].head
                            /\ page'[g].state = page[g].state
                            /\ \/ page'[g].got = page[g].got
                               \/ /\ page'[g].got = what
                                  /\ page[g].state = "sending"
                                  /\ c.op = HeadOp(g)
<1>1. c.op \in Op /\ c.op = <<c.op[1], c.op[2]>> /\ c.op[1] \in Page
  BY OpParts DEF TypeOK, Call
<1>2. calls' \in SUBSET Call
  BY DEF TypeOK, Answer
<1> DEFINE waits == /\ page[c.op[1]].got = "" /\ page[c.op[1]].state = "sending"
                    /\ page[c.op[1]].head = c.op[2] /\ page[c.op[1]].try = c.try
<1>3. CASE waits
  <2>1. page' = [page EXCEPT ![c.op[1]].got = what]
    BY <1>3 DEF Answer
  <2>2. c.op = HeadOp(c.op[1])
    BY <1>1, <1>3 DEF HeadOp
  <2>3. \A g \in Page : /\ page'[g].head = page[g].head
                         /\ page'[g].state = page[g].state
                         /\ page'[g].got = IF g = c.op[1] THEN what ELSE page[g].got
    BY <1>1, <2>1 DEF TypeOK, PageState
  <2>4. page' \in [Page -> PageState]
    <3>1. [page[c.op[1]] EXCEPT !.got = what] \in PageState
      BY <1>1, PageStates DEF TypeOK
    <3> QED BY <1>1, <2>1, <3>1 DEF TypeOK
  <2> QED BY <1>2, <1>3, <2>2, <2>3, <2>4
<1>4. CASE ~waits
  <2>1. page' = [page EXCEPT ![c.op[1]].got = @]
    BY <1>4 DEF Answer
  <2>2. page' = page
    <3>1. page[c.op[1]] \in PageState
      BY <1>1 DEF TypeOK
    <3>2. [page[c.op[1]] EXCEPT !.got = page[c.op[1]].got] = page[c.op[1]]
      BY <3>1, PageStates
    <3>3. page' = [page EXCEPT ![c.op[1]] = page[c.op[1]]]
      BY <2>1, <3>2
    <3> QED BY <1>1, <3>3 DEF TypeOK
  <2> QED BY <1>2, <2>2 DEF TypeOK
<1> QED BY <1>3, <1>4
-----------------------------------------------------------------------------
\* Nothing was sent or applied at the start.
LEMMA ReceiptInit == Init => ReceiptInv
<1> SUFFICES ASSUME Init PROVE ReceiptInv
  OBVIOUS
<1>1. TypeOK
  <2>1. \A g \in Page : Ready(1) \in PageState
    BY ReceiptConstants DEF Ready, PageState
  <2> QED BY <2>1, ReceiptConstants DEF Init, TypeOK
<1>2. CallsHaveIds /\ AppliedHasReceipt /\ ReceiptsAreApplied
  BY DEF Init, CallsHaveIds, AppliedHasReceipt, ReceiptsAreApplied
<1>3. AppliedAtMostOnce /\ ConfirmedWasApplied
  BY DEF Init, AppliedAtMostOnce, ConfirmedWasApplied
<1>4. AnswersAreTrue
  BY DEF Init, AnswersAreTrue, Is, Ready
<1> QED BY <1>1, <1>2, <1>3, <1>4 DEF ReceiptInv

\* An answer that changes nothing else keeps the invariant; "ok" is only said of
\* a change with a receipt.
LEMMA AnswerStep ==
  ASSUME ReceiptInv, NEW c \in calls, NEW what \in {"ok", "refused", "expired", "failed"},
         Answer(c, what), UNCHANGED <<server, issued, outcome, late, resends>>,
         what = "ok" => c.op \in receipts
  PROVE  ReceiptInv'
<1>1. /\ page' \in [Page -> PageState]
      /\ calls' \in SUBSET Call
      /\ \A g \in Page : /\ page'[g].head = page[g].head
                         /\ page'[g].state = page[g].state
                         /\ \/ page'[g].got = page[g].got
                            \/ /\ page'[g].got = what
                               /\ page[g].state = "sending"
                               /\ c.op = HeadOp(g)
  BY AnswerKeepsPages DEF ReceiptInv
<1>2. TypeOK'
  BY <1>1 DEF ReceiptInv, TypeOK, server
<1>3. CallsHaveIds' /\ AppliedHasReceipt' /\ ReceiptsAreApplied' /\ AppliedAtMostOnce'
      /\ ConfirmedWasApplied'
  BY DEF ReceiptInv, CallsHaveIds, AppliedHasReceipt, ReceiptsAreApplied, AppliedAtMostOnce,
         ConfirmedWasApplied, Answer, server, Expired
<1>4. what = "ok" => applied[c.op] > 0
  BY DEF ReceiptInv, ReceiptsAreApplied
<1>5. AnswersAreTrue'
  <2> SUFFICES ASSUME NEW g \in Page
               PROVE  Is(g, "sending")' /\ page'[g].got = "ok" => applied'[HeadOp(g)'] > 0
    BY DEF AnswersAreTrue
  <2>1. /\ HeadOp(g)' = HeadOp(g) /\ applied' = applied
        /\ Is(g, "sending")' = Is(g, "sending")
    BY <1>1 DEF HeadOp, Is, server
  <2>2. CASE page'[g].got = page[g].got
    <3>1. Is(g, "sending") /\ page[g].got = "ok" => applied[HeadOp(g)] > 0
      BY DEF ReceiptInv, AnswersAreTrue
    <3> QED BY <2>1, <2>2, <3>1, Zenon
  <2>3. CASE page'[g].got = what /\ c.op = HeadOp(g)
    BY <1>4, <2>1, <2>3
  <2> QED BY <1>1, <2>2, <2>3
<1> QED BY <1>2, <1>3, <1>5 DEF ReceiptInv

\* A step of a page alone keeps what is said of the server.
LEMMA PageStep ==
  ASSUME ReceiptInv, UNCHANGED <<server, issued, calls>>
  PROVE  CallsHaveIds' /\ AppliedHasReceipt' /\ ReceiptsAreApplied' /\ AppliedAtMostOnce'
  BY DEF ReceiptInv, CallsHaveIds, AppliedHasReceipt, ReceiptsAreApplied, AppliedAtMostOnce, server

\* Pruning keeps a receipt or raises the floor past it, and never lowers it.
LEMMA PruneKeeps ==
  ASSUME TypeOK, NEW kept \in SUBSET Op, NEW fit, NEW now \in Time \cup {0}, Prune(kept, fit, now)
  PROVE  /\ receipts' \in SUBSET kept
         /\ floor' \in Nat /\ floor' >= floor
         /\ \A o \in kept : o \in receipts' \/ issued[o] <= floor'
<1>1. PICK cut \in Cutoffs(kept, fit, now) :
        /\ receipts' = {o \in kept : issued[o] > cut}
        /\ floor' = IF cut > floor THEN cut ELSE floor
  BY DEF Prune
<1>2. \A o \in Op : issued[o] \in Nat
  BY ReceiptConstants DEF TypeOK, Time
<1>3. cut \in Int
  <2>1. now - TTL \in Int
    BY ReceiptConstants DEF Time
  <2>2. cut = now - TTL \/ \E o \in kept : cut = issued[o]
    BY <1>1, Zenon DEF Cutoffs
  <2> QED BY <1>2, <2>1, <2>2
<1>4. floor \in Nat
  BY DEF TypeOK
<1>5. floor' \in Nat /\ floor' >= floor /\ floor' >= cut
  BY <1>1, <1>3, <1>4
<1>6. \A o \in kept : o \in receipts' \/ issued[o] <= floor'
  <2> SUFFICES ASSUME NEW o \in kept, o \notin receipts'
               PROVE  issued[o] <= floor'
    OBVIOUS
  <2>1. issued[o] \in Nat /\ ~(issued[o] > cut)
    BY <1>1, <1>2
  <2> QED BY <1>3, <1>5, <2>1
<1> QED BY <1>1, <1>5, <1>6

\* Only a change that was never applied is applied, and it gets its receipt.
LEMMA ApplyStep ==
  ASSUME ReceiptInv, NEW c \in calls, Apply(c)
  PROVE  ReceiptInv'
<1> DEFINE kept == receipts \cup {c.op}
<1>0. PICK now \in c.seen, fit \in 0..Limit : Fresh(c.op, now) /\ Prune(kept, fit, now)
  BY DEF Apply
<1>1. c.op \in Op /\ c.op \notin receipts /\ issued[c.op] # 0 /\ ~(issued[c.op] <= floor)
  BY <1>0, OpParts DEF ReceiptInv, TypeOK, Call, CallsHaveIds, Fresh, Expired
<1>2. Answer(c, "ok") /\ UNCHANGED <<clock, setBacks, issued, outcome, late, resends>>
  BY DEF Apply
<1>3. now \in Time \cup {0}
  BY <1>0 DEF ReceiptInv, TypeOK, Call
<1>4. kept \in SUBSET Op
  BY <1>1 DEF ReceiptInv, TypeOK
<1>5. /\ receipts' \in SUBSET kept
      /\ floor' \in Nat /\ floor' >= floor
      /\ \A o \in kept : o \in receipts' \/ issued[o] <= floor'
  BY <1>0, <1>3, <1>4, PruneKeeps DEF ReceiptInv
\* It was not applied before: the floor would have refused it.
<1>6. applied[c.op] = 0
  BY <1>1 DEF ReceiptInv, TypeOK, AppliedHasReceipt
<1>7. /\ applied' \in [Op -> Nat]
      /\ applied'[c.op] = 1
      /\ \A o \in Op : o # c.op => applied'[o] = applied[o]
  BY <1>1, <1>6 DEF ReceiptInv, TypeOK, Apply
<1>8. /\ page' \in [Page -> PageState]
      /\ calls' \in SUBSET Call
      /\ \A g \in Page : /\ page'[g].head = page[g].head
                         /\ page'[g].state = page[g].state
                         /\ \/ page'[g].got = page[g].got
                            \/ /\ page'[g].got = "ok"
                               /\ page[g].state = "sending"
                               /\ c.op = HeadOp(g)
  BY <1>2, AnswerKeepsPages DEF ReceiptInv
<1>9. TypeOK'
  BY <1>2, <1>4, <1>5, <1>7, <1>8 DEF ReceiptInv, TypeOK
<1>10. CallsHaveIds'
  BY <1>2 DEF ReceiptInv, CallsHaveIds, Answer
<1>11. \A o \in Op : applied[o] > 0 => applied'[o] > 0
  BY <1>1, <1>7
<1>12. AppliedHasReceipt'
  <2> SUFFICES ASSUME NEW o \in Op, applied'[o] > 0
               PROVE  issued[o] # 0 /\ (o \in receipts' \/ issued[o] <= floor')
    BY <1>2 DEF AppliedHasReceipt
  <2>1. CASE o \in kept
    <3>1. issued[o] # 0
      <4>1. CASE o = c.op
        BY <1>1, <4>1
      <4>2. CASE o # c.op
        BY <1>7, <4>2 DEF ReceiptInv, AppliedHasReceipt
      <4> QED BY <4>1, <4>2
    <3> QED BY <1>5, <2>1, <3>1
  <2>2. CASE o \notin kept
    <3>1. applied[o] > 0 /\ o \notin receipts
      BY <1>7, <2>2
    <3>2. issued[o] # 0 /\ issued[o] <= floor
      BY <3>1 DEF ReceiptInv, AppliedHasReceipt
    <3>3. issued[o] \in Nat /\ floor \in Nat
      BY ReceiptConstants DEF ReceiptInv, TypeOK, Time
    <3> QED BY <1>5, <3>2, <3>3
  <2> QED BY <2>1, <2>2
<1>13. ReceiptsAreApplied'
  <2> SUFFICES ASSUME NEW o \in receipts'
               PROVE  applied'[o] > 0
    BY DEF ReceiptsAreApplied
  <2>1. CASE o = c.op
    BY <1>7, <2>1
  <2>2. CASE o # c.op
    BY <1>4, <1>5, <1>7, <2>2 DEF ReceiptInv, ReceiptsAreApplied
  <2> QED BY <2>1, <2>2
<1>14. AppliedAtMostOnce'
  <2> SUFFICES ASSUME NEW o \in Op
               PROVE  applied'[o] <= 1
    BY DEF AppliedAtMostOnce
  <2>1. CASE o = c.op
    BY <1>7, <2>1
  <2>2. CASE o # c.op
    BY <1>7, <2>2 DEF ReceiptInv, AppliedAtMostOnce
  <2> QED BY <2>1, <2>2
<1>15. ConfirmedWasApplied'
  BY <1>2, <1>11 DEF ReceiptInv, ConfirmedWasApplied
<1>16. AnswersAreTrue'
  <2> SUFFICES ASSUME NEW g \in Page
               PROVE  Is(g, "sending")' /\ page'[g].got = "ok" => applied'[HeadOp(g)'] > 0
    BY DEF AnswersAreTrue
  <2>1. /\ HeadOp(g)' = HeadOp(g)
        /\ Is(g, "sending")' = Is(g, "sending")
    BY <1>8 DEF HeadOp, Is
  <2>2. Is(g, "sending") => HeadOp(g) \in Op
    BY HeadIsOp DEF ReceiptInv
  <2>3. CASE page'[g].got = page[g].got
    <3>1. Is(g, "sending") /\ page[g].got = "ok" => applied[HeadOp(g)] > 0
      BY DEF ReceiptInv, AnswersAreTrue
    <3> QED BY <1>11, <2>1, <2>2, <2>3, <3>1, Zenon
  <2>4. CASE page'[g].got = "ok" /\ c.op = HeadOp(g)
    BY <1>7, <2>1, <2>4
  <2> QED BY <1>8, <2>3, <2>4
<1> QED BY <1>9, <1>10, <1>12, <1>13, <1>14, <1>15, <1>16 DEF ReceiptInv
-----------------------------------------------------------------------------
\* A step of a page gives nobody an "ok": only the server does.
LEMMA OnePage ==
  ASSUME ReceiptInv, NEW g \in Page, NEW s \in PageState, s.got = "ok" => s.state # "sending",
         page' = [page EXCEPT ![g] = s], applied' = applied
  PROVE  page' \in [Page -> PageState] /\ AnswersAreTrue'
<1>1. page \in [Page -> PageState]
  BY DEF ReceiptInv, TypeOK
<1>2. page' \in [Page -> PageState] /\ page'[g] = s /\ \A h \in Page : h # g => page'[h] = page[h]
  BY <1>1
<1>3. AnswersAreTrue'
  <2> SUFFICES ASSUME NEW h \in Page
               PROVE  Is(h, "sending")' /\ page'[h].got = "ok" => applied'[HeadOp(h)'] > 0
    BY DEF AnswersAreTrue
  <2>1. CASE h # g
    <3>1. page'[h] = page[h]
      BY <1>2, <2>1
    <3> QED BY <3>1 DEF ReceiptInv, AnswersAreTrue, Is, HeadOp
  <2>2. CASE h = g
    BY <1>2, <2>2 DEF Is, HeadOp
  <2> QED BY <2>1, <2>2
<1> QED BY <1>2, <1>3

\* The next change starts without an answer.
LEMMA ReadyPages ==
  ASSUME TypeOK, NEW g \in Page
  PROVE  Ready(page[g].head + 1) \in PageState /\ Ready(page[g].head + 1).got = ""
<1>1. page[g] \in PageState
  BY DEF TypeOK
<1>2. page[g].head + 1 \in Nat \ {0}
  <2>1. page[g].head \in Nat
    BY <1>1 DEF PageState
  <2> QED BY <2>1
<1> QED BY <1>2, ReceiptConstants DEF Ready, PageState

\* A page calls a change saved after an answer or a receipt that said so.
LEMMA AcceptStep ==
  ASSUME ReceiptInv, NEW g \in Page, Accept(g), applied[HeadOp(g)] > 0, HeadOp(g) \in Op,
         UNCHANGED <<server, issued, calls, resends>>
  PROVE  ReceiptInv'
<1>1. page' \in [Page -> PageState] /\ AnswersAreTrue'
  BY ReadyPages, OnePage DEF ReceiptInv, Accept, server
<1>2. outcome' \in [Op -> {"pending", "confirmed", "refused"}]
      /\ \A o \in Op : outcome'[o] = "confirmed" => outcome[o] = "confirmed" \/ o = HeadOp(g)
  BY DEF ReceiptInv, TypeOK, Accept
<1>3. ConfirmedWasApplied'
  BY <1>2 DEF ReceiptInv, ConfirmedWasApplied, server
<1>4. TypeOK'
  BY <1>1, <1>2 DEF ReceiptInv, TypeOK, Accept, server
<1> QED BY <1>1, <1>3, <1>4, PageStep DEF ReceiptInv

\* A withdrawn change was confirmed to nobody.
LEMMA WithdrawStep ==
  ASSUME ReceiptInv, NEW g \in Page, Withdraw(g), UNCHANGED <<server, issued, calls, resends>>
  PROVE  ReceiptInv'
<1>1. page' \in [Page -> PageState] /\ AnswersAreTrue'
  BY ReadyPages, OnePage DEF ReceiptInv, Withdraw, server
<1>2. outcome' \in [Op -> {"pending", "confirmed", "refused"}]
      /\ \A o \in Op : outcome'[o] = "confirmed" => outcome[o] = "confirmed"
  BY DEF ReceiptInv, TypeOK, Withdraw
<1>3. ConfirmedWasApplied'
  BY <1>2 DEF ReceiptInv, ConfirmedWasApplied, server
<1>4. TypeOK'
  BY <1>1, <1>2 DEF ReceiptInv, TypeOK, Withdraw, server
<1> QED BY <1>1, <1>3, <1>4, PageStep DEF ReceiptInv

\* The other steps of a page only change what it waits for.
LEMMA WaitStep ==
  ASSUME ReceiptInv, NEW g \in Page, NEW s \in PageState, s.got = "ok" => s.state # "sending",
         page' = [page EXCEPT ![g] = s],
         UNCHANGED <<server, issued, calls, outcome, late>>, resends' \in 0..MaxResends
  PROVE  ReceiptInv'
<1>1. page' \in [Page -> PageState] /\ AnswersAreTrue'
  BY OnePage DEF server
<1>2. TypeOK'
  BY <1>1 DEF ReceiptInv, TypeOK, server
<1>3. ConfirmedWasApplied'
  BY DEF ReceiptInv, ConfirmedWasApplied, server
<1> QED BY <1>1, <1>2, <1>3, PageStep DEF ReceiptInv

\* A page that starts to check forgets the answer it had.
LEMMA CheckStep ==
  ASSUME ReceiptInv, NEW g \in Page, Check(g), UNCHANGED <<server, issued, calls, resends>>
  PROVE  ReceiptInv'
<1> DEFINE s == [page[g] EXCEPT !.state = "checking", !.got = "", !.canRetry = FALSE]
<1>1. page[g] \in PageState /\ resends \in 0..MaxResends
  BY DEF ReceiptInv, TypeOK
<1>2. s \in PageState /\ s.got = ""
  BY <1>1 DEF PageState
<1>3. page' = [page EXCEPT ![g] = s]
  BY DEF Check
<1>4. UNCHANGED <<server, issued, calls, outcome, late>>
  BY DEF Check
<1> HIDE DEF s
<1> QED BY <1>1, <1>2, <1>3, <1>4, WaitStep

\* A page in doubt has no answer.
LEMMA DoubtStep ==
  ASSUME ReceiptInv, NEW g \in Page, NEW retry \in BOOLEAN, Doubt(g, retry),
         UNCHANGED <<server, issued, calls, resends>>
  PROVE  ReceiptInv'
<1> DEFINE s == [page[g] EXCEPT !.state = "uncertain", !.canRetry = retry]
<1>1. page[g] \in PageState /\ resends \in 0..MaxResends
  BY DEF ReceiptInv, TypeOK
<1>2. s \in PageState /\ s.state # "sending"
  BY <1>1 DEF PageState
<1>3. page' = [page EXCEPT ![g] = s]
  BY DEF Doubt
<1>4. UNCHANGED <<server, issued, calls, outcome, late>>
  BY DEF Doubt
<1> HIDE DEF s
<1> QED BY <1>1, <1>2, <1>3, <1>4, WaitStep

\* A receipt is the proof of a change; without one the page stays in doubt.
LEMMA LookupStep ==
  ASSUME ReceiptInv, NEW g \in Page, Lookup(g)
  PROVE  ReceiptInv'
<1>1. Is(g, "checking") /\ UNCHANGED <<server, issued, calls, resends>>
  BY DEF Lookup
<1>2. CASE HeadOp(g) \in receipts /\ Accept(g)
  <2>1. HeadOp(g) \in Op /\ applied[HeadOp(g)] > 0
    BY <1>1, <1>2, HeadIsOp DEF ReceiptInv, ReceiptsAreApplied
  <2> QED BY <1>1, <1>2, <2>1, AcceptStep
<1>3. CASE Doubt(g, ~Expired(HeadOp(g), clock))
  BY <1>1, <1>3, DoubtStep
<1>4. CASE Doubt(g, FALSE)
  BY <1>1, <1>4, DoubtStep
<1> QED BY <1>2, <1>3, <1>4 DEF Lookup

\* A page that is told to retry sends the same change next.
LEMMA RetryStep ==
  ASSUME ReceiptInv, NEW g \in Page, Retry(g)
  PROVE  ReceiptInv'
<1> DEFINE s == [page[g] EXCEPT !.state = "next", !.canRetry = FALSE]
<1>1. page[g] \in PageState /\ resends \in 0..MaxResends /\ MaxResends \in Nat
  BY ReceiptConstants DEF ReceiptInv, TypeOK
<1>2. resends' \in 0..MaxResends
  BY <1>1 DEF Retry
<1>3. /\ page' = [page EXCEPT ![g] = s]
      /\ UNCHANGED <<server, issued, calls, outcome, late>>
  BY DEF Retry
<1>4. s \in PageState /\ s.state # "sending"
  BY <1>1 DEF PageState
<1> HIDE DEF s
<1> QED BY <1>2, <1>3, <1>4, WaitStep

\* A call is made under the id drawn once for its change.
LEMMA SendStep ==
  ASSUME ReceiptInv, NEW g \in Page, Send(g)
  PROVE  ReceiptInv'
<1> DEFINE s == [page[g] EXCEPT !.state = "sending", !.try = @ + 1, !.got = ""]
           c == [op |-> HeadOp(g), try |-> page[g].try + 1, seen |-> {clock}]
<1>1. page[g] \in PageState /\ HeadOp(g) \in Op
  BY HeadIsOp DEF ReceiptInv, TypeOK, Send
<1>2. /\ page' = [page EXCEPT ![g] = s]
      /\ calls' = calls \cup {c}
      /\ UNCHANGED <<server, outcome, resends>>
      /\ late' = late \cup ({HeadOp(g)} \cap {d.op : d \in calls})
  BY DEF Send
\* The id of a change is drawn with its first call and stays.
<1>3. /\ issued' \in [Op -> Time \cup {0}]
      /\ issued'[HeadOp(g)] # 0
      /\ \A o \in Op : issued[o] # 0 => issued'[o] = issued[o]
  <2>1. CASE issued[HeadOp(g)] = 0
    <3>1. PICK t \in Time : issued' = [issued EXCEPT ![HeadOp(g)] = t]
      BY <2>1 DEF Send
    <3> QED BY <1>1, <2>1, <3>1 DEF ReceiptInv, TypeOK, Time
  <2>2. CASE issued[HeadOp(g)] # 0
    BY <2>2 DEF Send, ReceiptInv, TypeOK
  <2> QED BY <2>1, <2>2
<1>4. page[g].try + 1 \in Nat
  <2>1. page[g].try \in Nat
    BY <1>1 DEF PageState
  <2> QED BY <2>1
<1>5. s \in PageState /\ s.got = ""
  BY <1>1, <1>4 DEF PageState
<1>6. c \in Call /\ c.op = HeadOp(g)
  BY <1>1, <1>4 DEF ReceiptInv, TypeOK, Call
<1> HIDE DEF s, c
<1>8. page' \in [Page -> PageState] /\ AnswersAreTrue'
  BY <1>2, <1>5, OnePage DEF server
<1>9. TypeOK'
  BY <1>1, <1>2, <1>3, <1>6, <1>8 DEF ReceiptInv, TypeOK, server
<1>10. CallsHaveIds'
  <2> SUFFICES ASSUME NEW d \in calls'
               PROVE  issued'[d.op] # 0
    BY DEF CallsHaveIds
  <2>1. CASE d \in calls
    <3>1. d.op \in Op /\ issued[d.op] # 0
      BY <2>1 DEF ReceiptInv, CallsHaveIds, TypeOK, Call
    <3> QED BY <1>3, <3>1
  <2>2. CASE d = c
    BY <1>3, <1>6, <2>2
  <2> QED BY <1>2, <2>1, <2>2
<1>11. AppliedHasReceipt'
  BY <1>2, <1>3 DEF ReceiptInv, AppliedHasReceipt, server
<1>12. ReceiptsAreApplied' /\ AppliedAtMostOnce' /\ ConfirmedWasApplied'
  BY <1>2 DEF ReceiptInv, ReceiptsAreApplied, AppliedAtMostOnce, ConfirmedWasApplied, server
<1> QED BY <1>8, <1>9, <1>10, <1>11, <1>12 DEF ReceiptInv

\* The clock and the calls on the way say nothing of what was applied.
LEMMA ClockStep ==
  ASSUME ReceiptInv, clock' \in Time \cup {0}, setBacks' \in 0..MaxSetBacks,
         UNCHANGED <<issued, receipts, floor, applied, page, outcome, late, resends>>,
         calls' \in SUBSET Call, \A c \in calls' : \E d \in calls : c.op = d.op
  PROVE  ReceiptInv'
<1>1. TypeOK'
  BY DEF ReceiptInv, TypeOK
<1>2. CallsHaveIds' /\ AppliedHasReceipt' /\ ReceiptsAreApplied' /\ AppliedAtMostOnce'
      /\ ConfirmedWasApplied'
  BY DEF ReceiptInv, CallsHaveIds, AppliedHasReceipt, ReceiptsAreApplied, AppliedAtMostOnce,
         ConfirmedWasApplied
<1>3. AnswersAreTrue'
  BY DEF ReceiptInv, AnswersAreTrue, Is, HeadOp
<1> QED BY <1>1, <1>2, <1>3 DEF ReceiptInv

\* The clock moves, and the calls under way may read it.
LEMMA ShowStep ==
  ASSUME ReceiptInv, NEW t \in Time \cup {0}, Show(t), setBacks' \in 0..MaxSetBacks
  PROVE  ReceiptInv'
<1>1. calls' = {[c EXCEPT !.seen = @ \cup {t}] : c \in calls}
  BY DEF Show
<1>2. \A c \in Call : [c EXCEPT !.seen = @ \cup {t}] \in Call /\ [c EXCEPT !.seen = @ \cup {t}].op = c.op
  BY DEF Call
<1>3. calls' \in SUBSET Call /\ \A c \in calls' : \E d \in calls : c.op = d.op
  BY <1>1, <1>2 DEF ReceiptInv, TypeOK
<1> QED BY <1>3, ClockStep DEF Show

\* Every step of the server, the network, the pages and the clock.
LEMMA ReceiptStep == ReceiptInv /\ [Next]_vars => ReceiptInv'
<1> SUFFICES ASSUME ReceiptInv, [Next]_vars PROVE ReceiptInv'
  OBVIOUS
<1>1. ASSUME NEW c \in calls, Handle(c) PROVE ReceiptInv'
  <2>1. CASE AnswerAgain(c)
    BY <2>1, AnswerStep DEF AnswerAgain
  <2>2. CASE RefuseTime(c)
    BY <2>2, AnswerStep DEF RefuseTime
  <2>3. CASE RefuseExpired(c)
    BY <2>3, AnswerStep DEF RefuseExpired
  <2>4. CASE Apply(c)
    BY <2>4, ApplyStep
  <2>5. CASE Refuse(c)
    BY <2>5, AnswerStep DEF Refuse
  <2>6. CASE Fail(c)
    BY <2>6, AnswerStep DEF Fail
  <2> QED BY <1>1, <2>1, <2>2, <2>3, <2>4, <2>5, <2>6 DEF Handle
<1>2. ASSUME NEW c \in calls, Lose(c) PROVE ReceiptInv'
  <2>1. calls' \in SUBSET calls /\ calls' \in SUBSET Call /\ UNCHANGED <<server, issued, page, outcome, late, resends>>
    BY <1>2 DEF Lose, ReceiptInv, TypeOK
  <2>2. clock' \in Time \cup {0} /\ setBacks' \in 0..MaxSetBacks
    BY <2>1 DEF ReceiptInv, TypeOK, server
  <2> QED BY <2>1, <2>2, ClockStep DEF server
<1>3. ASSUME NEW g \in Page, Receive(g) PROVE ReceiptInv'
  <2>1. UNCHANGED <<server, issued, calls, resends>>
    BY <1>3 DEF Receive
  <2>2. CASE Confirmed(g) /\ Accept(g)
    <3>1. HeadOp(g) \in Op /\ applied[HeadOp(g)] > 0
      BY <2>2, HeadIsOp DEF ReceiptInv, Confirmed, AnswersAreTrue
    <3> QED BY <2>1, <2>2, <3>1, AcceptStep
  <2>3. CASE Withdraw(g)
    BY <2>1, <2>3, WithdrawStep
  <2>4. CASE Check(g)
    BY <2>1, <2>4, CheckStep
  <2> QED BY <1>3, <2>2, <2>3, <2>4 DEF Receive
<1>4. ASSUME NEW g \in Page, GiveUp(g) \/ Verify(g) PROVE ReceiptInv'
  BY <1>4, CheckStep DEF GiveUp, Verify
<1>5. ASSUME NEW g \in Page, RejectUnsent(g) PROVE ReceiptInv'
  BY <1>5, WithdrawStep DEF RejectUnsent
<1>6. CASE Tick
  <2>1. clock + 1 \in Time /\ setBacks' \in 0..MaxSetBacks
    BY <1>6, ReceiptConstants DEF Tick, ReceiptInv, TypeOK, Time
  <2> QED BY <1>6, <2>1, ShowStep DEF Tick
<1>7. CASE SetBack
  <2>1. setBacks' \in 0..MaxSetBacks
    BY <1>7, ReceiptConstants DEF SetBack, ReceiptInv, TypeOK
  <2> QED BY <1>7, <2>1, ShowStep DEF SetBack
<1>8. CASE UNCHANGED vars
  <2>1. UNCHANGED <<issued, receipts, floor, applied, calls, page, outcome, late, resends>>
        /\ clock' = clock /\ setBacks' = setBacks
    BY <1>8 DEF vars
  <2> QED BY <2>1, ClockStep DEF ReceiptInv, TypeOK
<1> QED BY <1>1, <1>2, <1>3, <1>4, <1>5, <1>6, <1>7, <1>8, SendStep, LookupStep, RetryStep DEF Next

\* A change that was applied has its receipt or an id the floor has passed.
THEOREM ReceiptsInvariant == Spec => []ReceiptInv
<1> QED BY ReceiptInit, ReceiptStep, PTL DEF Spec

\* A change is applied at most once, however often it is sent and whatever the
\* clocks say (receiptExpired and the floor).
THEOREM ChangesApplyOnce == Spec => []AppliedAtMostOnce
<1>1. ReceiptInv => AppliedAtMostOnce
  BY DEF ReceiptInv
<1> QED BY <1>1, ReceiptsInvariant, PTL

\* "missing" is the truth: the page may send the change again.
THEOREM MissingIsTrue == Spec => []MissingMeansNotApplied
<1>1. ReceiptInv => MissingMeansNotApplied
  BY DEF ReceiptInv, TypeOK, AppliedHasReceipt, MissingMeansNotApplied, Expired
<1> QED BY <1>1, ReceiptsInvariant, PTL

\* What a page calls saved was applied, exactly once.
THEOREM SavedIsApplied == Spec => []ConfirmedIsApplied
<1>1. ReceiptInv => ConfirmedIsApplied
  BY DEF ReceiptInv, TypeOK, ConfirmedWasApplied, AppliedAtMostOnce, ConfirmedIsApplied
<1> QED BY <1>1, ReceiptsInvariant, PTL
-----------------------------------------------------------------------------
\* The order of a page stays while it works on the same change: only that one is
\* sent, and only what was sent is applied.
LEMMA StayInOrder ==
  ASSUME PagesInOrder, outcome' = outcome, \A g \in Page : page'[g].head = page[g].head,
         \A o \in Op : /\ applied[o] = 0 /\ \A c \in calls : c.op # o
                       /\ \A g \in Page : HeadOp(g) # o
                       => applied'[o] = 0 /\ \A c \in calls' : c.op # o
  PROVE  PagesInOrder'
<1> SUFFICES ASSUME NEW g \in Page, NEW i \in 1..Changes[g]
             PROVE  /\ i < page[g].head => outcome[<<g, i>>] # "pending"
                    /\ i >= page[g].head => outcome[<<g, i>>] = "pending"
                    /\ i > page[g].head => applied'[<<g, i>>] = 0 /\ \A c \in calls' : c.op # <<g, i>>
  BY DEF PagesInOrder
<1>1. /\ i < page[g].head => outcome[<<g, i>>] # "pending"
      /\ i >= page[g].head => outcome[<<g, i>>] = "pending"
      /\ i > page[g].head => applied[<<g, i>>] = 0 /\ \A c \in calls : c.op # <<g, i>>
  BY DEF PagesInOrder
<1>2. i > page[g].head => \A h \in Page : HeadOp(h) # <<g, i>>
  <2> SUFFICES ASSUME i > page[g].head, NEW h \in Page, HeadOp(h) = <<g, i>>
               PROVE  FALSE
    OBVIOUS
  <2>1. h = g /\ page[h].head = i
    BY DEF HeadOp
  <2> QED BY <2>1
<1>3. <<g, i>> \in Op
  BY OpParts
<1> QED BY <1>1, <1>2, <1>3

\* The order of a page stays when it decides a change and goes on to the next.
LEMMA MoveOn ==
  ASSUME TypeOK, PagesInOrder, NEW g \in Page, HeadOp(g) \in Op, NEW v, v # "pending",
         page' = [page EXCEPT ![g] = Ready(page[g].head + 1)],
         outcome' = [outcome EXCEPT ![HeadOp(g)] = v],
         UNCHANGED <<applied, calls>>
  PROVE  PagesInOrder'
<1>1. /\ page'[g].head = page[g].head + 1
      /\ \A h \in Page : h # g => page'[h] = page[h]
      /\ page[g].head \in Nat
  BY DEF TypeOK, PageState, Ready
<1>2. outcome'[HeadOp(g)] = v /\ \A o \in Op : o # HeadOp(g) => outcome'[o] = outcome[o]
  BY DEF TypeOK
<1> SUFFICES ASSUME NEW h \in Page, NEW i \in 1..Changes[h]
             PROVE  /\ i < page'[h].head => outcome'[<<h, i>>] # "pending"
                    /\ i >= page'[h].head => outcome'[<<h, i>>] = "pending"
                    /\ i > page'[h].head => applied[<<h, i>>] = 0 /\ \A c \in calls : c.op # <<h, i>>
  BY DEF PagesInOrder
<1>3. /\ i < page[h].head => outcome[<<h, i>>] # "pending"
      /\ i >= page[h].head => outcome[<<h, i>>] = "pending"
      /\ i > page[h].head => applied[<<h, i>>] = 0 /\ \A c \in calls : c.op # <<h, i>>
  BY DEF PagesInOrder
<1>4. <<h, i>> \in Op
  BY OpParts
<1>5. CASE h # g
  <2>1. <<h, i>> # HeadOp(g)
    BY <1>5 DEF HeadOp
  <2> QED BY <1>1, <1>2, <1>3, <1>4, <1>5, <2>1
<1>6. CASE h = g /\ i = page[g].head
  <2>1. <<h, i>> = HeadOp(g)
    BY <1>6 DEF HeadOp
  <2> QED BY <1>1, <1>2, <1>6, <2>1
<1>7. CASE h = g /\ i # page[g].head
  <2>1. <<h, i>> # HeadOp(g)
    BY <1>7 DEF HeadOp
  <2>2. i \in Nat
    BY ReceiptConstants
  <2>3. outcome'[<<h, i>>] = outcome[<<h, i>>]
    BY <1>2, <1>4, <2>1
  <2> QED BY <1>1, <1>3, <1>7, <2>2, <2>3
<1> QED BY <1>5, <1>6, <1>7

\* A change is refused by its outcome, or by an answer its page has not read.
LEMMA OnePageRefused ==
  ASSUME TypeOK, NEW g \in Page, NEW s, s.state # "sending" \/ s.got # "refused",
         page' = [page EXCEPT ![g] = s]
  PROVE  \A o : RefusedFor(o)' => RefusedFor(o) \/ outcome'[o] = "refused"
<1>1. page'[g] = s /\ \A h \in Page : h # g => page'[h] = page[h]
  BY DEF TypeOK
<1> SUFFICES ASSUME NEW o, NEW h \in Page, page'[h].state = "sending", page'[h].head <= Changes[h],
                    page'[h].got = "refused", <<h, page'[h].head>> = o
             PROVE  RefusedFor(o)
  BY DEF RefusedFor, Is, HeadOp
<1>2. h # g
  BY <1>1
<1>3. page'[h] = page[h]
  BY <1>1, <1>2
<1> QED BY <1>3 DEF RefusedFor, Is, HeadOp

\* A refusal stays final when calls end and nothing is applied.
LEMMA RefusalStays ==
  ASSUME RefusedSound, UNCHANGED <<clock, setBacks, issued, applied, late>>, calls' \in SUBSET calls,
         setBacks = 0 => \A o \in Op \ late : RefusedFor(o)' => RefusedFor(o) \/ NoTrace(o)'
  PROVE  RefusedSound'
<1> SUFFICES ASSUME setBacks = 0
             PROVE  /\ \A c \in calls' : \A t \in c.seen : t <= clock
                    /\ \A o \in Op \ late : OneCall(o)' /\ InTime(o)' /\ (RefusedFor(o)' => NoTrace(o)')
  BY DEF RefusedSound
<1>1. \A c \in calls' : \A t \in c.seen : t <= clock
  BY DEF RefusedSound
<1>2. ASSUME NEW o \in Op \ late
      PROVE  OneCall(o)' /\ InTime(o)' /\ (RefusedFor(o)' => NoTrace(o)')
  <2>1. OneCall(o) /\ InTime(o) /\ (RefusedFor(o) => NoTrace(o))
    BY DEF RefusedSound
  <2>2. OneCall(o)'
    BY <2>1 DEF OneCall
  <2>3. InTime(o)'
    BY <2>1 DEF InTime
  <2>4. NoTrace(o) => NoTrace(o)'
    BY DEF NoTrace
  <2> QED BY <2>1, <2>2, <2>3, <2>4
<1> QED BY <1>1, <1>2

\* No page has sent or heard anything at the start.
LEMMA PagesInit == Init => PagesInv
<1> SUFFICES ASSUME Init PROVE PagesInv
  OBVIOUS
<1>1. \A g \in Page : page[g].head = 1 /\ page[g].state = "next"
  BY DEF Init, Ready
<1>2. PagesInOrder
  <2> SUFFICES ASSUME NEW g \in Page, NEW i \in 1..Changes[g]
               PROVE  ~(i < 1) /\ outcome[<<g, i>>] = "pending" /\ applied[<<g, i>>] = 0 /\ calls = {}
    BY <1>1 DEF PagesInOrder
  <2>1. <<g, i>> \in Op
    BY OpParts
  <2> QED BY <2>1, ReceiptConstants DEF Init
<1>3. RefusedSound
  BY <1>1, ReceiptConstants DEF Init, RefusedSound, OneCall, InTime, RefusedFor, Is, Time
<1> QED BY <1>2, <1>3, ReceiptInit DEF PagesInv

\* An answer: the page that is told "refused" of a change is told the truth.
LEMMA AnswerPages ==
  ASSUME PagesInv, NEW c \in calls, NEW what \in {"ok", "refused", "expired", "failed"}, Answer(c, what),
         UNCHANGED <<server, issued, outcome, late, resends>>,
         what = "refused" /\ setBacks = 0 /\ c.op \notin late => applied[c.op] = 0
  PROVE  PagesInOrder' /\ RefusedSound'
<1>1. /\ calls' = calls \ {c}
      /\ UNCHANGED <<clock, setBacks, issued, applied, late, outcome>>
      /\ c.op \in Op
  BY DEF Answer, server, PagesInv, ReceiptInv, TypeOK, Call
<1>2. \A g \in Page : /\ page'[g].head = page[g].head
                      /\ page'[g].state = page[g].state
                      /\ \/ page'[g].got = page[g].got
                         \/ /\ page'[g].got = what
                            /\ page[g].state = "sending"
                            /\ c.op = HeadOp(g)
  BY AnswerKeepsPages DEF PagesInv, ReceiptInv
<1>3. PagesInOrder'
  BY <1>1, <1>2, StayInOrder DEF PagesInv
<1>4. ASSUME setBacks = 0, NEW o \in Op \ late, RefusedFor(o)'
      PROVE  RefusedFor(o) \/ NoTrace(o)'
  <2>1. CASE outcome[o] = "refused"
    BY <2>1 DEF RefusedFor
  <2>2. CASE outcome[o] # "refused"
    <3>1. PICK g \in Page : /\ page'[g].state = "sending" /\ page'[g].head <= Changes[g]
                            /\ page'[g].got = "refused" /\ <<g, page'[g].head>> = o
      BY <1>1, <1>4, <2>2 DEF RefusedFor, Is, HeadOp
    <3>2. CASE page'[g].got = page[g].got
      BY <1>2, <3>1, <3>2 DEF RefusedFor, Is, HeadOp
    <3>3. CASE what = "refused" /\ c.op = HeadOp(g)
      <4>1. c.op = o
        BY <1>2, <3>1, <3>3 DEF HeadOp
      <4>2. applied[o] = 0
        BY <1>4, <3>3, <4>1
      <4>3. OneCall(o)
        BY <1>4 DEF PagesInv, RefusedSound
      <4>4. \A d \in calls' : d.op # o
        BY <1>1, <4>1, <4>3 DEF OneCall
      <4> QED BY <1>1, <4>2, <4>4 DEF NoTrace
    <3> QED BY <1>2, <3>1, <3>2, <3>3
  <2> QED BY <2>1, <2>2
<1>5. RefusedSound'
  BY <1>1, <1>4, RefusalStays DEF PagesInv
<1> QED BY <1>3, <1>5

\* A change that is applied was not refused before: its call was under way.
LEMMA ApplyPages ==
  ASSUME PagesInv, NEW c \in calls, Apply(c)
  PROVE  PagesInOrder' /\ RefusedSound'
<1>1. PICK now \in c.seen : Fresh(c.op, now)
  BY DEF Apply
<1>2. /\ Answer(c, "ok") /\ calls' = calls \ {c}
      /\ UNCHANGED <<clock, setBacks, issued, outcome, late>>
      /\ applied' = [applied EXCEPT ![c.op] = @ + 1]
  BY DEF Apply, Answer
<1>3. c.op \in Op /\ now \in Int
  BY <1>1 DEF PagesInv, ReceiptInv, TypeOK, Call, Time
<1>4. \A o \in Op : o # c.op => applied'[o] = applied[o]
  BY <1>2 DEF PagesInv, ReceiptInv, TypeOK
<1>5. \A g \in Page : /\ page'[g].head = page[g].head
                      /\ page'[g].state = page[g].state
                      /\ page'[g].got = page[g].got \/ page'[g].got = "ok"
  BY <1>2, AnswerKeepsPages DEF PagesInv, ReceiptInv
<1>6. PagesInOrder'
  <2>1. \A o \in Op : applied[o] = 0 /\ (\A d \in calls : d.op # o)
                      => applied'[o] = 0 /\ \A d \in calls' : d.op # o
    BY <1>2, <1>4
  <2> QED BY <1>2, <1>5, <2>1, StayInOrder DEF PagesInv
<1>7. \A o : RefusedFor(o)' => RefusedFor(o)
  BY <1>2, <1>5 DEF RefusedFor, Is, HeadOp
<1>8. RefusedSound'
  <2> SUFFICES ASSUME setBacks = 0
               PROVE  /\ \A d \in calls' : \A t \in d.seen : t <= clock
                      /\ \A o \in Op \ late : OneCall(o)' /\ InTime(o)' /\ (RefusedFor(o)' => NoTrace(o)')
    BY <1>2 DEF RefusedSound
  <2>1. \A d \in calls : \A t \in d.seen : t <= clock
    BY DEF PagesInv, RefusedSound
  <2>2. ASSUME NEW o \in Op \ late
        PROVE  OneCall(o)' /\ InTime(o)' /\ (RefusedFor(o)' => NoTrace(o)')
    <3>1. OneCall(o) /\ InTime(o) /\ (RefusedFor(o) => NoTrace(o))
      BY DEF PagesInv, RefusedSound
    <3>2. OneCall(o)'
      BY <1>2, <3>1 DEF OneCall
    <3>3. CASE o # c.op
      <4>1. applied'[o] = applied[o]
        BY <1>4, <3>3
      <4>2. InTime(o)'
        BY <1>2, <3>1, <4>1 DEF InTime
      <4>3. NoTrace(o) => NoTrace(o)'
        BY <1>2, <4>1 DEF NoTrace
      <4> QED BY <1>7, <3>1, <3>2, <4>2, <4>3
    <3>4. CASE o = c.op
      <4>1. \A d \in calls' : d.op # o
        BY <1>2, <3>1, <3>4 DEF OneCall
      <4>2. issued[o] <= clock + Ahead
        <5>1. issued[o] \in Int /\ clock \in Int /\ Ahead \in Int
          BY ReceiptConstants DEF PagesInv, ReceiptInv, TypeOK, Time
        <5>2. ~(issued[o] > now + Ahead) /\ now <= clock
          BY <1>1, <2>1, <3>4 DEF Fresh, TooFarAhead
        <5> QED BY <1>3, <5>1, <5>2
      <4>3. InTime(o)'
        BY <1>2, <4>1, <4>2 DEF InTime
      <4>4. ~NoTrace(o)
        BY <3>4 DEF NoTrace
      <4> QED BY <1>7, <3>1, <3>2, <4>3, <4>4
    <3> QED BY <3>3, <3>4
  <2> QED BY <1>2, <2>1, <2>2
<1> QED BY <1>6, <1>8

\* A change is sent again only while it is undecided; a page that waited has no
\* other call of it under way.
LEMMA SendPages ==
  ASSUME PagesInv, NEW g \in Page, Send(g)
  PROVE  PagesInOrder' /\ RefusedSound'
<1> DEFINE s == [page[g] EXCEPT !.state = "sending", !.try = @ + 1, !.got = ""]
           c == [op |-> HeadOp(g), try |-> page[g].try + 1, seen |-> {clock}]
<1>0. PICK h : h = HeadOp(g)
  OBVIOUS
<1>1. /\ page' = [page EXCEPT ![g] = s]
      /\ calls' = calls \cup {c}
      /\ UNCHANGED <<clock, setBacks, applied, outcome>>
      /\ late' = late \cup ({h} \cap {d.op : d \in calls})
  BY <1>0 DEF Send, server
<1>2. h \in Op /\ page[g] \in PageState /\ page[g].head <= Changes[g]
  BY <1>0, HeadIsOp DEF PagesInv, ReceiptInv, TypeOK, Send, Is
<1>3. s.got = "" /\ s.head = page[g].head /\ c.op = h /\ c.seen = {clock}
  BY <1>0, <1>2 DEF PageState
<1>4. h = <<g, page[g].head>>
  BY <1>0 DEF HeadOp
<1> HIDE DEF s, c
<1>5. outcome[h] = "pending"
  <2>1. page[g].head \in Nat \ {0}
    BY <1>2 DEF PageState
  <2>2. page[g].head \in 1..Changes[g]
    BY <1>2, <2>1, ReceiptConstants
  <2>3. /\ page[g].head >= page[g].head
        /\ page[g].head >= page[g].head => outcome[<<g, page[g].head>>] = "pending"
    BY <2>1, <2>2 DEF PagesInv, PagesInOrder
  <2> QED BY <1>4, <2>3
<1>6. \A o \in Op : issued[o] # 0 => issued'[o] = issued[o]
  BY DEF Send, PagesInv, ReceiptInv, TypeOK, HeadOp
<1>7. \A p \in Page : page'[p].head = page[p].head
  BY <1>1, <1>3 DEF PagesInv, ReceiptInv, TypeOK
<1>8. PagesInOrder'
  <2>1. \A o \in Op : (\A d \in calls : d.op # o) /\ (\A p \in Page : HeadOp(p) # o)
                      => \A d \in calls' : d.op # o
    BY <1>0, <1>1, <1>3
  <2> QED BY <1>1, <1>7, <2>1, StayInOrder DEF PagesInv
<1>9. \A o : RefusedFor(o)' => RefusedFor(o)
  <2>1. \A o : RefusedFor(o)' => RefusedFor(o) \/ outcome'[o] = "refused"
    BY <1>1, <1>3, OnePageRefused DEF PagesInv, ReceiptInv
  <2> QED BY <1>1, <2>1 DEF RefusedFor
<1>10. ~RefusedFor(h)'
  <2> SUFFICES ASSUME NEW p \in Page, page'[p].got = "refused", <<p, page'[p].head>> = h
               PROVE  FALSE
    BY <1>1, <1>5 DEF RefusedFor, HeadOp
  <2>1. p = g
    BY <1>4
  <2>2. page'[g] = s
    BY <1>1 DEF PagesInv, ReceiptInv, TypeOK
  <2> QED BY <1>3, <2>1, <2>2
<1>11. RefusedSound'
  <2> SUFFICES ASSUME setBacks = 0
               PROVE  /\ \A d \in calls' : \A t \in d.seen : t <= clock
                      /\ \A o \in Op \ late' : OneCall(o)' /\ InTime(o)' /\ (RefusedFor(o)' => NoTrace(o)')
    BY <1>1 DEF RefusedSound
  <2>1. clock \in Int /\ Ahead \in Nat
    BY ReceiptConstants DEF PagesInv, ReceiptInv, TypeOK, Time
  <2>2. \A d \in calls' : \A t \in d.seen : t <= clock
    <3> SUFFICES ASSUME NEW d \in calls', NEW t \in d.seen
                 PROVE  t <= clock
      OBVIOUS
    <3>1. CASE d \in calls
      BY <3>1 DEF PagesInv, RefusedSound
    <3>2. CASE d = c
      <4>1. d.seen = {clock}
        BY <1>3, <3>2
      <4>2. t = clock
        BY <4>1
      <4> QED BY <2>1, <4>2
    <3> QED BY <1>1, <3>1, <3>2
  <2>3. ASSUME NEW o \in Op \ late'
        PROVE  OneCall(o)' /\ InTime(o)' /\ (RefusedFor(o)' => NoTrace(o)')
    <3>0. o \in Op /\ o \notin late
      BY <1>1
    <3>1. OneCall(o) /\ InTime(o) /\ (RefusedFor(o) => NoTrace(o))
      BY <3>0 DEF PagesInv, RefusedSound
    <3>2. applied[o] > 0 => issued[o] # 0 /\ issued'[o] = issued[o]
      BY <1>6, <3>0 DEF PagesInv, ReceiptInv, AppliedHasReceipt
    <3>3. CASE o # h
      <4>1. \A d \in calls' : d.op = o => d \in calls
        BY <1>1, <1>3, <3>3
      <4>2. OneCall(o)'
        BY <3>1, <4>1 DEF OneCall
      <4>3. InTime(o)'
        BY <1>1, <3>1, <3>2, <4>1 DEF InTime
      <4>4. NoTrace(o) => NoTrace(o)'
        BY <1>1, <4>1 DEF NoTrace
      <4> QED BY <1>9, <3>1, <4>2, <4>3, <4>4
    <3>4. CASE o = h
      <4>1. \A d \in calls : d.op # o
        BY <1>1, <3>4
      <4>2. OneCall(o)'
        BY <1>1, <4>1 DEF OneCall
      <4>3. InTime(o)'
        BY <1>1, <1>3, <3>1, <3>2, <4>1 DEF InTime
      <4> QED BY <1>10, <3>4, <4>2, <4>3
    <3> QED BY <3>3, <3>4
  <2> QED BY <2>2, <2>3
<1> QED BY <1>8, <1>11

\* A page that waits on, or checks, refuses nothing.
LEMMA WaitPages ==
  ASSUME PagesInv, NEW g \in Page, NEW s, s.head = page[g].head, s.state # "sending",
         page' = [page EXCEPT ![g] = s], UNCHANGED <<server, issued, calls, outcome, late>>
  PROVE  PagesInOrder' /\ RefusedSound'
<1>1. UNCHANGED <<clock, setBacks, issued, applied, late>> /\ calls' = calls
  BY DEF server
<1>2. \A p \in Page : page'[p].head = page[p].head
  BY DEF PagesInv, ReceiptInv, TypeOK
<1>3. PagesInOrder'
  BY <1>1, <1>2, StayInOrder DEF PagesInv
<1>4. \A o : RefusedFor(o)' => RefusedFor(o)
  <2>1. \A o : RefusedFor(o)' => RefusedFor(o) \/ outcome'[o] = "refused"
    BY OnePageRefused DEF PagesInv, ReceiptInv
  <2> QED BY <2>1 DEF RefusedFor
<1>5. RefusedSound'
  BY <1>1, <1>4, RefusalStays DEF PagesInv
<1> QED BY <1>3, <1>5

\* A page forgets the answer when it checks, and doubts, without one.
LEMMA CheckPages ==
  ASSUME PagesInv, NEW g \in Page, UNCHANGED <<server, issued, calls, resends>>,
         Check(g) \/ \E retry \in BOOLEAN : Doubt(g, retry)
  PROVE  PagesInOrder' /\ RefusedSound'
<1>1. page[g] \in PageState
  BY DEF PagesInv, ReceiptInv, TypeOK
<1>2. CASE Check(g)
  <2> DEFINE s == [page[g] EXCEPT !.state = "checking", !.got = "", !.canRetry = FALSE]
  <2>1. s.head = page[g].head /\ s.state # "sending"
    BY <1>1 DEF PageState
  <2>2. page' = [page EXCEPT ![g] = s] /\ UNCHANGED <<server, issued, calls, outcome, late>>
    BY <1>2 DEF Check
  <2> HIDE DEF s
  <2> QED BY <2>1, <2>2, WaitPages
<1>3. ASSUME NEW retry \in BOOLEAN, Doubt(g, retry)
      PROVE  PagesInOrder' /\ RefusedSound'
  <2> DEFINE s == [page[g] EXCEPT !.state = "uncertain", !.canRetry = retry]
  <2>1. s.head = page[g].head /\ s.state # "sending"
    BY <1>1 DEF PageState
  <2>2. page' = [page EXCEPT ![g] = s] /\ UNCHANGED <<server, issued, calls, outcome, late>>
    BY <1>3 DEF Doubt
  <2> HIDE DEF s
  <2> QED BY <2>1, <2>2, WaitPages
<1> QED BY <1>2, <1>3

\* A decided change: it is saved, or nothing is left of it.
LEMMA DecidePages ==
  ASSUME PagesInv, NEW g \in Page, HeadOp(g) \in Op, UNCHANGED <<server, issued, calls, resends>>,
         \/ Accept(g)
         \/ Withdraw(g) /\ (RefusedFor(HeadOp(g)) \/ NoTrace(HeadOp(g)))
  PROVE  PagesInOrder' /\ RefusedSound'
<1>1. PICK v \in {"confirmed", "refused"} :
        /\ page' = [page EXCEPT ![g] = Ready(page[g].head + 1)]
        /\ outcome' = [outcome EXCEPT ![HeadOp(g)] = v]
        /\ late' = late
        /\ v = "refused" => RefusedFor(HeadOp(g)) \/ NoTrace(HeadOp(g))
  BY DEF Accept, Withdraw
<1>2. UNCHANGED <<clock, setBacks, issued, applied, late>> /\ calls' = calls
  BY <1>1 DEF server
<1>3. PagesInOrder'
  BY <1>1, <1>2, MoveOn DEF PagesInv, ReceiptInv
<1>4. \A o \in Op : RefusedFor(o)' => RefusedFor(o) \/ NoTrace(o)'
  <2> SUFFICES ASSUME NEW o \in Op, RefusedFor(o)'
               PROVE  RefusedFor(o) \/ NoTrace(o)
    BY <1>2 DEF NoTrace
  <2>1. Ready(page[g].head + 1).state # "sending"
    BY DEF Ready
  <2>2. RefusedFor(o) \/ outcome'[o] = "refused"
    BY <1>1, <2>1, OnePageRefused DEF PagesInv, ReceiptInv
  <2>3. CASE o = HeadOp(g) /\ outcome'[o] = "refused"
    BY <1>1, <2>3 DEF PagesInv, ReceiptInv, TypeOK
  <2>4. CASE o # HeadOp(g) /\ outcome'[o] = "refused"
    <3>1. outcome[o] = "refused"
      BY <1>1, <2>4 DEF PagesInv, ReceiptInv, TypeOK
    <3> QED BY <3>1 DEF RefusedFor
  <2> QED BY <2>2, <2>3, <2>4
<1>5. RefusedSound'
  BY <1>2, <1>4, RefusalStays DEF PagesInv
<1> QED BY <1>3, <1>5

\* The clock moves on: what was in time stays in time.
LEMMA TickPages ==
  ASSUME PagesInv, Tick
  PROVE  PagesInOrder' /\ RefusedSound'
<1> DEFINE t == clock + 1
           Seen(c) == [c EXCEPT !.seen = @ \cup {t}]
<1>1. /\ calls' = {Seen(c) : c \in calls}
      /\ clock' = t
      /\ UNCHANGED <<issued, applied, page, outcome, late, setBacks>>
  BY DEF Tick, Show
<1>2. \A c \in calls : Seen(c).op = c.op /\ Seen(c).seen = c.seen \cup {t}
  BY DEF PagesInv, ReceiptInv, TypeOK, Call
<1>3. clock \in Int /\ t \in Int /\ t = clock + 1 /\ Ahead \in Nat
  BY ReceiptConstants DEF PagesInv, ReceiptInv, TypeOK, Time
<1>4. \A c \in calls : \A u \in c.seen : u \in Int
  BY DEF PagesInv, ReceiptInv, TypeOK, Call, Time
<1>5. \A o \in Op : issued[o] \in Int
  BY DEF PagesInv, ReceiptInv, TypeOK, Time
<1> HIDE DEF t, Seen
<1>6. \A o : (\A c \in calls : c.op # o) => \A c \in calls' : c.op # o
  BY <1>1, <1>2
<1>7. PagesInOrder'
  BY <1>1, <1>6, StayInOrder DEF PagesInv
<1>8. RefusedSound'
  <2> SUFFICES ASSUME setBacks = 0
               PROVE  /\ \A c \in calls' : \A u \in c.seen : u <= t
                      /\ \A o \in Op \ late : OneCall(o)' /\ InTime(o)' /\ (RefusedFor(o)' => NoTrace(o)')
    BY <1>1 DEF RefusedSound
  <2>1. \A c \in calls' : \A u \in c.seen : u <= t
    <3> SUFFICES ASSUME NEW c \in calls, NEW u \in c.seen \cup {t}
                 PROVE  u <= t
      BY <1>1, <1>2
    <3>1. u \in c.seen => u <= clock
      BY DEF PagesInv, RefusedSound
    <3> QED BY <1>3, <1>4, <3>1
  <2>2. ASSUME NEW o \in Op \ late
        PROVE  OneCall(o)' /\ InTime(o)' /\ (RefusedFor(o)' => NoTrace(o)')
    <3>1. OneCall(o) /\ InTime(o) /\ (RefusedFor(o) => NoTrace(o))
      BY DEF PagesInv, RefusedSound
    <3>2. OneCall(o)'
      BY <1>1, <1>2, <3>1 DEF OneCall
    <3>3. InTime(o)'
      <4> SUFFICES ASSUME applied[o] > 0
                   PROVE  /\ issued[o] <= t + Ahead
                          /\ \A c \in calls' : c.op = o => \A u \in c.seen : issued[o] <= u + Ahead
        BY <1>1 DEF InTime
      <4>1. /\ issued[o] <= clock + Ahead
            /\ \A c \in calls : c.op = o => \A u \in c.seen : issued[o] <= u + Ahead
        BY <3>1 DEF InTime
      <4>2. issued[o] <= t + Ahead
        BY <1>3, <1>5, <4>1
      <4> QED BY <1>1, <1>2, <4>1, <4>2
    <3>4. NoTrace(o) => NoTrace(o)'
      BY <1>1, <1>6 DEF NoTrace
    <3>5. RefusedFor(o)' => RefusedFor(o)
      BY <1>1 DEF RefusedFor, Is, HeadOp
    <3> QED BY <3>1, <3>2, <3>3, <3>4, <3>5
  <2> QED BY <2>1, <2>2
<1> QED BY <1>7, <1>8

\* A clock that was set back may make any id too new.
LEMMA SetBackPages ==
  ASSUME PagesInv, SetBack
  PROVE  PagesInOrder' /\ RefusedSound'
<1>1. PICK t : /\ calls' = {[c EXCEPT !.seen = @ \cup {t}] : c \in calls}
               /\ UNCHANGED <<issued, applied, page, outcome, late>>
               /\ setBacks' = setBacks + 1
  BY DEF SetBack, Show
<1>2. \A c \in calls : [c EXCEPT !.seen = @ \cup {t}].op = c.op
  BY DEF PagesInv, ReceiptInv, TypeOK, Call
<1>3. \A o : (\A c \in calls : c.op # o) => \A c \in calls' : c.op # o
  BY <1>1, <1>2
<1>4. PagesInOrder'
  BY <1>1, <1>3, StayInOrder DEF PagesInv
<1>5. setBacks' # 0
  BY <1>1, ReceiptConstants DEF PagesInv, ReceiptInv, TypeOK
<1> QED BY <1>4, <1>5 DEF RefusedSound

\* Every step keeps the order of the pages and what a refusal says.
LEMMA PagesStep == PagesInv /\ [Next]_vars => PagesInv'
<1> SUFFICES ASSUME PagesInv, [Next]_vars PROVE PagesInOrder' /\ RefusedSound'
  BY ReceiptStep DEF PagesInv
<1>1. ASSUME NEW c \in calls, Handle(c) PROVE PagesInOrder' /\ RefusedSound'
  <2>0. c.op \in Op
    BY DEF PagesInv, ReceiptInv, TypeOK, Call
  <2>1. CASE AnswerAgain(c)
    BY <2>1, AnswerPages DEF AnswerAgain
\* An id that was in time once is in time for ever.
  <2>2. CASE RefuseTime(c)
    <3>1. ASSUME setBacks = 0, c.op \notin late PROVE applied[c.op] = 0
      <4>1. PICK now \in c.seen : issued[c.op] > now + Ahead
        BY <2>2 DEF RefuseTime, TooFarAhead
      <4>2. InTime(c.op)
        BY <2>0, <3>1 DEF PagesInv, RefusedSound
      <4>3. now \in Int /\ issued[c.op] \in Int /\ Ahead \in Int /\ applied[c.op] \in Nat
        BY <2>0, <4>1, ReceiptConstants DEF PagesInv, ReceiptInv, TypeOK, Call, Time
      <4>4. applied[c.op] > 0 => issued[c.op] <= now + Ahead
        BY <4>1, <4>2 DEF InTime
      <4> QED BY <4>1, <4>3, <4>4
    <3> QED BY <2>2, <3>1, AnswerPages DEF RefuseTime
  <2>3. CASE RefuseExpired(c)
    BY <2>3, AnswerPages DEF RefuseExpired
  <2>4. CASE Apply(c)
    BY <2>4, ApplyPages
\* A change without a receipt whose id the floor has not passed was not applied.
  <2>5. CASE Refuse(c)
    <3>1. c.op \notin receipts /\ ~(issued[c.op] <= floor)
      BY <2>5 DEF Refuse, Fresh, Expired
    <3>2. applied[c.op] = 0
      BY <2>0, <3>1 DEF PagesInv, ReceiptInv, TypeOK, AppliedHasReceipt
    <3> QED BY <2>5, <3>2, AnswerPages DEF Refuse
  <2>6. CASE Fail(c)
    BY <2>6, AnswerPages DEF Fail
  <2> QED BY <1>1, <2>1, <2>2, <2>3, <2>4, <2>5, <2>6 DEF Handle
<1>2. ASSUME NEW c \in calls, Lose(c) PROVE PagesInOrder' /\ RefusedSound'
  <2>1. /\ calls' \in SUBSET calls
        /\ UNCHANGED <<clock, setBacks, applied, issued, page, outcome, late>>
    BY <1>2 DEF Lose, server
  <2>2. PagesInOrder'
    BY <2>1, StayInOrder DEF PagesInv
  <2>3. \A o : RefusedFor(o)' => RefusedFor(o)
    BY <2>1 DEF RefusedFor, Is, HeadOp
  <2> QED BY <2>1, <2>2, <2>3, RefusalStays DEF PagesInv
<1>3. ASSUME NEW g \in Page, Receive(g) PROVE PagesInOrder' /\ RefusedSound'
  <2>1. UNCHANGED <<server, issued, calls, resends>>
    BY <1>3 DEF Receive
  <2>2. CASE Confirmed(g) /\ Accept(g)
    <3>1. HeadOp(g) \in Op
      BY <2>2, HeadIsOp DEF PagesInv, ReceiptInv, Confirmed
    <3> QED BY <2>1, <2>2, <3>1, DecidePages
  <2>3. CASE Rejected(g) /\ Withdraw(g)
    <3>1. HeadOp(g) \in Op
      BY <2>3, HeadIsOp DEF PagesInv, ReceiptInv, Rejected
    <3>2. RefusedFor(HeadOp(g))
      BY <2>3 DEF Rejected, RefusedFor
    <3> QED BY <2>1, <2>3, <3>1, <3>2, DecidePages
  <2>4. CASE Check(g)
    BY <2>1, <2>4, CheckPages
  <2> QED BY <1>3, <2>2, <2>3, <2>4 DEF Receive
<1>4. ASSUME NEW g \in Page, GiveUp(g) \/ Verify(g) PROVE PagesInOrder' /\ RefusedSound'
  BY <1>4, CheckPages DEF GiveUp, Verify
\* Nothing was ever sent of a change without an id.
<1>5. ASSUME NEW g \in Page, RejectUnsent(g) PROVE PagesInOrder' /\ RefusedSound'
  <2>1. HeadOp(g) \in Op /\ issued[HeadOp(g)] = 0 /\ Withdraw(g)
        /\ UNCHANGED <<server, issued, calls, resends>>
    BY <1>5, HeadIsOp DEF RejectUnsent, PagesInv, ReceiptInv
  <2>2. NoTrace(HeadOp(g))
    BY <2>1 DEF PagesInv, ReceiptInv, TypeOK, AppliedHasReceipt, CallsHaveIds, NoTrace
  <2> QED BY <2>1, <2>2, DecidePages
<1>6. ASSUME NEW g \in Page, Lookup(g) PROVE PagesInOrder' /\ RefusedSound'
  <2>1. HeadOp(g) \in Op /\ UNCHANGED <<server, issued, calls, resends>>
    BY <1>6, HeadIsOp DEF Lookup, PagesInv, ReceiptInv
  <2>2. CASE Accept(g)
    BY <2>1, <2>2, DecidePages
  <2>3. CASE Doubt(g, ~Expired(HeadOp(g), clock))
    BY <2>1, <2>3, CheckPages
  <2>4. CASE Doubt(g, FALSE)
    BY <2>1, <2>4, CheckPages
  <2> QED BY <1>6, <2>2, <2>3, <2>4 DEF Lookup
<1>7. ASSUME NEW g \in Page, Retry(g) PROVE PagesInOrder' /\ RefusedSound'
  <2> DEFINE s == [page[g] EXCEPT !.state = "next", !.canRetry = FALSE]
  <2>1. page[g] \in PageState
    BY DEF PagesInv, ReceiptInv, TypeOK
  <2>2. s.head = page[g].head /\ s.state # "sending"
    BY <2>1 DEF PageState
  <2>3. page' = [page EXCEPT ![g] = s] /\ UNCHANGED <<server, issued, calls, outcome, late>>
    BY <1>7 DEF Retry
  <2> HIDE DEF s
  <2> QED BY <2>2, <2>3, WaitPages
<1>8. CASE UNCHANGED vars
  <2>1. UNCHANGED <<clock, setBacks, applied, issued, page, outcome, late, calls>>
    BY <1>8 DEF vars
  <2>2. PagesInOrder'
    BY <2>1, StayInOrder DEF PagesInv
  <2>3. \A o : RefusedFor(o)' => RefusedFor(o)
    BY <2>1 DEF RefusedFor, Is, HeadOp
  <2> QED BY <2>1, <2>2, <2>3, RefusalStays DEF PagesInv
<1> QED BY <1>1, <1>2, <1>3, <1>4, <1>5, <1>6, <1>7, <1>8, SendPages, TickPages, SetBackPages DEF Next

\* The pages and the server agree on what was decided.
THEOREM PagesInvariant == Spec => []PagesInv
<1> QED BY PagesInit, PagesStep, PTL DEF Spec

\* The ids, receipts, calls and answers are what they are declared to be.
THEOREM ReceiptsTypeOK == Spec => []TypeOK
<1>1. ReceiptInv => TypeOK
  BY DEF ReceiptInv
<1> QED BY <1>1, ReceiptsInvariant, PTL

\* The changes of a page reach the server in the page's order (pump).
THEOREM ChangesKeepTheirOrder == Spec => []LaterChangesWait
<1>1. PagesInv => LaterChangesWait
  <2> SUFFICES ASSUME PagesInv, NEW g \in Page, NEW i \in 1..Changes[g], NEW j \in 1..Changes[g], i < j,
                      applied[<<g, j>>] > 0 \/ \E c \in calls : c.op = <<g, j>>
               PROVE  outcome[<<g, i>>] # "pending"
    BY DEF LaterChangesWait
  <2>1. ~(j > page[g].head)
    BY DEF PagesInv, PagesInOrder
  <2>2. i < page[g].head
    <3>1. page[g].head \in Nat
      <4>1. page[g] \in PageState
        BY DEF PagesInv, ReceiptInv, TypeOK
      <4> QED BY <4>1 DEF PageState
    <3>2. i \in Int /\ j \in Int
      OBVIOUS
    <3> QED BY <2>1, <3>1, <3>2
  <2> QED BY <2>2 DEF PagesInv, PagesInOrder
<1> QED BY <1>1, PagesInvariant, PTL

\* What a page withdrew as refused is not applied later, unless its page sent it
\* again without waiting or the server's clock was set back.
THEOREM RefusedStaysRefused == Spec => []RefusedHasNoEffect
<1>1. PagesInv => RefusedHasNoEffect
  <2> SUFFICES ASSUME PagesInv, NEW o \in Op, outcome[o] = "refused", applied[o] > 0,
                      o \notin late, ~(setBacks > 0)
               PROVE  FALSE
    BY DEF RefusedHasNoEffect
  <2>1. setBacks = 0
    BY ReceiptConstants DEF PagesInv, ReceiptInv, TypeOK
  <2>2. NoTrace(o)
    BY <2>1 DEF PagesInv, RefusedSound, RefusedFor
  <2> QED BY <2>2 DEF NoTrace
<1> QED BY <1>1, PagesInvariant, PTL
=============================================================================
