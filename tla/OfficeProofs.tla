---------------------------- MODULE OfficeProofs ----------------------------
(***************************************************************************)
(* What is proved of the office's desks and of the web client's two pages, *)
(* for any number of requests, sales, days, profiles, tablets and phones:  *)
(* refunds fit their sale and none that the processor has made is turned   *)
(* down, a closing's variance is explained, the directory holds no twins   *)
(* and no number bound twice but for what the property names, the Floor    *)
(* keeps a dragged order only while the drag is unanswered, gives every    *)
(* card its place and sends the services chosen last, a household's page   *)
(* keeps the spots and the appointment it was given, and the office of all *)
(* the desks keeps what each of them promises.                             *)
(***************************************************************************)
EXTENDS Office, FloorRequestsProofs, BookingProofs

-----------------------------------------------------------------------------
(***************************************************************************)
(* Refunds.  PaidBackIsAccounted is inductive with the types alone,        *)
(* because a request that has paid never goes back before the processor.   *)
(* RefundsFit needs sums over the requests of one sale.                    *)
(***************************************************************************)

RefundInv == RefundTypeOK /\ PaidBackIsAccounted

RefundSteps == {"idle", "sum", "pay", "insert", "commit", "done", "refused", "unanswered", "dropped"}
Underway    == {"insert", "commit", "dropped", "unanswered"}

LEMMA RefundMoves ==
  ASSUME RefundTypeOK, NEW r \in Refunds, NEW step \in RefundSteps, RefundGoto(r, step)
  PROVE  /\ refundPc' \in [Refunds -> RefundSteps]
         /\ refundPc'[r] = step /\ \A u \in Refunds : u # r => refundPc'[u] = refundPc[u]
  BY DEF RefundTypeOK, RefundGoto, RefundSteps

\* A request whose refund is under way or booked stays so while another takes a step, and
\* while it takes one of its own that leads where a refund is under way.
LEMMA Accounted ==
  ASSUME RefundInv, NEW r \in Refunds, NEW step, refundPc'[r] = step,
         \A u \in Refunds : u # r => refundPc'[u] = refundPc[u],
         ask' = ask, booked \subseteq booked', booked' \subseteq Refunds,
         paidBack' \subseteq paidBack \cup {r},
         r \in paidBack' => step \in Underway \/ WithKey(booked', ask[r].key) # {}
  PROVE  PaidBackIsAccounted'
<1> SUFFICES ASSUME NEW p \in paidBack'
             PROVE  refundPc'[p] \in Underway \/ WithKey(booked', ask[p].key) # {}
  BY DEF PaidBackIsAccounted, Underway, WithKey
<1>1. CASE p = r
  BY <1>1
<1>2. CASE p # r
  <2>1. p \in paidBack /\ p \in Refunds
    BY <1>2 DEF RefundInv, RefundTypeOK
  <2>2. refundPc[p] \in Underway \/ WithKey(booked, ask[p].key) # {}
    BY <2>1 DEF RefundInv, PaidBackIsAccounted, Underway
  <2>3. WithKey(booked, ask[p].key) \subseteq WithKey(booked', ask[p].key)
    BY DEF WithKey
  <2>4. QED
    BY <1>2, <2>1, <2>2, <2>3
<1>3. QED
  BY <1>1, <1>2

LEMMA RefundsStep ==
  ASSUME RefundInv, NEW r \in Refunds,
         LookForKey(r) \/ SumRefunds(r) \/ PayBack(r) \/ InsertRefund(r) \/ CommitRefund(r) \/ DropRefund(r)
  PROVE  RefundInv'
<1>1. r \in paidBack => refundPc[r] \in Underway \/ WithKey(booked, ask[r].key) # {}
  BY DEF RefundInv, PaidBackIsAccounted, Underway
<1>2. CASE LookForKey(r)
  <2>1. PICK step \in {"sum", "done"} : RefundGoto(r, step)
    BY <1>2 DEF LookForKey
  <2>2. RefundTypeOK'
    BY <1>2, <2>1, RefundMoves DEF LookForKey, RefundInv, RefundTypeOK, RefundSteps
  <2>3. r \in paidBack => WithKey(booked, ask[r].key) # {}
    BY <1>1, <1>2 DEF LookForKey, Underway
  <2>4. PaidBackIsAccounted'
    BY <1>2, <2>1, <2>3, RefundMoves, Accounted DEF LookForKey, RefundInv, RefundTypeOK, RefundSteps
  <2>5. QED
    BY <2>2, <2>4 DEF RefundInv
<1>3. CASE SumRefunds(r)
  <2>1. PICK step \in {"refused", "pay", "insert"} : RefundGoto(r, step)
    BY <1>3 DEF SumRefunds
  <2>2. summed' \in [Refunds -> SUBSET Refunds]
    BY <1>3 DEF SumRefunds, Of, RefundInv, RefundTypeOK
  <2>3. RefundTypeOK'
    BY <1>3, <2>1, <2>2, RefundMoves DEF SumRefunds, RefundInv, RefundTypeOK, RefundSteps
  <2>4. r \in paidBack => WithKey(booked, ask[r].key) # {}
    BY <1>1, <1>3 DEF SumRefunds, Underway
  <2>5. PaidBackIsAccounted'
    BY <1>3, <2>1, <2>4, RefundMoves, Accounted DEF SumRefunds, RefundInv, RefundTypeOK, RefundSteps
  <2>6. QED
    BY <2>3, <2>5 DEF RefundInv
<1>4. CASE PayBack(r)
  <2>1. PICK step \in {"insert", "unanswered", "refused"} :
          RefundGoto(r, step) /\ (step = "refused" => r \notin paidBack')
    BY <1>4 DEF PayBack
  <2>2. paidBack' \subseteq paidBack \cup {r} /\ UNCHANGED <<ask, summed, inserted, booked>>
    BY <1>4 DEF PayBack, ProcessorPays
  <2>3. RefundTypeOK'
    BY <2>1, <2>2, RefundMoves DEF RefundInv, RefundTypeOK, RefundSteps
  <2>4. PaidBackIsAccounted'
    BY <2>1, <2>2, RefundMoves, Accounted DEF Underway, RefundInv, RefundTypeOK, RefundSteps
  <2>5. QED
    BY <2>3, <2>4 DEF RefundInv
<1>5. CASE InsertRefund(r)
  <2>1. PICK step \in {"commit", "refused"} :
          RefundGoto(r, step) /\ (step = "refused" => WithKey(booked, ask[r].key) # {})
    BY <1>5 DEF InsertRefund
  <2>2. inserted' \subseteq Refunds /\ UNCHANGED <<ask, summed, paidBack, booked>>
    BY <1>5 DEF InsertRefund, RefundInv, RefundTypeOK
  <2>3. RefundTypeOK'
    BY <2>1, <2>2, RefundMoves DEF RefundInv, RefundTypeOK, RefundSteps
  <2>4. PaidBackIsAccounted'
    BY <2>1, <2>2, RefundMoves, Accounted DEF Underway, RefundInv, RefundTypeOK, RefundSteps
  <2>5. QED
    BY <2>3, <2>4 DEF RefundInv
<1>6. CASE CommitRefund(r)
  <2>1. RefundGoto(r, "done") /\ booked' = booked \cup {r} /\ inserted' \subseteq Refunds
    BY <1>6 DEF CommitRefund, RefundInv, RefundTypeOK
  <2>2. UNCHANGED <<ask, summed, paidBack>>
    BY <1>6 DEF CommitRefund
  <2>3. RefundTypeOK'
    BY <2>1, <2>2, RefundMoves DEF RefundInv, RefundTypeOK, RefundSteps
  <2>4. r \in WithKey(booked', ask[r].key)
    BY <2>1 DEF WithKey
  <2>5. PaidBackIsAccounted'
    BY <2>1, <2>2, <2>4, RefundMoves, Accounted DEF RefundInv, RefundTypeOK, RefundSteps
  <2>6. QED
    BY <2>3, <2>5 DEF RefundInv
<1>7. CASE DropRefund(r)
  <2>1. RefundGoto(r, "dropped") /\ inserted' \subseteq Refunds /\ UNCHANGED <<ask, summed, paidBack, booked>>
    BY <1>7 DEF DropRefund, RefundInv, RefundTypeOK
  <2>2. RefundTypeOK'
    BY <2>1, RefundMoves DEF RefundInv, RefundTypeOK, RefundSteps
  <2>3. PaidBackIsAccounted'
    BY <2>1, RefundMoves, Accounted DEF Underway, RefundInv, RefundTypeOK, RefundSteps
  <2>4. QED
    BY <2>2, <2>3 DEF RefundInv
<1>8. QED
  BY <1>2, <1>3, <1>4, <1>5, <1>6, <1>7

LEMMA RefundsKept == RefundSpec => []RefundInv
<1>1. RefundInit => RefundInv
  BY RefundConstants DEF RefundInit, RefundInv, RefundTypeOK, PaidBackIsAccounted, RefundSteps
<1>2. RefundInv /\ [RefundNext]_refundVars => RefundInv'
  <2> SUFFICES ASSUME RefundInv, [RefundNext]_refundVars
               PROVE  RefundInv'
    OBVIOUS
  <2>1. CASE RefundNext
    BY <2>1, RefundsStep DEF RefundNext
  <2>2. CASE UNCHANGED refundVars
    BY <2>2 DEF refundVars, RefundInv, RefundTypeOK, PaidBackIsAccounted, WithKey
  <2>3. QED
    BY <2>1, <2>2
<1> QED BY <1>1, <1>2, PTL DEF RefundSpec

\* A refund the processor has made and answered is booked, about to be, or was dropped with
\* its transaction, for any number of requests, sales and keys: no request that shares its
\* key or its sale makes this program refuse what was paid.
THEOREM RefundsAccounted == RefundSpec => []PaidBackIsAccounted
<1>1. RefundInv => PaidBackIsAccounted
  BY DEF RefundInv
<1> QED BY <1>1, RefundsKept, PTL

\* A request for a refund is of its kind and at one of its handler's steps, and every refund that was paid
\* or booked is one that was asked for.
THEOREM RefundsTyped == RefundSpec => []RefundTypeOK
<1>1. RefundInv => RefundTypeOK
  BY DEF RefundInv
<1> QED BY <1>1, RefundsKept, PTL

-----------------------------------------------------------------------------
(***************************************************************************)
(* RefundsFit.  What is booked of a card sale and what was paid without a  *)
(* row come to no more than what the processor paid, and the processor     *)
(* pays no more than it got.  A cash refund fits beside those it added up, *)
(* and it added up all that were booked before it, or they overlapped.     *)
(***************************************************************************)

Unbooked(s) == {p \in Of(paidBack, s) : WithKey(booked, ask[p].key) = {}}

\* Two of the sale's refunds did not see each other.
Unseen(s) == \E a, b \in Of(booked, s) : a # b /\ a \notin summed[b] /\ b \notin summed[a]

RefundCourse(r) ==
  /\ r \in booked => refundPc[r] = "done"
  /\ r \in inserted => refundPc[r] = "commit"
  /\ refundPc[r] = "commit" => WithKey(booked \cup inserted, ask[r].key) = {r}
  /\ summed[r] \subseteq Of(booked, ask[r].sale)
  /\ refundPc[r] \in {"pay", "insert", "commit"} =>
       ask[r].amount + SumFunctionOnSet(Due, summed[r]) <= SaleTotal[ask[r].sale]
  /\ refundPc[r] \in {"insert", "commit"} /\ ask[r].sale \in CardSales =>
       \E p \in paidBack : ask[p] = ask[r]

CardCovered(s) ==
  /\ SumFunctionOnSet(Due, Of(booked, s)) + SumFunctionOnSet(Due, Unbooked(s)) <= SumFunctionOnSet(Due, Of(paidBack, s))
  /\ SumFunctionOnSet(Due, Of(paidBack, s)) <= SaleTotal[s]

CashCovered(s) == SumFunctionOnSet(Due, Of(booked, s)) <= SaleTotal[s] \/ Unseen(s)

PaidInv ==
  /\ RefundInv
  /\ IsFiniteSet(booked) /\ IsFiniteSet(paidBack)
  /\ \A r \in Refunds : RefundCourse(r)
  /\ \A s \in CardSales : CardCovered(s)
  /\ \A s \in CashSales : CashCovered(s)

\* What is asked for is a natural number, so sums of it are, and grow with the set.
LEMMA DueSums ==
  ASSUME RefundTypeOK
  PROVE  /\ \A r \in Refunds : Due[r] = ask[r].amount /\ Due[r] \in Nat
         /\ \A R : R \subseteq Refunds /\ IsFiniteSet(R) => SumFunctionOnSet(Due, R) \in Nat
         /\ \A R, Q : R \subseteq Refunds /\ IsFiniteSet(R) /\ Q \subseteq R
                       => SumFunctionOnSet(Due, Q) <= SumFunctionOnSet(Due, R) /\ SumFunctionOnSet(Due, Q) \in Nat
         /\ \A R : \A r \in R : R \subseteq Refunds /\ IsFiniteSet(R)
                       => SumFunctionOnSet(Due, R) = Due[r] + SumFunctionOnSet(Due, R \ {r})
<1>1. \A r \in Refunds : Due[r] = ask[r].amount /\ Due[r] \in Nat
  BY DEF RefundTypeOK, Due, Ask
<1>2. ASSUME NEW R, R \subseteq Refunds, IsFiniteSet(R)
      PROVE  SumFunctionOnSet(Due, R) \in Nat /\ \A x \in R : Due[x] \in Nat /\ Due[x] \in Int
  BY <1>1, <1>2, SumTypes
<1>3. ASSUME NEW R, NEW Q, R \subseteq Refunds, IsFiniteSet(R), Q \subseteq R
      PROVE  SumFunctionOnSet(Due, Q) <= SumFunctionOnSet(Due, R) /\ SumFunctionOnSet(Due, Q) \in Nat
  <2>1. SumFunctionOnSet(Due, Q) <= SumFunctionOnSet(Due, R)
    BY <1>2, <1>3, SumGrows
  <2>2. IsFiniteSet(Q) /\ Q \subseteq Refunds
    BY <1>3, FS_Subset
  <2> QED BY <1>2, <2>1, <2>2
<1>4. ASSUME NEW R, NEW r \in R, R \subseteq Refunds, IsFiniteSet(R)
      PROVE  SumFunctionOnSet(Due, R) = Due[r] + SumFunctionOnSet(Due, R \ {r})
  BY <1>2, <1>4, SumTakes
<1> QED BY <1>1, <1>2, <1>3, <1>4

LEMMA PaidIsFit ==
  ASSUME PaidInv
  PROVE  RefundsFit
<1>1. RefundTypeOK
  BY DEF PaidInv, RefundInv
<1>2. \A s : /\ Of(booked, s) \subseteq Refunds /\ IsFiniteSet(Of(booked, s))
             /\ Of(paidBack, s) \subseteq Refunds /\ IsFiniteSet(Of(paidBack, s))
             /\ Unbooked(s) \subseteq Refunds /\ IsFiniteSet(Unbooked(s))
  BY <1>1, FS_Subset DEF PaidInv, RefundTypeOK, Of, Unbooked
<1>3. PaidStillFits
  <2>1. SUFFICES ASSUME NEW s \in CardSales
                 PROVE  SumFunctionOnSet(Due, Of(booked, s)) + SumFunctionOnSet(Due, Unbooked(s)) <= SaleTotal[s]
    BY DEF PaidStillFits, Unbooked, Amount
  <2>2. SaleTotal[s] \in Nat
    BY RefundConstants DEF Sales
  <2>3. /\ SumFunctionOnSet(Due, Of(booked, s)) \in Nat /\ SumFunctionOnSet(Due, Unbooked(s)) \in Nat
        /\ SumFunctionOnSet(Due, Of(paidBack, s)) \in Nat
    BY <1>1, <1>2, DueSums
  <2>4. CardCovered(s)
    BY DEF PaidInv
  <2> QED BY <2>2, <2>3, <2>4 DEF CardCovered
<1>4. CashOverpaidOnlyTogether
  <2>1. SUFFICES ASSUME NEW s \in CashSales, SumFunctionOnSet(Due, Of(booked, s)) > SaleTotal[s]
                 PROVE  Unseen(s)
    BY DEF CashOverpaidOnlyTogether, Unseen, Amount
  <2>2. SaleTotal[s] \in Nat /\ SumFunctionOnSet(Due, Of(booked, s)) \in Nat
    BY <1>1, <1>2, RefundConstants, DueSums DEF Sales
  <2>3. CashCovered(s)
    BY DEF PaidInv
  <2> QED BY <2>1, <2>2, <2>3 DEF CashCovered
<1> QED BY <1>3, <1>4 DEF RefundsFit

LEMMA PaidStarts == RefundInit => PaidInv
<1> SUFFICES ASSUME RefundInit PROVE PaidInv
  OBVIOUS
<1>1. RefundInv
  BY RefundConstants DEF RefundInit, RefundInv, RefundTypeOK, PaidBackIsAccounted, RefundSteps
<1>2. IsFiniteSet({})
  BY FS_EmptySet
<1>3. \A r \in Refunds : RefundCourse(r)
  BY DEF RefundInit, RefundCourse
<1>4. \A s \in Sales : /\ Of(booked, s) = {} /\ Of(paidBack, s) = {} /\ Unbooked(s) = {}
                        /\ SumFunctionOnSet(Due, Of(booked, s)) = SumFunctionOnSet(Due, {})
                        /\ SumFunctionOnSet(Due, Of(paidBack, s)) = SumFunctionOnSet(Due, {})
                        /\ SumFunctionOnSet(Due, Unbooked(s)) = SumFunctionOnSet(Due, {})
  <2>1. \A s \in Sales : Of(booked, s) = {} /\ Of(paidBack, s) = {} /\ Unbooked(s) = {}
    BY DEF RefundInit, Of, Unbooked
  <2> QED BY <2>1, Zenon
<1>5. \A s \in Sales : CardCovered(s) /\ CashCovered(s)
  <2>1. SumFunctionOnSet(Due, {}) = 0
    BY SumOfNone
  <2> QED BY <1>4, <2>1, RefundConstants DEF CardCovered, CashCovered
<1> QED BY <1>1, <1>2, <1>3, <1>5 DEF PaidInv, RefundInit, Sales

\* A step that changes no sum: neither what is booked nor what was paid.
LEMMA NothingPaid ==
  ASSUME PaidInv, UNCHANGED <<ask, paidBack, booked>>,
         \A u \in booked : summed'[u] = summed[u]
  PROVE  /\ IsFiniteSet(booked') /\ IsFiniteSet(paidBack')
         /\ (\A s \in CardSales : CardCovered(s))' /\ (\A s \in CashSales : CashCovered(s))'
<1>1. Due' = Due /\ \A s : Of(booked, s)' = Of(booked, s) /\ Of(paidBack, s)' = Of(paidBack, s)
                          /\ Unbooked(s)' = Unbooked(s) /\ Of(booked, s) \subseteq booked
  BY DEF Due, Of, Unbooked, WithKey
<1>2. \A s : Unseen(s)' <=> Unseen(s)
  BY <1>1 DEF Unseen
<1> QED BY <1>1, <1>2 DEF PaidInv, CardCovered, CashCovered

LEMMA OthersCourse ==
  ASSUME PaidInv, NEW r \in Refunds, NEW u \in Refunds, u # r,
         refundPc'[u] = refundPc[u], summed'[u] = summed[u], ask' = ask,
         booked \subseteq booked', booked' \subseteq booked \cup {r},
         inserted' \subseteq inserted \cup {r}, paidBack \subseteq paidBack',
         refundPc[u] = "commit" => WithKey(booked' \cup inserted', ask[u].key) = {u}
  PROVE  RefundCourse(u)'
<1>1. RefundCourse(u)
  BY DEF PaidInv
<1>2. Due' = Due /\ Of(booked, ask[u].sale) \subseteq Of(booked, ask[u].sale)'
  BY DEF Due, Of
<1>3. WithKey(booked \cup inserted, ask[u].key)' = WithKey(booked' \cup inserted', ask[u].key)
  BY DEF WithKey
<1>4. /\ u \in booked' => refundPc'[u] = "done"
      /\ u \in inserted' => refundPc'[u] = "commit"
      /\ refundPc'[u] = "commit" => WithKey(booked \cup inserted, ask[u].key)' = {u}
  BY <1>1, <1>3 DEF RefundCourse
<1>5. summed'[u] \subseteq Of(booked, ask[u].sale)'
  BY <1>1 DEF RefundCourse, Of
<1>6. refundPc'[u] \in {"pay", "insert", "commit"} =>
       ask'[u].amount + SumFunctionOnSet(Due, summed[u])' <= SaleTotal[ask'[u].sale]
  BY <1>1, <1>2 DEF RefundCourse
<1>7. refundPc'[u] \in {"insert", "commit"} /\ ask'[u].sale \in CardSales => \E p \in paidBack' : ask'[p] = ask'[u]
  BY <1>1 DEF RefundCourse
<1> QED BY <1>4, <1>5, <1>6, <1>7 DEF RefundCourse

\* While nothing is inserted or committed, the others keep their course.
LEMMA QuietCourse ==
  ASSUME PaidInv, NEW r \in Refunds, UNCHANGED <<ask, booked>>,
         inserted' \subseteq inserted, inserted \ {r} \subseteq inserted', paidBack \subseteq paidBack',
         \A u \in Refunds : u # r => refundPc'[u] = refundPc[u] /\ summed'[u] = summed[u]
  PROVE  \A u \in Refunds : u # r => RefundCourse(u)'
<1> SUFFICES ASSUME NEW u \in Refunds, u # r PROVE RefundCourse(u)'
  OBVIOUS
<1>1. RefundCourse(u)
  BY DEF PaidInv
<1>2. refundPc[u] = "commit" => WithKey(booked' \cup inserted', ask[u].key) = {u}
  BY <1>1 DEF RefundCourse, WithKey
<1> QED BY <1>2, OthersCourse

LEMMA SumRefundsFits ==
  ASSUME PaidInv, RefundInv', NEW r \in Refunds, SumRefunds(r)
  PROVE  PaidInv'
<1>0. RefundTypeOK
  BY DEF PaidInv, RefundInv
<1>1. PICK step \in {"refused", "pay", "insert"} :
        /\ RefundGoto(r, step) /\ UNCHANGED <<ask, paidBack, inserted, booked>>
        /\ step = "insert" => ask[r].sale \notin CardSales
        /\ step # "refused" => ask[r].amount \in 1 .. SaleTotal[ask[r].sale] - SumFunctionOnSet(Due, Of(booked, ask[r].sale))
  BY DEF SumRefunds, Amount
<1>2. /\ refundPc'[r] = step /\ summed'[r] = Of(booked, ask[r].sale)
      /\ \A u \in Refunds : u # r => refundPc'[u] = refundPc[u] /\ summed'[u] = summed[u]
  BY <1>0, <1>1 DEF SumRefunds, RefundGoto, RefundTypeOK
<1>3. RefundCourse(r) /\ refundPc[r] = "sum"
  BY DEF PaidInv, SumRefunds
<1>4. r \notin booked /\ r \notin inserted
  BY <1>3 DEF RefundCourse
<1>5. Of(booked, ask[r].sale) \subseteq Refunds /\ IsFiniteSet(Of(booked, ask[r].sale))
  BY <1>0, FS_Subset DEF PaidInv, Of, RefundTypeOK
<1>6. SumFunctionOnSet(Due, Of(booked, ask[r].sale)) \in Nat
  BY <1>0, <1>5, DueSums
<1>7. ask[r] \in Ask /\ SaleTotal[ask[r].sale] \in Nat
  BY <1>0, RefundConstants DEF RefundTypeOK, Ask
<1>8. step # "refused" => ask[r].amount + SumFunctionOnSet(Due, Of(booked, ask[r].sale)) <= SaleTotal[ask[r].sale]
  BY <1>1, <1>6, <1>7 DEF Ask
<1>9. RefundCourse(r)'
  <2>1. Due' = Due /\ Of(booked, ask[r].sale)' = Of(booked, ask[r].sale)
    BY <1>1 DEF Due, Of
  <2>2. summed'[r] \subseteq Of(booked, ask[r].sale)'
    BY <1>2, <2>1
  <2>3. refundPc'[r] \in {"pay", "insert", "commit"} =>
          ask'[r].amount + SumFunctionOnSet(Due, summed[r])' <= SaleTotal[ask'[r].sale]
    BY <1>1, <1>2, <1>8, <2>1
  <2> QED BY <1>1, <1>2, <1>4, <2>2, <2>3 DEF RefundCourse
<1>10. \A u \in Refunds : u # r => RefundCourse(u)'
  BY <1>1, <1>2, QuietCourse
<1>11. \A u \in booked : summed'[u] = summed[u]
  BY <1>0, <1>2, <1>4 DEF RefundTypeOK
<1> QED BY <1>1, <1>9, <1>10, <1>11, NothingPaid DEF PaidInv

\* The steps that neither pay, add up nor book.
LEMMA QuietFits ==
  ASSUME PaidInv, RefundInv', NEW r \in Refunds, LookForKey(r) \/ InsertRefund(r) \/ DropRefund(r)
  PROVE  PaidInv'
<1>0. RefundTypeOK /\ RefundCourse(r)
  BY DEF PaidInv, RefundInv
<1>1. /\ UNCHANGED <<ask, summed, paidBack, booked>>
      /\ \A u \in Refunds : u # r => refundPc'[u] = refundPc[u] /\ summed'[u] = summed[u]
      /\ \A u \in booked : summed'[u] = summed[u]
  BY <1>0 DEF LookForKey, InsertRefund, DropRefund, RefundGoto, RefundTypeOK
<1>2. r \notin booked
  BY <1>0 DEF LookForKey, InsertRefund, DropRefund, RefundCourse
<1>3. Due' = Due /\ Of(booked, ask[r].sale)' = Of(booked, ask[r].sale)
  BY <1>1 DEF Due, Of
<1>4. CASE LookForKey(r)
  <2>1. refundPc'[r] \in {"sum", "done"} /\ inserted' = inserted /\ r \notin inserted
    BY <1>0, <1>4 DEF LookForKey, RefundGoto, RefundTypeOK, RefundCourse
  <2>2. RefundCourse(r)'
    BY <1>0, <1>1, <1>2, <1>3, <2>1 DEF RefundCourse
  <2>3. \A u \in Refunds : u # r => RefundCourse(u)'
    BY <1>1, <2>1, QuietCourse
  <2> QED BY <1>1, <2>2, <2>3, NothingPaid DEF PaidInv
<1>5. CASE DropRefund(r)
  <2>1. refundPc'[r] = "dropped" /\ inserted' = inserted \ {r}
    BY <1>0, <1>5 DEF DropRefund, RefundGoto, RefundTypeOK, RefundCourse
  <2>2. RefundCourse(r)'
    BY <1>0, <1>1, <1>2, <1>3, <2>1 DEF RefundCourse
  <2>3. \A u \in Refunds : u # r => RefundCourse(u)'
    BY <1>1, <2>1, QuietCourse
  <2> QED BY <1>1, <2>2, <2>3, NothingPaid DEF PaidInv
<1>6. CASE InsertRefund(r)
  <2>1. refundPc[r] = "insert" /\ WithKey(inserted, ask[r].key) = {} /\ r \notin inserted
    BY <1>0, <1>6 DEF InsertRefund, RefundCourse
  <2>2. CASE WithKey(booked, ask[r].key) = {}
    <3>1. inserted' = inserted \cup {r} /\ refundPc'[r] = "commit"
      BY <1>0, <1>6, <2>2 DEF InsertRefund, RefundGoto, RefundTypeOK
    <3>2. WithKey(booked \cup inserted, ask[r].key)' = {r}
      BY <1>1, <2>1, <2>2, <3>1 DEF WithKey
    <3>3. RefundCourse(r)'
      BY <1>0, <1>1, <1>2, <1>3, <2>1, <3>1, <3>2 DEF RefundCourse
    <3>4. ASSUME NEW u \in Refunds, u # r PROVE RefundCourse(u)'
      <4>1. RefundCourse(u)
        BY DEF PaidInv
      <4>2. refundPc[u] = "commit" => ask[u].key # ask[r].key
        BY <4>1, <2>1, <2>2 DEF RefundCourse, WithKey
      <4>3. refundPc[u] = "commit" => WithKey(booked' \cup inserted', ask[u].key) = {u}
        BY <1>1, <3>1, <4>1, <4>2 DEF RefundCourse, WithKey
      <4> QED BY <1>1, <3>1, <3>4, <4>3, OthersCourse
    <3> QED BY <1>1, <3>3, <3>4, NothingPaid DEF PaidInv
  <2>3. CASE WithKey(booked, ask[r].key) # {}
    <3>1. inserted' = inserted /\ refundPc'[r] = "refused"
      BY <1>0, <1>6, <2>3 DEF InsertRefund, RefundGoto, RefundTypeOK
    <3>2. RefundCourse(r)'
      BY <1>0, <1>1, <1>2, <1>3, <2>1, <3>1 DEF RefundCourse
    <3>3. \A u \in Refunds : u # r => RefundCourse(u)'
      BY <1>1, <3>1, QuietCourse
    <3> QED BY <1>1, <3>2, <3>3, NothingPaid DEF PaidInv
  <2> QED BY <2>2, <2>3
<1> QED BY <1>4, <1>5, <1>6

\* One set that gains an element, and its sum.
LEMMA DueGains ==
  ASSUME RefundTypeOK, NEW R, R \subseteq Refunds, IsFiniteSet(R), NEW r \in Refunds, r \notin R,
         NEW Q, Q \subseteq R \cup {r}
  PROVE  /\ SumFunctionOnSet(Due, R \cup {r}) = SumFunctionOnSet(Due, R) + ask[r].amount
         /\ SumFunctionOnSet(Due, Q) <= SumFunctionOnSet(Due, R) + ask[r].amount
         /\ SumFunctionOnSet(Due, R) \in Nat /\ SumFunctionOnSet(Due, Q) \in Nat /\ ask[r].amount \in Nat
<1>1. IsFiniteSet(R \cup {r}) /\ R \cup {r} \subseteq Refunds /\ r \in R \cup {r}
  BY FS_AddElement
<1>2. (R \cup {r}) \ {r} = R
  OBVIOUS
<1>3. SumFunctionOnSet(Due, R \cup {r}) = Due[r] + SumFunctionOnSet(Due, (R \cup {r}) \ {r})
  BY <1>1, DueSums
<1>4. SumFunctionOnSet(Due, (R \cup {r}) \ {r}) = SumFunctionOnSet(Due, R)
  BY <1>2, Zenon
<1>5. SumFunctionOnSet(Due, Q) <= SumFunctionOnSet(Due, R \cup {r}) /\ SumFunctionOnSet(Due, Q) \in Nat
  BY <1>1, DueSums
<1>6. SumFunctionOnSet(Due, R) \in Nat /\ Due[r] = ask[r].amount /\ Due[r] \in Nat
  BY DueSums
<1> QED BY <1>3, <1>4, <1>5, <1>6

LEMMA PayBackFits ==
  ASSUME PaidInv, RefundInv', NEW r \in Refunds, PayBack(r)
  PROVE  PaidInv'
<1>0. RefundTypeOK /\ RefundCourse(r)
  BY DEF PaidInv, RefundInv
<1>1. /\ UNCHANGED <<ask, summed, inserted, booked>> /\ refundPc[r] = "pay"
      /\ \A u \in Refunds : u # r => refundPc'[u] = refundPc[u] /\ summed'[u] = summed[u]
      /\ refundPc'[r] \in {"insert", "unanswered", "refused"}
      /\ paidBack' = paidBack \/ (ProcessorAccepts(r) /\ ProcessorPays(r))
      /\ refundPc'[r] = "insert" => ProcessorAccepts(r) /\ ProcessorPays(r)
  BY <1>0 DEF PayBack, RefundGoto, RefundTypeOK
<1>2. r \notin booked /\ r \notin inserted
  BY <1>0, <1>1 DEF RefundCourse
<1>3. Due' = Due /\ Of(booked, ask[r].sale)' = Of(booked, ask[r].sale)
  BY <1>1 DEF Due, Of
<1>4. paidBack \subseteq paidBack' /\ paidBack' \subseteq paidBack \cup {r}
  BY <1>1 DEF ProcessorPays
<1>5. RefundCourse(r)'
  <2>1. refundPc'[r] = "insert" => \E p \in paidBack' : ask[p] = ask[r]
    <3>1. CASE WithKey(paidBack, ask[r].key) # {}
      BY <1>1, <1>4, <3>1 DEF ProcessorAccepts, WithKey
    <3>2. CASE WithKey(paidBack, ask[r].key) = {}
      BY <1>1, <3>2 DEF ProcessorPays
    <3> QED BY <3>1, <3>2
  <2> QED BY <1>0, <1>1, <1>2, <1>3, <2>1 DEF RefundCourse
<1>6. \A u \in Refunds : u # r => RefundCourse(u)'
  BY <1>1, <1>4, QuietCourse
<1>7. CASE paidBack' = paidBack
  BY <1>1, <1>5, <1>6, <1>7, NothingPaid DEF PaidInv
<1>8. CASE paidBack' # paidBack
  <2>1. /\ paidBack' = paidBack \cup {r} /\ r \notin paidBack
        /\ SumFunctionOnSet(Due, Of(paidBack, ask[r].sale)) + ask[r].amount <= SaleTotal[ask[r].sale]
    BY <1>1, <1>8 DEF ProcessorAccepts, ProcessorPays, Amount
  <2>2. IsFiniteSet(paidBack') /\ IsFiniteSet(booked')
    BY <1>1, <2>1, FS_AddElement DEF PaidInv
  <2>3. \A s \in CashSales : CashCovered(s)'
    BY <1>1, <1>3 DEF PaidInv, CashCovered, Unseen, Of
  <2>4. ASSUME NEW s \in CardSales PROVE CardCovered(s)'
    <3>1. CardCovered(s)
      BY DEF PaidInv
    <3>2. /\ Of(booked, s)' = Of(booked, s)
          /\ Of(booked, s) \subseteq Refunds /\ IsFiniteSet(Of(booked, s))
          /\ Of(paidBack, s) \subseteq Refunds /\ IsFiniteSet(Of(paidBack, s)) /\ r \notin Of(paidBack, s)
          /\ Unbooked(s) \subseteq Refunds /\ IsFiniteSet(Unbooked(s)) /\ r \notin Unbooked(s)
      BY <1>0, <1>1, <2>1, FS_Subset DEF PaidInv, RefundTypeOK, Of, Unbooked
    <3>3. CASE ask[r].sale # s
      <4>1. Of(paidBack, s)' = Of(paidBack, s) /\ Unbooked(s)' = Unbooked(s)
        BY <1>1, <2>1, <3>3 DEF Of, Unbooked, WithKey
      <4> QED BY <1>3, <3>1, <3>2, <4>1 DEF CardCovered
    <3>4. CASE ask[r].sale = s
      <4>1. Of(paidBack, s)' = Of(paidBack, s) \cup {r} /\ Unbooked(s)' \subseteq Unbooked(s) \cup {r}
        BY <1>1, <2>1, <3>4 DEF Of, Unbooked, WithKey
      <4>2. SumFunctionOnSet(Due, Of(paidBack, s) \cup {r}) = SumFunctionOnSet(Due, Of(paidBack, s)) + ask[r].amount
        BY <1>0, <3>2, DueGains
      <4>3. /\ SumFunctionOnSet(Due, Unbooked(s)') <= SumFunctionOnSet(Due, Unbooked(s)) + ask[r].amount
            /\ SumFunctionOnSet(Due, Unbooked(s)) \in Nat /\ SumFunctionOnSet(Due, Unbooked(s)') \in Nat /\ ask[r].amount \in Nat
        BY <1>0, <3>2, <4>1, DueGains
      <4>4. SumFunctionOnSet(Due, Of(paidBack, s)) \in Nat /\ SumFunctionOnSet(Due, Of(booked, s)) \in Nat
        BY <1>0, <3>2, DueSums
      <4>6. SaleTotal[s] \in Nat
        BY RefundConstants DEF Sales
      <4>7. SumFunctionOnSet(Due, Of(paidBack, s))' = SumFunctionOnSet(Due, Of(paidBack, s)) + ask[r].amount
        BY <1>3, <4>1, <4>2
      <4>8. /\ SumFunctionOnSet(Due, Of(booked, s))' = SumFunctionOnSet(Due, Of(booked, s))
            /\ SumFunctionOnSet(Due, Unbooked(s))' = SumFunctionOnSet(Due, Unbooked(s)')
        BY <1>3, <3>2
      <4> QED BY <2>1, <3>1, <3>4, <4>3, <4>4, <4>6, <4>7, <4>8 DEF CardCovered
    <3> QED BY <3>3, <3>4
  <2> QED BY <1>5, <1>6, <2>2, <2>3, <2>4 DEF PaidInv
<1> QED BY <1>7, <1>8

LEMMA CommitRefundFits ==
  ASSUME PaidInv, RefundInv', NEW r \in Refunds, CommitRefund(r)
  PROVE  PaidInv'
<1>0. RefundTypeOK /\ RefundCourse(r)
  BY DEF PaidInv, RefundInv
<1>1. /\ UNCHANGED <<ask, summed, paidBack>> /\ refundPc[r] = "commit" /\ refundPc'[r] = "done"
      /\ \A u \in Refunds : u # r => refundPc'[u] = refundPc[u] /\ summed'[u] = summed[u]
      /\ inserted' = inserted \ {r} /\ booked' = booked \cup {r}
  BY <1>0 DEF CommitRefund, RefundGoto, RefundTypeOK
<1>2. r \notin booked /\ WithKey(booked, ask[r].key) = {} /\ r \in inserted
  BY <1>0, <1>1 DEF RefundCourse, WithKey
<1>3. Due' = Due /\ IsFiniteSet(booked') /\ IsFiniteSet(paidBack')
  BY <1>1, FS_AddElement DEF Due, PaidInv
<1>4. ask[r] \in Ask /\ SaleTotal[ask[r].sale] \in Nat /\ ask[r].amount \in Nat
  BY <1>0, RefundConstants DEF RefundTypeOK, Ask
<1>5. RefundCourse(r)'
  <2>1. summed'[r] \subseteq Of(booked, ask[r].sale)'
    BY <1>0, <1>1 DEF RefundCourse, Of
  <2> QED BY <1>1, <2>1 DEF RefundCourse
<1>6. ASSUME NEW u \in Refunds, u # r PROVE RefundCourse(u)'
  <2>1. RefundCourse(u)
    BY DEF PaidInv
  <2>2. booked' \cup inserted' = booked \cup inserted
    BY <1>1, <1>2
  <2>3. refundPc[u] = "commit" => WithKey(booked' \cup inserted', ask[u].key) = {u}
    BY <2>1, <2>2, Zenon DEF RefundCourse
  <2> QED BY <1>1, <1>6, <2>3, OthersCourse
<1>7. \A s : /\ Of(booked, s) \subseteq Refunds /\ IsFiniteSet(Of(booked, s)) /\ r \notin Of(booked, s)
             /\ Of(paidBack, s)' = Of(paidBack, s)
             /\ Of(paidBack, s) \subseteq Refunds /\ IsFiniteSet(Of(paidBack, s))
             /\ Unbooked(s) \subseteq Refunds /\ IsFiniteSet(Unbooked(s)) /\ Unbooked(s)' \subseteq Unbooked(s)
             /\ ask[r].sale # s => Of(booked, s)' = Of(booked, s)
             /\ ask[r].sale = s => Of(booked, s)' = Of(booked, s) \cup {r}
  BY <1>0, <1>1, <1>2, FS_Subset DEF PaidInv, RefundTypeOK, Of, Unbooked, WithKey
<1>8. ASSUME NEW s \in CardSales PROVE CardCovered(s)'
  <2>1. CardCovered(s)
    BY DEF PaidInv
  <2>2. SaleTotal[s] \in Nat
    BY RefundConstants DEF Sales
  <2>3. /\ SumFunctionOnSet(Due, Of(booked, s)) \in Nat /\ SumFunctionOnSet(Due, Of(paidBack, s)) \in Nat
        /\ SumFunctionOnSet(Due, Unbooked(s)) \in Nat /\ SumFunctionOnSet(Due, Unbooked(s)') \in Nat
        /\ SumFunctionOnSet(Due, Unbooked(s)') <= SumFunctionOnSet(Due, Unbooked(s))
    BY <1>0, <1>7, DueSums
  <2>4. /\ SumFunctionOnSet(Due, Of(paidBack, s))' = SumFunctionOnSet(Due, Of(paidBack, s))
        /\ SumFunctionOnSet(Due, Unbooked(s))' = SumFunctionOnSet(Due, Unbooked(s)')
        /\ SumFunctionOnSet(Due, Of(booked, s))' = SumFunctionOnSet(Due, Of(booked, s)')
    BY <1>3, <1>7
  <2>5. CASE ask[r].sale # s
    <3>1. SumFunctionOnSet(Due, Of(booked, s)') = SumFunctionOnSet(Due, Of(booked, s))
      BY <1>7, <2>5
    <3> QED BY <2>1, <2>2, <2>3, <2>4, <3>1 DEF CardCovered
  <2>6. CASE ask[r].sale = s
    <3>1. PICK p \in paidBack : ask[p] = ask[r]
      BY <1>0, <1>1, <2>6 DEF RefundCourse
    <3>2. p \in Unbooked(s) /\ p \in Refunds /\ Unbooked(s)' \subseteq Unbooked(s) \ {p}
      BY <1>0, <1>1, <1>2, <2>6, <3>1 DEF Unbooked, Of, WithKey, RefundTypeOK
    <3>3. SumFunctionOnSet(Due, Unbooked(s)) = Due[p] + SumFunctionOnSet(Due, Unbooked(s) \ {p})
      BY <1>0, <1>7, <3>2, DueSums
    <3>4. IsFiniteSet(Unbooked(s) \ {p}) /\ Unbooked(s) \ {p} \subseteq Refunds
      BY <1>7, FS_Subset
    <3>5. /\ SumFunctionOnSet(Due, Unbooked(s)') <= SumFunctionOnSet(Due, Unbooked(s) \ {p}) /\ SumFunctionOnSet(Due, Unbooked(s) \ {p}) \in Nat
          /\ Due[p] = ask[p].amount
      BY <1>0, <3>2, <3>4, DueSums
    <3>6. SumFunctionOnSet(Due, Of(booked, s)') = SumFunctionOnSet(Due, Of(booked, s)) + ask[r].amount
      <4>1. SumFunctionOnSet(Due, Of(booked, s) \cup {r}) = SumFunctionOnSet(Due, Of(booked, s)) + ask[r].amount
        BY <1>0, <1>7, DueGains
      <4> QED BY <1>7, <2>6, <4>1
    <3> QED BY <1>4, <2>1, <2>2, <2>3, <2>4, <3>1, <3>3, <3>5, <3>6 DEF CardCovered
  <2> QED BY <2>5, <2>6
<1>9. ASSUME NEW s \in CashSales PROVE CashCovered(s)'
  <2>1. CashCovered(s)
    BY DEF PaidInv
  <2>2. Unseen(s) => Unseen(s)'
    BY <1>1 DEF Unseen, Of
  <2>3. SumFunctionOnSet(Due, Of(booked, s))' = SumFunctionOnSet(Due, Of(booked, s)')
    BY <1>3
  <2>4. CASE ask[r].sale # s
    <3>1. SumFunctionOnSet(Due, Of(booked, s)') = SumFunctionOnSet(Due, Of(booked, s))
      BY <1>7, <2>4
    <3> QED BY <2>1, <2>2, <2>3, <3>1 DEF CashCovered
  <2>5. CASE ask[r].sale = s /\ Of(booked, s) \subseteq summed[r]
    <3>1. summed[r] \subseteq Refunds /\ IsFiniteSet(summed[r]) /\ ask[r].amount + SumFunctionOnSet(Due, summed[r]) <= SaleTotal[s]
      BY <1>0, <1>1, <1>7, <2>5, FS_Subset DEF RefundCourse, RefundTypeOK
    <3>2. /\ SumFunctionOnSet(Due, Of(booked, s)) <= SumFunctionOnSet(Due, summed[r]) /\ SumFunctionOnSet(Due, Of(booked, s)) \in Nat
          /\ SumFunctionOnSet(Due, summed[r]) \in Nat
      BY <1>0, <2>5, <3>1, DueSums
    <3>3. SumFunctionOnSet(Due, Of(booked, s)') = SumFunctionOnSet(Due, Of(booked, s)) + ask[r].amount
      <4>1. SumFunctionOnSet(Due, Of(booked, s) \cup {r}) = SumFunctionOnSet(Due, Of(booked, s)) + ask[r].amount
        BY <1>0, <1>7, DueGains
      <4> QED BY <1>7, <2>5, <4>1
    <3> QED BY <1>4, <2>3, <2>5, <3>1, <3>2, <3>3 DEF CashCovered
  <2>6. CASE ask[r].sale = s /\ ~(Of(booked, s) \subseteq summed[r])
    <3>1. PICK a \in Of(booked, s) : a \notin summed[r]
      BY <2>6
    <3>2. a # r /\ a \in Refunds /\ RefundCourse(a)
      BY <1>7, <3>1 DEF PaidInv
    <3>3. r \notin summed[a]
      BY <1>2, <3>2 DEF RefundCourse, Of
    <3>4. a \in Of(booked, s)' /\ r \in Of(booked, s)'
      BY <1>7, <2>6, <3>1
    <3>5. Unseen(s)'
      BY <1>1, <3>1, <3>2, <3>3, <3>4 DEF Unseen
    <3> QED BY <3>5 DEF CashCovered
  <2> QED BY <2>4, <2>5, <2>6
<1> QED BY <1>3, <1>5, <1>6, <1>8, <1>9 DEF PaidInv

\* Nothing is given back beyond the sale, for any number of refunds, sales and amounts: by card never,
\* whatever answers get lost and whatever transactions are dropped, and in cash only by two refunds at once.
THEOREM NothingOverpaid == RefundSpec => []RefundsFit
<1>1. PaidInv /\ [RefundNext]_refundVars => PaidInv'
  <2> SUFFICES ASSUME PaidInv, [RefundNext]_refundVars
               PROVE  PaidInv'
    OBVIOUS
  <2>1. ASSUME NEW r \in Refunds,
               LookForKey(r) \/ SumRefunds(r) \/ PayBack(r) \/ InsertRefund(r) \/ CommitRefund(r) \/ DropRefund(r)
        PROVE  PaidInv'
    <3>1. RefundInv'
      BY <2>1, RefundsStep DEF PaidInv
    <3> QED BY <2>1, <3>1, SumRefundsFits, QuietFits, PayBackFits, CommitRefundFits
  <2>2. CASE UNCHANGED refundVars
    <3>1. RefundInv'
      BY <2>2 DEF PaidInv, RefundInv, refundVars, RefundTypeOK, PaidBackIsAccounted, WithKey
    <3>2. \A u \in Refunds : RefundCourse(u)'
      <4>1. Due' = Due
        BY <2>2 DEF refundVars, Due
      <4>2. \A u \in Refunds : RefundCourse(u)
        BY DEF PaidInv
      <4> QED BY <2>2, <4>1, <4>2 DEF refundVars, RefundCourse, WithKey, Of
    <3> QED BY <2>2, <3>1, <3>2, NothingPaid DEF PaidInv, refundVars
  <2> QED BY <2>1, <2>2 DEF RefundNext
<1> QED BY <1>1, PaidStarts, PaidIsFit, PTL DEF RefundSpec

-----------------------------------------------------------------------------
(***************************************************************************)
(* ShopDay.  The drawer always holds what today's opening counted and what *)
(* has happened since; the form of a closing carries that with it, because *)
(* no opening can come between its count and its row.                      *)
(***************************************************************************)

Typed ==
  /\ drawer \in Int /\ day \in Days /\ stamp \in Nat
  /\ opening \in [Days -> [at: Nat, float: Int]]
  /\ takings \in Takings
  /\ closing.step \in {"none", "panel", "summary", "insert"}

\* An opening is of a day that has come and has a stamp that was given.
OpeningsStamped == \A d \in Days : opening[d].at <= stamp /\ (opening[d].at # 0 => d <= day)

\* What was counted, by an opening's float and the takings since.
Counts(cash, float, since) == cash = float + since.off + since.sold - since.before - since.back

DrawerCounts == opening[day].at # 0 => Counts(drawer, opening[day].float, takings)

PanelFields   == {"step", "shown", "sold", "opened", "asked"}
SummaryFields == PanelFields \cup {"at", "counted", "on", "known"}
InsertFields  == SummaryFields \cup {"expected", "day", "late", "under"}

PanelForm ==
  /\ closing.shown \in Int /\ closing.sold \in Nat /\ closing.opened \in Nat /\ closing.asked \in Days
  /\ closing.opened # 0 /\ closing.opened <= stamp /\ closing.asked <= day
  /\ opening[closing.asked].at = closing.opened => closing.shown = opening[closing.asked].float + closing.sold

SummaryForm ==
  /\ closing.counted \in Int /\ closing.on \in Days /\ closing.known \in Takings /\ closing.on <= day
  /\ opening[closing.on].at # 0 => Counts(closing.counted, opening[closing.on].float, closing.known)

InsertForm ==
  /\ closing.expected \in Int /\ closing.day \in Days /\ closing.late \in Nat /\ closing.day <= day
  /\ closing.under = opening[closing.day].at
  /\ closing.under # 0 => closing.expected = opening[closing.day].float + closing.late

FormHolds ==
  /\ closing.step = "panel"   => DOMAIN closing = PanelFields /\ PanelForm
  /\ closing.step = "summary" => DOMAIN closing = SummaryFields /\ PanelForm /\ SummaryForm
  /\ closing.step = "insert"  => DOMAIN closing = InsertFields /\ PanelForm /\ SummaryForm /\ InsertForm

ShopDayInv == Typed /\ OpeningsStamped /\ DrawerCounts /\ FormHolds /\ VarianceExplained

-----------------------------------------------------------------------------
LEMMA Recounted ==
  ASSUME NEW t \in Takings, NEW off \in Int
  PROVE  LET u == [t EXCEPT !.before = t.sold, !.back = 0, !.off = off]
         IN  u \in Takings /\ u.before = t.sold /\ u.back = 0 /\ u.off = off /\ u.sold = t.sold
  BY DEF Takings

LEMMA TakingsTyped ==
  ASSUME NEW t \in Takings
  PROVE  t.sold \in Nat /\ t.before \in Nat /\ t.back \in Nat /\ t.off \in Int
  BY DEF Takings

LEMMA OpeningsTyped ==
  ASSUME Typed, NEW d \in Days
  PROVE  opening[d].at \in Nat /\ opening[d].float \in Int /\ d \in Nat /\ d >= 1
<1>1. opening[d] \in [at: Nat, float: Int]
  BY DEF Typed
<1>2. QED
  BY <1>1 DEF Days

\* A form that has moved on keeps what it held and holds what was added.
LEMMA FilledIn ==
  ASSUME NEW step, NEW more, closing' = Filled(step, more), "step" \in DOMAIN closing,
         DOMAIN more \cap DOMAIN closing = {}
  PROVE  /\ closing'.step = step /\ DOMAIN closing' = DOMAIN closing \cup DOMAIN more
         /\ \A x \in DOMAIN closing \ {"step"} : closing'[x] = closing[x]
         /\ \A x \in DOMAIN more : closing'[x] = more[x]
  BY DEF Filled

\* Fields of a form, by their names.
LEMMA PanelKept ==
  ASSUME Typed, FormHolds, closing.step \in {"panel", "summary", "insert"},
         \A x \in PanelFields \ {"step"} : closing'[x] = closing[x],
         opening' = opening, stamp <= stamp', stamp' \in Nat, day <= day', day' \in Days
  PROVE  PanelForm'
<1>1. /\ closing'.shown = closing.shown /\ closing'.sold = closing.sold
      /\ closing'.opened = closing.opened /\ closing'.asked = closing.asked
  BY DEF PanelFields
<1>2. PanelForm
  BY DEF FormHolds
<1>3. closing.opened <= stamp' /\ closing.asked <= day'
  BY <1>2 DEF PanelForm, Days, Typed
<1>4. QED
  BY <1>1, <1>2, <1>3 DEF PanelForm

LEMMA SummaryKept ==
  ASSUME Typed, FormHolds, closing.step \in {"summary", "insert"},
         \A x \in SummaryFields \ {"step"} : closing'[x] = closing[x],
         opening' = opening, day <= day', day' \in Days
  PROVE  SummaryForm'
<1>1. closing'.counted = closing.counted /\ closing'.on = closing.on /\ closing'.known = closing.known
  BY DEF SummaryFields
<1>2. SummaryForm
  BY DEF FormHolds
<1>3. closing.on <= day'
  BY <1>2 DEF SummaryForm, Days, Typed
<1>4. QED
  BY <1>1, <1>2, <1>3 DEF SummaryForm, Counts

\* The drawer, the takings or the date change, and no opening and no form do.
LEMMA FormStands ==
  ASSUME Typed, FormHolds, closing' = closing, opening' = opening, stamp <= stamp', stamp' \in Nat,
         day <= day', day' \in Days
  PROVE  FormHolds'
<1>1. closing.step = "panel" \/ closing.step = "summary" \/ closing.step = "insert" => PanelForm'
  BY PanelKept
<1>2. closing.step = "summary" \/ closing.step = "insert" => SummaryForm'
  BY SummaryKept
<1>3. closing.step = "insert" => InsertForm'
  <2>1. SUFFICES ASSUME closing.step = "insert" PROVE InsertForm'
    OBVIOUS
  <2>2. InsertForm
    BY <2>1 DEF FormHolds
  <2>3. closing.day <= day'
    BY <2>2 DEF InsertForm, Days, Typed
  <2>4. QED
    BY <2>2, <2>3 DEF InsertForm
<1>4. QED
  BY <1>1, <1>2, <1>3 DEF FormHolds

LEMMA ShopDayStarts == ShopDayInit => ShopDayInv
<1> SUFFICES ASSUME ShopDayInit PROVE ShopDayInv
  OBVIOUS
<1>1. Typed
  BY ShopDayConstants DEF ShopDayInit, Typed, Days, Takings, NoTakings, NoClosing
<1>2. \A d \in Days : opening[d].at = 0
  BY DEF ShopDayInit
<1>3. 1 \in Days
  BY ShopDayConstants DEF Days
<1>4. OpeningsStamped
  BY <1>2 DEF ShopDayInit, OpeningsStamped
<1>5. DrawerCounts
  BY <1>2, <1>3 DEF ShopDayInit, DrawerCounts
<1>6. FormHolds
  BY DEF ShopDayInit, FormHolds, NoClosing
<1>7. VarianceExplained
  BY DEF ShopDayInit, VarianceExplained
<1>8. QED
  BY <1>1, <1>4, <1>5, <1>6, <1>7 DEF ShopDayInv

LEMMA SaleExplained ==
  ASSUME ShopDayInv, CashSale \/ CashRefund
  PROVE  ShopDayInv'
<1>1. /\ day' = day /\ stamp' = stamp /\ opening' = opening /\ closings' = closings /\ closing' = closing
  BY DEF CashSale, CashRefund
<1>2. Typed
  BY DEF ShopDayInv
<1>3. /\ drawer \in Int /\ takings \in Takings /\ stamp \in Nat /\ day \in Nat /\ day \in Days
      /\ takings.sold \in Nat /\ takings.before \in Nat /\ takings.back \in Nat /\ takings.off \in Int
      /\ opening[day].float \in Int /\ opening[day].at \in Nat
  BY <1>2, TakingsTyped, OpeningsTyped DEF Typed
<1>4. /\ drawer' \in Int /\ takings' \in Takings
      /\ takings'.before = takings.before /\ takings'.off = takings.off
      /\ drawer' - takings'.sold + takings'.back = drawer - takings.sold + takings.back
      /\ takings'.sold \in Nat /\ takings'.back \in Nat
  <2>1. CASE CashSale
    BY <1>3, <2>1 DEF CashSale, Takings
  <2>2. CASE CashRefund
    BY <1>3, <2>2 DEF CashRefund, Takings
  <2>3. QED
    BY <2>1, <2>2
<1>5. Typed'
  BY <1>1, <1>2, <1>4 DEF Typed
<1>6. DrawerCounts'
  <2>1. SUFFICES ASSUME opening[day].at # 0 PROVE drawer' = opening[day].float + takings'.off + takings'.sold - takings'.before - takings'.back
    BY <1>1 DEF DrawerCounts, Counts
  <2>2. drawer = opening[day].float + takings.off + takings.sold - takings.before - takings.back
    BY <2>1 DEF ShopDayInv, DrawerCounts, Counts
  <2>3. drawer' = opening[day].float + takings.off + takings'.sold - takings.before - takings'.back
    <3> DEFINE float == opening[day].float
               off == takings.off
               before == takings.before
               s == takings.sold
               b == takings.back
               e == drawer'
               t == takings'.sold
               c == takings'.back
    <3>1. /\ float \in Int /\ off \in Int /\ before \in Nat /\ s \in Nat /\ b \in Nat /\ drawer \in Int
          /\ e \in Int /\ t \in Nat /\ c \in Nat
      BY <1>3, <1>4
    <3>2. drawer = float + off + s - before - b /\ e - t + c = drawer - s + b
      BY <1>4, <2>2
    <3> HIDE DEF float, off, before, s, b, e, t, c
    <3>3. e = float + off + t - before - c
      BY <3>1, <3>2
    <3>4. QED
      BY <3>3 DEF float, off, before, e, t, c
  <2>4. QED
    BY <1>4, <2>3
<1>7. OpeningsStamped' /\ VarianceExplained'
  BY <1>1 DEF ShopDayInv, OpeningsStamped, VarianceExplained
<1>8. FormHolds'
  BY <1>1, <1>2, <1>3, FormStands DEF ShopDayInv
<1>9. QED
  BY <1>5, <1>6, <1>7, <1>8 DEF ShopDayInv

\* An opening takes a stamp later than the one a panel went by.
LEMMA OpenExplained ==
  ASSUME ShopDayInv, OpenShop
  PROVE  ShopDayInv'
<1>1. Typed /\ drawer \in Int /\ takings \in Takings /\ stamp \in Nat /\ day \in Days
  BY DEF ShopDayInv, Typed
<1>2. takings.sold \in Nat /\ takings.before \in Nat /\ takings.back \in Nat /\ takings.off \in Int
  BY <1>1, TakingsTyped
<1>3. PICK float \in {StartFloat, drawer} \cap Nat :
        /\ opening' = [opening EXCEPT ![day] = [at |-> stamp + 1, float |-> float]]
        /\ takings' = [takings EXCEPT !.before = takings.sold, !.back = 0, !.off = drawer - float]
  BY DEF OpenShop
<1>4. float \in Int
  OBVIOUS
<1>5. \A d \in Days : IF d = day THEN opening'[d] = [at |-> stamp + 1, float |-> float]
                                 ELSE opening'[d] = opening[d]
  BY <1>1, <1>3 DEF Typed
<1>6. drawer' = drawer /\ day' = day /\ stamp' = stamp + 1 /\ closings' = closings /\ closing' = closing
      /\ closing.step \in {"none", "panel"}
  BY DEF OpenShop
<1>7. /\ takings' \in Takings /\ takings'.before = takings.sold /\ takings'.back = 0
      /\ takings'.off = drawer - float /\ takings'.sold = takings.sold
  <2>1. drawer - float \in Int
    BY <1>1, <1>4
  <2>2. QED
    BY <1>1, <1>3, <2>1, Recounted
<1>8. Typed'
  <2>1. opening' \in [Days -> [at: Nat, float: Int]]
    BY <1>1, <1>3, <1>4 DEF Typed
  <2>2. QED
    BY <1>1, <1>6, <1>7, <2>1 DEF Typed
<1>9. OpeningsStamped'
  <2>1. \A d \in Days : opening'[d].at <= stamp + 1 /\ (opening'[d].at # 0 => d <= day)
    <3>1. SUFFICES ASSUME NEW d \in Days
                   PROVE  opening'[d].at <= stamp + 1 /\ (opening'[d].at # 0 => d <= day)
      OBVIOUS
    <3>2. CASE d = day
      BY <1>1, <1>5, <3>2 DEF Days
    <3>3. CASE d # day
      <4>1. opening[d].at \in Nat /\ opening[d].at <= stamp /\ (opening[d].at # 0 => d <= day)
        BY <1>1, OpeningsTyped DEF ShopDayInv, OpeningsStamped
      <4>2. QED
        BY <1>1, <1>5, <3>3, <4>1
    <3>4. QED
      BY <3>2, <3>3
  <2>2. QED
    BY <1>6, <2>1 DEF OpeningsStamped
<1>10. DrawerCounts'
  <2>1. opening'[day'].float = float
    BY <1>1, <1>5, <1>6
  <2>2. QED
    BY <1>1, <1>2, <1>4, <1>6, <1>7, <2>1 DEF DrawerCounts, Counts
<1>11. FormHolds'
  <2>1. CASE closing.step = "none"
    BY <1>6, <2>1 DEF FormHolds
  <2>2. CASE closing.step = "panel"
    <3>1. DOMAIN closing = PanelFields /\ PanelForm
      BY <2>2 DEF ShopDayInv, FormHolds
    <3>2. /\ closing.opened \in Nat /\ closing.opened <= stamp /\ closing.asked \in Days
      BY <3>1 DEF PanelForm
    <3>3. ASSUME opening'[closing.asked].at = closing.opened
          PROVE  opening'[closing.asked] = opening[closing.asked]
      BY <1>1, <1>5, <3>2, <3>3
    <3>4. closing.opened <= stamp + 1
      BY <1>1, <3>2
    <3>5. PanelForm'
      BY <1>6, <3>1, <3>3, <3>4 DEF PanelForm
    <3>6. QED
      BY <1>6, <2>2, <3>1, <3>5 DEF FormHolds
  <2>3. QED
    BY <1>6, <2>1, <2>2
<1>12. VarianceExplained'
  BY <1>6 DEF ShopDayInv, VarianceExplained
<1>13. QED
  BY <1>8, <1>9, <1>10, <1>11, <1>12 DEF ShopDayInv

\* The steps of the form leave the drawer and the openings alone.
LEMMA FormMoves ==
  ASSUME ShopDayInv, drawer' = drawer, day' = day, stamp' \in Nat, stamp <= stamp', opening' = opening,
         takings' = takings, closing'.step \in {"none", "panel", "summary", "insert"},
         FormHolds', VarianceExplained'
  PROVE  ShopDayInv'
<1>1. Typed /\ OpeningsStamped /\ DrawerCounts
  BY DEF ShopDayInv
<1>2. Typed'
  BY <1>1 DEF Typed
<1>3. OpeningsStamped'
  <2>1. \A d \in Days : opening[d].at \in Nat
    BY <1>1, OpeningsTyped
  <2>2. QED
    BY <1>1, <2>1 DEF OpeningsStamped, Typed
<1>4. DrawerCounts'
  BY <1>1 DEF DrawerCounts, Counts
<1>5. QED
  BY <1>2, <1>3, <1>4 DEF ShopDayInv

LEMMA ExpectedTyped ==
  ASSUME Typed
  PROVE  /\ ExpectedCash \in Int
         /\ opening[day].at # 0 => ExpectedCash = opening[day].float + takings.sold
<1>1. day \in Days /\ takings.sold \in Nat
  BY TakingsTyped DEF Typed
<1>2. opening[day].float \in Int
  BY <1>1, OpeningsTyped
<1>3. QED
  BY <1>1, <1>2, ShopDayConstants DEF ExpectedCash

LEMMA PanelExplained ==
  ASSUME ShopDayInv, OpenClosingPanel
  PROVE  ShopDayInv'
<1>1. Typed /\ day \in Days /\ stamp \in Nat /\ takings.sold \in Nat /\ day \in Int
  BY TakingsTyped DEF ShopDayInv, Typed, Days
<1>2. opening[day].at \in Nat /\ opening[day].at # 0 /\ opening[day].at <= stamp
  BY <1>1, OpeningsTyped DEF OpenClosingPanel, ShopState, ShopDayInv, OpeningsStamped
<1>3. ExpectedCash \in Int /\ ExpectedCash = opening[day].float + takings.sold
  BY <1>1, <1>2, ExpectedTyped
<1>4. closing' = [step |-> "panel", shown |-> ExpectedCash, sold |-> takings.sold,
                  opened |-> opening[day].at, asked |-> day]
  BY DEF OpenClosingPanel
<1>5. /\ drawer' = drawer /\ day' = day /\ stamp' = stamp /\ opening' = opening /\ closings' = closings
      /\ takings' = takings
  BY DEF OpenClosingPanel
<1>6. /\ closing'.step = "panel" /\ closing'.shown = ExpectedCash /\ closing'.sold = takings.sold
      /\ closing'.opened = opening[day].at /\ closing'.asked = day /\ DOMAIN closing' = PanelFields
  BY <1>4 DEF PanelFields
<1>7. PanelForm'
  BY <1>1, <1>2, <1>3, <1>5, <1>6 DEF PanelForm
<1>8. FormHolds'
  BY <1>6, <1>7 DEF FormHolds
<1>9. VarianceExplained'
  BY <1>5 DEF ShopDayInv, VarianceExplained
<1>10. QED
  BY <1>1, <1>5, <1>6, <1>8, <1>9, FormMoves

LEMMA LeaveExplained ==
  ASSUME ShopDayInv, LeaveClosingPanel
  PROVE  ShopDayInv'
<1>1. /\ drawer' = drawer /\ day' = day /\ stamp' = stamp /\ opening' = opening /\ closings' = closings
      /\ takings' = takings /\ closing'.step = "none" /\ stamp \in Nat
  BY DEF LeaveClosingPanel, NoClosing, ShopDayInv, Typed
<1>2. FormHolds'
  BY <1>1 DEF FormHolds
<1>3. VarianceExplained'
  BY <1>1 DEF ShopDayInv, VarianceExplained
<1>4. QED
  BY <1>1, <1>2, <1>3, FormMoves

LEMMA CountExplained ==
  ASSUME ShopDayInv, CountDrawer
  PROVE  ShopDayInv'
<1> DEFINE more == [at |-> stamp + 1, counted |-> drawer, on |-> day, known |-> takings]
<1>1. Typed /\ FormHolds /\ drawer \in Int /\ day \in Days /\ day \in Int /\ stamp \in Nat /\ takings \in Takings
  BY DEF ShopDayInv, Typed, Days
<1>2. /\ drawer' = drawer /\ day' = day /\ stamp' = stamp + 1 /\ opening' = opening /\ closings' = closings
      /\ takings' = takings /\ closing.step = "panel" /\ closing' = Filled("summary", more)
  BY DEF CountDrawer
<1>3. DOMAIN closing = PanelFields
  BY <1>1, <1>2 DEF FormHolds
<1>4. /\ DOMAIN more = {"at", "counted", "on", "known"}
      /\ more.counted = drawer /\ more.on = day /\ more.known = takings
  OBVIOUS
<1> HIDE DEF more
<1>5. "step" \in DOMAIN closing /\ DOMAIN more \cap DOMAIN closing = {}
  BY <1>3, <1>4 DEF PanelFields
<1>6. /\ closing'.step = "summary" /\ DOMAIN closing' = DOMAIN closing \cup DOMAIN more
      /\ \A x \in DOMAIN closing \ {"step"} : closing'[x] = closing[x]
      /\ \A x \in DOMAIN more : closing'[x] = more[x]
  BY <1>2, <1>5, FilledIn
<1>7. DOMAIN closing' = SummaryFields
  BY <1>3, <1>4, <1>6 DEF SummaryFields, PanelFields
<1>8. stamp <= stamp' /\ stamp' \in Nat /\ day <= day'
  BY <1>1, <1>2
<1>9. PanelForm'
  <2>1. \A x \in PanelFields \ {"step"} : closing'[x] = closing[x]
    BY <1>3, <1>6
  <2>2. QED
    BY <1>1, <1>2, <1>8, <2>1, PanelKept
<1>10. SummaryForm'
  <2>1. closing'.counted = drawer /\ closing'.on = day /\ closing'.known = takings
    BY <1>4, <1>6
  <2>2. DrawerCounts
    BY DEF ShopDayInv
  <2>3. QED
    BY <1>1, <1>2, <1>8, <2>1, <2>2 DEF SummaryForm, DrawerCounts, Counts
<1>11. FormHolds'
  BY <1>6, <1>7, <1>9, <1>10 DEF FormHolds
<1>12. VarianceExplained'
  BY <1>2 DEF ShopDayInv, VarianceExplained
<1>13. QED
  BY <1>2, <1>6, <1>8, <1>11, <1>12, FormMoves

LEMMA SummaryExplained ==
  ASSUME ShopDayInv, ReadSummary
  PROVE  ShopDayInv'
<1> DEFINE more == [expected |-> ExpectedCash, day |-> day, late |-> takings.sold, under |-> opening[day].at]
<1>1. /\ Typed /\ FormHolds /\ day \in Days /\ day \in Int /\ stamp \in Nat /\ takings.sold \in Nat
  BY TakingsTyped DEF ShopDayInv, Typed, Days
<1>2. /\ drawer' = drawer /\ day' = day /\ stamp' = stamp /\ opening' = opening /\ closings' = closings
      /\ takings' = takings /\ closing.step = "summary" /\ closing' = Filled("insert", more)
  BY DEF ReadSummary
<1>3. DOMAIN closing = SummaryFields
  BY <1>1, <1>2 DEF FormHolds
<1>4. /\ DOMAIN more = {"expected", "day", "late", "under"}
      /\ more.expected = ExpectedCash /\ more.day = day /\ more.late = takings.sold
      /\ more.under = opening[day].at
  OBVIOUS
<1> HIDE DEF more
<1>5. "step" \in DOMAIN closing /\ DOMAIN more \cap DOMAIN closing = {}
  BY <1>3, <1>4 DEF SummaryFields, PanelFields
<1>6. /\ closing'.step = "insert" /\ DOMAIN closing' = DOMAIN closing \cup DOMAIN more
      /\ \A x \in DOMAIN closing \ {"step"} : closing'[x] = closing[x]
      /\ \A x \in DOMAIN more : closing'[x] = more[x]
  BY <1>2, <1>5, FilledIn
<1>7. DOMAIN closing' = InsertFields
  BY <1>3, <1>4, <1>6 DEF InsertFields, SummaryFields, PanelFields
<1>8. stamp <= stamp' /\ stamp' \in Nat /\ day <= day'
  BY <1>1, <1>2
<1>9. PanelForm'
  <2>1. \A x \in PanelFields \ {"step"} : closing'[x] = closing[x]
    BY <1>3, <1>6 DEF SummaryFields
  <2>2. QED
    BY <1>1, <1>2, <1>8, <2>1, PanelKept
<1>10. SummaryForm'
  <2>1. \A x \in SummaryFields \ {"step"} : closing'[x] = closing[x]
    BY <1>3, <1>6
  <2>2. QED
    BY <1>1, <1>2, <1>8, <2>1, SummaryKept
<1>11. InsertForm'
  <2>1. /\ closing'.expected = ExpectedCash /\ closing'.day = day /\ closing'.late = takings.sold
        /\ closing'.under = opening[day].at
    BY <1>4, <1>6
  <2>2. ExpectedCash \in Int /\ (opening[day].at # 0 => ExpectedCash = opening[day].float + takings.sold)
    BY <1>1, ExpectedTyped
  <2>3. QED
    BY <1>1, <1>2, <1>8, <2>1, <2>2 DEF InsertForm
<1>12. FormHolds'
  BY <1>6, <1>7, <1>9, <1>10, <1>11 DEF FormHolds
<1>13. VarianceExplained'
  BY <1>2 DEF ShopDayInv, VarianceExplained
<1>14. QED
  BY <1>2, <1>6, <1>8, <1>12, <1>13, FormMoves

LEMMA InsertExplained ==
  ASSUME ShopDayInv, InsertClosing
  PROVE  ShopDayInv'
<1>1. /\ drawer' = drawer /\ day' = day /\ stamp' = stamp /\ opening' = opening /\ takings' = takings
      /\ closing.step = "insert" /\ closing'.step = "none" /\ stamp \in Nat
      /\ closings' \subseteq closings \cup {NewClosing}
  BY DEF InsertClosing, NoClosing, ShopDayInv, Typed
<1>2. Typed /\ DOMAIN closing = InsertFields /\ PanelForm /\ SummaryForm /\ InsertForm
  BY <1>1 DEF ShopDayInv, FormHolds
<1>3. \A f \in InsertFields \ {"step"} : NewClosing[f] = closing[f]
  BY <1>2 DEF NewClosing
<1>4. /\ NewClosing.on = closing.on /\ NewClosing.day = closing.day /\ NewClosing.under = closing.under
      /\ NewClosing.counted = closing.counted /\ NewClosing.expected = closing.expected
      /\ NewClosing.known = closing.known /\ NewClosing.late = closing.late
  BY <1>3 DEF InsertFields, SummaryFields, PanelFields
<1>5. /\ NewClosing.asked = closing.asked /\ NewClosing.opened = closing.opened
      /\ NewClosing.shown = closing.shown /\ NewClosing.sold = closing.sold
  BY <1>3 DEF InsertFields, SummaryFields, PanelFields
<1>6. /\ closing.known.sold \in Nat /\ closing.known.before \in Nat /\ closing.known.back \in Nat
      /\ closing.known.off \in Int
  BY <1>2, TakingsTyped DEF SummaryForm
<1>7. closing.day \in Days /\ opening[closing.day].float \in Int /\ opening[closing.day].at \in Nat
      /\ closing.late \in Nat /\ closing.expected \in Int /\ closing.counted \in Int
      /\ closing.shown \in Int /\ closing.sold \in Nat
  BY <1>2, OpeningsTyped DEF InsertForm, SummaryForm, PanelForm
<1>8. ASSUME closing.on = closing.day, closing.under # 0
      PROVE  closing.counted - closing.expected =
               closing.known.off - closing.known.back - closing.known.before
                 - (closing.late - closing.known.sold)
  <2>1. closing.expected = opening[closing.day].float + closing.late /\ opening[closing.day].at # 0
    BY <1>2, <1>8 DEF InsertForm
  <2>2. closing.counted = opening[closing.day].float + closing.known.off + closing.known.sold
                            - closing.known.before - closing.known.back
    BY <1>2, <1>8, <2>1 DEF SummaryForm, Counts
  <2>3. QED
    BY <1>6, <1>7, <2>1, <2>2
<1>9. ASSUME closing.asked = closing.day, closing.opened = closing.under
      PROVE  closing.expected - closing.shown = closing.late - closing.sold
  <2>1. closing.under = opening[closing.day].at /\ closing.opened # 0
    BY <1>2 DEF InsertForm, PanelForm
  <2>2. closing.expected = opening[closing.day].float + closing.late
    BY <1>2, <1>9, <2>1 DEF InsertForm
  <2>3. closing.shown = opening[closing.day].float + closing.sold
    BY <1>2, <1>9, <2>1 DEF PanelForm
  <2>4. QED
    BY <1>7, <2>2, <2>3
<1>10. VarianceExplained'
  <2>1. SUFFICES ASSUME NEW c \in closings'
                 PROVE  /\ c.on = c.day /\ c.under # 0 =>
                            c.counted - c.expected =
                              c.known.off - c.known.back - c.known.before - (c.late - c.known.sold)
                        /\ c.asked = c.day /\ c.opened = c.under => c.expected - c.shown = c.late - c.sold
    BY DEF VarianceExplained
  <2>2. CASE c \in closings
    BY <2>2 DEF ShopDayInv, VarianceExplained
  <2>3. CASE c = NewClosing
    BY <1>4, <1>5, <1>8, <1>9, <2>3
  <2>4. QED
    BY <1>1, <2>2, <2>3
<1>11. FormHolds'
  BY <1>1 DEF FormHolds
<1>12. QED
  BY <1>1, <1>10, <1>11, FormMoves

LEMMA MidnightExplained ==
  ASSUME ShopDayInv, Midnight
  PROVE  ShopDayInv'
<1>1. /\ drawer' = drawer /\ day' = day + 1 /\ stamp' = stamp /\ opening' = opening /\ closings' = closings
      /\ closing' = closing /\ takings' = NoTakings /\ day < LastDay
  BY DEF Midnight
<1>2. Typed /\ FormHolds /\ day \in Days /\ day \in Nat /\ day' \in Days /\ day <= day' /\ stamp \in Nat
  BY <1>1, ShopDayConstants DEF ShopDayInv, Typed, Days
<1>3. Typed'
  BY <1>1, <1>2 DEF Typed, NoTakings, Takings
<1>4. OpeningsStamped' /\ opening[day + 1].at = 0
  <2>1. \A d \in Days : d \in Nat /\ opening[d].at <= stamp /\ (opening[d].at # 0 => d <= day)
    BY DEF ShopDayInv, OpeningsStamped, Days
  <2>2. OpeningsStamped'
    BY <1>1, <1>2, <2>1 DEF OpeningsStamped
  <2>3. opening[day + 1].at = 0
    BY <1>1, <1>2, <2>1
  <2>4. QED
    BY <2>2, <2>3
<1>5. DrawerCounts'
  BY <1>1, <1>4 DEF DrawerCounts
<1>6. FormHolds'
  BY <1>1, <1>2, FormStands
<1>7. VarianceExplained'
  BY <1>1 DEF ShopDayInv, VarianceExplained
<1>8. QED
  BY <1>3, <1>4, <1>5, <1>6, <1>7 DEF ShopDayInv

LEMMA ShopDayStep == ShopDayInv /\ [ShopDayNext]_shopDayVars => ShopDayInv'
<1> SUFFICES ASSUME ShopDayInv, [ShopDayNext]_shopDayVars PROVE ShopDayInv'
  OBVIOUS
<1>1. CASE CashSale \/ CashRefund
  BY <1>1, SaleExplained
<1>2. CASE OpenShop
  BY <1>2, OpenExplained
<1>3. CASE OpenClosingPanel
  BY <1>3, PanelExplained
<1>4. CASE LeaveClosingPanel
  BY <1>4, LeaveExplained
<1>5. CASE CountDrawer
  BY <1>5, CountExplained
<1>6. CASE ReadSummary
  BY <1>6, SummaryExplained
<1>7. CASE InsertClosing
  BY <1>7, InsertExplained
<1>8. CASE Midnight
  BY <1>8, MidnightExplained
<1>9. CASE UNCHANGED shopDayVars
  BY <1>9 DEF shopDayVars, ShopDayInv, Typed, OpeningsStamped, DrawerCounts, Counts, FormHolds, PanelForm,
              SummaryForm, InsertForm, VarianceExplained
<1>10. QED
  BY <1>1, <1>2, <1>3, <1>4, <1>5, <1>6, <1>7, <1>8, <1>9 DEF ShopDayNext

\* The difference that a closing shows (closeShop, closeShopSummary) is the refunds since the opening,
\* the sales that a reopening counted again, what the opening left uncounted, and the sales made while
\* the form was on its way, and nothing else; the expectation the panel showed differs from the one
\* written down by the sales since.
THEOREM DrawerExplained == ShopDaySpec => []VarianceExplained
<1>1. ShopDayInv => VarianceExplained
  BY DEF ShopDayInv
<1>2. QED
  BY <1>1, ShopDayStarts, ShopDayStep, PTL DEF ShopDaySpec

\* The form that is on its way says when it was submitted, and every row is one.
RowsAreClosings ==
  /\ closing.step \in {"summary", "insert"} => closing.at \in Nat
  /\ closings \subseteq Closing

LEMMA RowsStay == ShopDayInv /\ RowsAreClosings /\ [ShopDayNext]_shopDayVars => RowsAreClosings'
<1> SUFFICES ASSUME ShopDayInv, RowsAreClosings, [ShopDayNext]_shopDayVars PROVE RowsAreClosings'
  OBVIOUS
<1>0. stamp \in Nat /\ FormHolds /\ closing.step \in {"none", "panel", "summary", "insert"}
  BY DEF ShopDayInv, Typed
<1>1. CASE CashSale \/ CashRefund \/ OpenShop \/ Midnight
  BY <1>1 DEF CashSale, CashRefund, OpenShop, Midnight, RowsAreClosings
<1>2. CASE OpenClosingPanel \/ LeaveClosingPanel
  BY <1>2 DEF OpenClosingPanel, LeaveClosingPanel, NoClosing, RowsAreClosings
<1>3. CASE CountDrawer
  <2> DEFINE more == [at |-> stamp + 1, counted |-> drawer, on |-> day, known |-> takings]
  <2>1. closing.step = "panel" /\ closing' = Filled("summary", more) /\ UNCHANGED closings /\ DOMAIN closing = PanelFields
    BY <1>0, <1>3 DEF CountDrawer, FormHolds
  <2>2. "step" \in DOMAIN closing /\ DOMAIN more \cap DOMAIN closing = {} /\ "at" \in DOMAIN more /\ more["at"] = stamp + 1
    BY <2>1 DEF PanelFields
  <2> HIDE DEF more
  <2>3. closing'["at"] = more["at"]
    BY <2>1, <2>2, FilledIn
  <2> QED BY <1>0, <2>1, <2>2, <2>3 DEF RowsAreClosings
<1>4. CASE ReadSummary
  <2> DEFINE more == [expected |-> ExpectedCash, day |-> day, late |-> takings.sold, under |-> opening[day].at]
  <2>1. closing.step = "summary" /\ closing' = Filled("insert", more) /\ UNCHANGED closings /\ DOMAIN closing = SummaryFields
    BY <1>0, <1>4 DEF ReadSummary, FormHolds
  <2>2. "step" \in DOMAIN closing /\ DOMAIN more \cap DOMAIN closing = {} /\ "at" \in DOMAIN closing \ {"step"}
    BY <2>1 DEF SummaryFields, PanelFields
  <2> HIDE DEF more
  <2>3. closing'["at"] = closing["at"]
    BY <2>1, <2>2, FilledIn
  <2> QED BY <1>0, <2>1, <2>3 DEF RowsAreClosings
<1>5. CASE InsertClosing
  <2>1. /\ closing.step = "insert" /\ closing'.step = "none" /\ closings' \subseteq closings \cup {NewClosing}
    BY <1>5 DEF InsertClosing, NoClosing
  <2>2. DOMAIN closing = InsertFields /\ PanelForm /\ SummaryForm /\ InsertForm /\ closing.at \in Nat
    BY <1>0, <2>1 DEF FormHolds, RowsAreClosings
  <2>3. InsertFields \ {"step"} = {"day", "at", "counted", "expected", "on", "known", "late", "shown", "sold",
                                   "opened", "asked", "under"}
    BY DEF InsertFields, SummaryFields, PanelFields
  <2>4. NewClosing = [day |-> closing.day, at |-> closing.at, counted |-> closing.counted,
                      expected |-> closing.expected, on |-> closing.on, known |-> closing.known,
                      late |-> closing.late, shown |-> closing.shown, sold |-> closing.sold,
                      opened |-> closing.opened, asked |-> closing.asked, under |-> closing.under]
    BY <2>2, <2>3 DEF NewClosing
  <2>6. opening[closing.day].at \in Nat
    BY <2>2, OpeningsTyped DEF InsertForm, ShopDayInv
  <2>5. NewClosing \in Closing
    BY <2>2, <2>4, <2>6 DEF Closing, PanelForm, SummaryForm, InsertForm
  <2> QED BY <2>1, <2>5 DEF RowsAreClosings
<1>6. CASE UNCHANGED shopDayVars
  BY <1>6 DEF shopDayVars, RowsAreClosings
<1> QED BY <1>1, <1>2, <1>3, <1>4, <1>5, <1>6 DEF ShopDayNext

\* Every row of a closing holds what closeShop writes, whatever opening came between.
THEOREM ShopDayTyped == ShopDaySpec => []ShopDayTypeOK
<1>1. ShopDayInit => RowsAreClosings
  BY DEF ShopDayInit, NoClosing, RowsAreClosings
<1>2. ShopDayInv /\ RowsAreClosings => ShopDayTypeOK
  BY DEF ShopDayInv, Typed, RowsAreClosings, ShopDayTypeOK
<1> QED BY <1>1, <1>2, ShopDayStarts, ShopDayStep, RowsStay, PTL DEF ShopDaySpec

-----------------------------------------------------------------------------
(***************************************************************************)
(* Clients.  Row locks serialize the writers of one profile and the unique *)
(* index those of one active number, so what a request has read is still   *)
(* so when it commits, or another one overlapped it; the invariant follows *)
(* the drafts of the requests that have written and not yet committed.     *)
(***************************************************************************)

IntakeSteps == {"idle", "check", "write", "aim", "supersede", "bind", "commit", "done", "refused", "dropped"}
Afoot       == {"aim", "supersede", "bind", "commit"}
PersonRow(r)    == [name |-> wish[r].name, number |-> wish[r].number]
Edits(r)    == wish[r].kind = "edit"
Newcomers   == DOMAIN profile \cap Intakes

ClientTyped ==
  /\ wish \in Wishes /\ wish \in [Intakes -> Wish] /\ intakePc \in [Intakes -> IntakeSteps]
  /\ readAs \in [Intakes -> Profile] /\ knew \in [Intakes -> SUBSET DOMAIN profile]
  /\ draft \in [Intakes -> Profile \cup {NoDraft}]
  /\ aimed \in [Intakes -> SUBSET Binding] /\ superseded \in [Intakes -> SUBSET Binding]
  /\ bound \subseteq Intakes /\ bindings \subseteq Binding
  /\ profile \in [DOMAIN profile -> Profile] /\ Regulars \subseteq DOMAIN profile /\ DOMAIN profile \subseteq Clients

\* Each request is where its kind leads, and its draft is there from its write to its end.
IntakeCourses ==
  \A r \in Intakes :
    /\ intakePc[r] \in Afoot <=> Drafted(r)
    /\ intakePc[r] = "write" => Edits(r)
    /\ intakePc[r] = "check" => ~Edits(r)
    /\ Drafted(r) /\ ~Edits(r) => draft[r] = PersonRow(r)
    /\ intakePc[r] \in {"aim", "supersede", "bind"} => draft[r].number \in Numbers
    /\ intakePc[r] = "commit" => r \in bound \/ (Edits(r) /\ draft[r].number \in {readAs[r].number, NoNumber})
    /\ r \in bound => intakePc[r] = "commit" /\ draft[r].number \in Numbers
    /\ superseded[r] # {} => intakePc[r] \in {"bind", "commit"}
    /\ superseded[r] \subseteq aimed[r]
    /\ \A x \in aimed[r] : IF Edits(r) THEN x.client = wish[r].client ELSE x.number = wish[r].number
    /\ r \in DOMAIN profile => ~Edits(r) /\ intakePc[r] = "done" /\ profile[r] = PersonRow(r)

\* A profile is written by one edit at a time, and a number bound by one request.
Alone ==
  /\ \A r, u \in Intakes : (Edits(r) /\ Edits(u) /\ Drafted(r) /\ Drafted(u) /\ wish[r].client = wish[u].client) => r = u
  /\ \A r, u \in bound : draft[r].number = draft[u].number => r = u
  /\ \A r \in bound : \A x \in bindings \ superseded[r] : x.number # draft[r].number

\* Whose the active bindings are.
Owned ==
  /\ \A x \in bindings : /\ x.client \in DOMAIN profile
                         /\ x.client \in Intakes => x.by = x.client /\ x.number = wish[x.client].number
  /\ \A x, y \in bindings : x.number = y.number => x = y

\* An edit that gives another number takes away every binding its client has.
OwnAims ==
  \A r \in Intakes : Edits(r) =>
    /\ intakePc[r] = "supersede" => {x \in bindings : x.client = wish[r].client} \subseteq aimed[r]
    /\ intakePc[r] = "bind" \/ r \in bound => {x \in bindings : x.client = wish[r].client} \subseteq superseded[r]

\* Two edits of a client are done that have read the same.
EditsOverlapped(c) == \E r, u \in EditsOf(c) : r # u /\ readAs[r] = readAs[u]

\* Unless two have, an edit that has read what the profile is no more read what a done one has.
SerialReads ==
  \A r \in Intakes : (Edits(r) /\ intakePc[r] \in Afoot \cup {"write"}) =>
    \/ EditsOverlapped(wish[r].client)
    \/ readAs[r] = profile[wish[r].client]
    \/ \E u \in EditsOf(wish[r].client) : readAs[u] = readAs[r]

Untouched == \A c \in Regulars : EditsOf(c) = {} => profile[c] = Directory[c]

\* A number that a newcomer has bound stays a newcomer's, and one's who came no earlier.
NumbersKept ==
  \A c \in Newcomers : \A d \in Intakes : c \notin knew[d] =>
    \E b \in bindings : b.number = profile[c].number /\ b.client \in Intakes \ knew[d]

\* Who was on file when a request looked has another name or another number.
NoTwinKnown ==
  \A d \in Intakes : (~Edits(d) /\ (Drafted(d) \/ d \in DOMAIN profile)) =>
    /\ \A c \in knew[d] \cap Intakes : profile[c] # PersonRow(d)
    /\ \A c \in Regulars : EditsOf(c) = {} => Directory[c] # PersonRow(d)

MeantAnother(d) == \E b \in aimed[d] : b.by \in Intakes \ knew[d]

\* A second profile of a number that the first request did not know needs the binding of another.
SecondSees ==
  /\ \A d \in bound : \A c \in Newcomers :
       (~Edits(d) /\ profile[c].number = wish[d].number /\ c \notin knew[d]) => MeantAnother(d)
  /\ \A c, d \in Newcomers :
       (c # d /\ profile[c].number = profile[d].number /\ c \notin knew[d] /\ d \notin knew[c])
         => MeantAnother(c) \/ MeantAnother(d)

DirectoryInv ==
  /\ ClientTyped /\ IntakeCourses /\ Alone /\ Owned /\ OwnAims /\ SerialReads /\ Untouched
  /\ NumbersKept /\ NoTwinKnown /\ SecondSees /\ BindingIsTheProfiles

LEMMA IntakeMoves ==
  ASSUME ClientTyped, NEW s \in Intakes, NEW step \in IntakeSteps, IntakeGoto(s, step)
  PROVE  /\ intakePc' \in [Intakes -> IntakeSteps]
         /\ intakePc'[s] = step /\ \A r \in Intakes : r # s => intakePc'[r] = intakePc[r]
  BY DEF ClientTyped, IntakeGoto

LEMMA WishTyped ==
  ASSUME ClientTyped, NEW r \in Intakes
  PROVE  /\ wish[r].kind \in {"intake", "another", "edit"} /\ wish[r].client \in Regulars
         /\ wish[r].name \in Names \cup {Unasked} /\ wish[r].number \in Numbers \cup {NoNumber, Unasked}
         /\ ~Edits(r) => wish[r].name \in Names /\ wish[r].number \in Numbers
         /\ wish[r].client \notin Intakes /\ r \notin Regulars
         /\ wish[r].client \in DOMAIN profile
<1>1. wish[r] \in Wish
  BY DEF ClientTyped
<1>2. wish[r].client \in Regulars
  BY <1>1 DEF Wish
<1>3. wish[r].client \notin Intakes /\ r \notin Regulars
  BY <1>2, ClientConstants
<1>4. ~Edits(r) => wish[r].name \in Names /\ wish[r].number \in Numbers
  BY IntakesName DEF ClientTyped, Edits
<1>5. QED
  BY <1>1, <1>2, <1>3, <1>4 DEF Wish, ClientTyped

LEMMA ProfileTyped ==
  ASSUME NEW p \in Profile
  PROVE  /\ p.name \in Names /\ p.number \in Numbers \cup {NoNumber}
         /\ p = [name |-> p.name, number |-> p.number] /\ p # NoDraft
<1>1. p = [name |-> p.name, number |-> p.number] /\ p.name \in Names /\ p.number \in Numbers \cup {NoNumber}
  BY DEF Profile
<1>2. p.name # NoDraft.name
  BY <1>1, ClientConstants DEF NoDraft
<1>3. QED
  BY <1>1, <1>2

LEMMA PersonTyped ==
  ASSUME ClientTyped, NEW r \in Intakes, ~Edits(r)
  PROVE  /\ PersonRow(r) \in Profile /\ PersonRow(r) # NoDraft
         /\ PersonRow(r).name = wish[r].name /\ PersonRow(r).number = wish[r].number
<1>1. PersonRow(r) \in Profile
  BY WishTyped DEF PersonRow, Profile
<1>2. QED
  BY <1>1, ProfileTyped DEF PersonRow

LEMMA IntakesTyped ==
  ASSUME ClientTyped, NEW r \in Intakes
  PROVE  /\ intakePc[r] \in IntakeSteps /\ readAs[r] \in Profile /\ knew[r] \subseteq DOMAIN profile
         /\ draft[r] \in Profile \cup {NoDraft} /\ (Drafted(r) => draft[r] \in Profile)
         /\ aimed[r] \subseteq Binding /\ superseded[r] \subseteq Binding
  BY DEF ClientTyped, Drafted

LEMMA BindingTyped ==
  ASSUME NEW x \in Binding
  PROVE  x.number \in Numbers /\ x.client \in Clients /\ x.by \in Clients
  BY DEF Binding

\* Who has a draft is afoot, and its parts.
LEMMA CourseOf ==
  ASSUME ClientTyped, IntakeCourses, NEW r \in Intakes
  PROVE  /\ intakePc[r] \in Afoot <=> Drafted(r)
         /\ intakePc[r] = "write" => Edits(r)
         /\ intakePc[r] = "check" => ~Edits(r)
         /\ Drafted(r) /\ ~Edits(r) => draft[r] = PersonRow(r)
         /\ intakePc[r] \in {"aim", "supersede", "bind"} => draft[r].number \in Numbers
         /\ intakePc[r] = "commit" => r \in bound \/ (Edits(r) /\ draft[r].number \in {readAs[r].number, NoNumber})
         /\ r \in bound => intakePc[r] = "commit" /\ draft[r].number \in Numbers /\ Drafted(r)
         /\ superseded[r] # {} => intakePc[r] \in {"bind", "commit"}
         /\ superseded[r] \subseteq aimed[r]
         /\ \A x \in aimed[r] : IF Edits(r) THEN x.client = wish[r].client ELSE x.number = wish[r].number
         /\ r \in DOMAIN profile => ~Edits(r) /\ intakePc[r] = "done" /\ profile[r] = PersonRow(r)
  BY DEF IntakeCourses, Afoot

\* The parts of the invariant that any step keeps which commits nothing.
LEMMA QuietIntake ==
  ASSUME DirectoryInv, wish' = wish, profile' = profile, bindings' = bindings,
         \A r \in Intakes : Edits(r) => (intakePc'[r] = "done" <=> intakePc[r] = "done"),
         \A r \in Intakes : intakePc[r] = "done" => readAs'[r] = readAs[r]
  PROVE  /\ \A c : EditsOf(c)' = EditsOf(c)
         /\ \A c : EditsOverlapped(c)' <=> EditsOverlapped(c)
         /\ Untouched' /\ Owned' /\ BindingIsTheProfiles'
         /\ \A r \in Intakes : (Edits(r)' <=> Edits(r)) /\ PersonRow(r)' = PersonRow(r)
         /\ Newcomers' = Newcomers
<1>1. ASSUME NEW c PROVE EditsOf(c)' = EditsOf(c)
  BY DEF EditsOf, Edits
<1>2. ASSUME NEW c PROVE EditsOverlapped(c)' <=> EditsOverlapped(c)
  <2>1. \A r \in EditsOf(c) : readAs'[r] = readAs[r]
    BY DEF EditsOf
  <2>2. QED
    BY <1>1, <2>1 DEF EditsOverlapped
<1>3. Untouched'
  BY <1>1 DEF DirectoryInv, Untouched
<1>4. Owned'
  BY DEF DirectoryInv, Owned
<1>5. BindingIsTheProfiles'
  <2> SUFFICES ASSUME NEW x \in bindings, profile[x.client].number # x.number
               PROVE  \/ profile[x.client].number = NoNumber
                      \/ \E r, u \in EditsOf(x.client)' : r # u /\ readAs'[r] = readAs'[u]
    BY DEF BindingIsTheProfiles
  <2>1. \/ profile[x.client].number = NoNumber
        \/ \E r, u \in EditsOf(x.client) : r # u /\ readAs[r] = readAs[u]
    BY DEF DirectoryInv, BindingIsTheProfiles
  <2>2. QED
    BY <1>1, <1>2, <2>1 DEF EditsOverlapped
<1>6. \A r \in Intakes : (Edits(r)' <=> Edits(r)) /\ PersonRow(r)' = PersonRow(r)
  BY DEF Edits, PersonRow
<1>7. QED
  BY <1>1, <1>2, <1>3, <1>4, <1>5, <1>6 DEF Newcomers

LEMMA QuietSecond ==
  ASSUME ClientTyped, SecondSees, wish' = wish, profile' = profile, bound' \subseteq bound,
         \A d \in Intakes : (d \in bound' \/ d \in DOMAIN profile) => aimed'[d] = aimed[d] /\ knew'[d] = knew[d]
  PROVE  SecondSees'
<1>1. bound \subseteq Intakes /\ Newcomers' = Newcomers /\ Newcomers = DOMAIN profile \cap Intakes
  BY DEF ClientTyped, Newcomers
<1>2. \A d \in Intakes : (d \in bound' \/ d \in DOMAIN profile) => (MeantAnother(d)' <=> MeantAnother(d))
  BY DEF MeantAnother
<1>3. ASSUME NEW d \in bound', NEW c \in Newcomers, ~Edits(d)', profile[c].number = wish[d].number, c \notin knew'[d]
      PROVE  MeantAnother(d)'
  BY <1>1, <1>2, <1>3 DEF SecondSees, Edits
<1>4. ASSUME NEW c \in Newcomers, NEW d \in Newcomers,
             c # d, profile[c].number = profile[d].number, c \notin knew'[d], d \notin knew'[c]
      PROVE  MeantAnother(c)' \/ MeantAnother(d)'
  BY <1>1, <1>2, <1>4 DEF SecondSees
<1>5. QED
  BY <1>1, <1>3, <1>4 DEF SecondSees

LEMMA DirectoryStarts == ClientInit => DirectoryInv
<1> SUFFICES ASSUME ClientInit PROVE DirectoryInv
  OBVIOUS
<1>1. /\ wish \in Wishes /\ profile = Directory /\ bound = {}
      /\ intakePc = [r \in Intakes |-> IF wish[r].kind = "another" THEN "check" ELSE "idle"]
      /\ readAs = [r \in Intakes |-> profile[wish[r].client]] /\ knew = [r \in Intakes |-> {}]
      /\ draft = [r \in Intakes |-> NoDraft]
      /\ aimed = [r \in Intakes |-> {}] /\ superseded = [r \in Intakes |-> {}]
      /\ bindings \in SUBSET {[number |-> profile[c].number, client |-> c, by |-> c] : c \in Reachable}
      /\ \A x, y \in bindings : x.number = y.number => x = y
  BY DEF ClientInit
<1>2. /\ DOMAIN profile = Regulars /\ profile \in [Regulars -> Profile] /\ wish \in [Intakes -> Wish]
      /\ Regulars \cap Intakes = {}
  BY <1>1, ClientConstants
<1>3. \A x \in bindings : x.client \in Regulars /\ x.number = profile[x.client].number /\ x.by = x.client
  BY <1>1 DEF Reachable
<1>4. bindings \subseteq Binding
  <2> SUFFICES ASSUME NEW x \in bindings PROVE x \in Binding
    OBVIOUS
  <2>1. PICK c \in Reachable : x = [number |-> profile[c].number, client |-> c, by |-> c]
    BY <1>1
  <2>2. c \in Regulars /\ profile[c].number \in Numbers
    BY <1>1 DEF Reachable
  <2>3. QED
    BY <2>1, <2>2 DEF Binding, Clients
<1>5. ClientTyped
  <2>1. readAs \in [Intakes -> Profile]
    <3>1. \A r \in Intakes : wish[r].client \in Regulars
      BY <1>2 DEF Wish
    <3>2. QED
      BY <1>1, <1>2, <3>1
  <2>2. intakePc \in [Intakes -> IntakeSteps]
    BY <1>1 DEF IntakeSteps
  <2>3. QED
    BY <1>1, <1>2, <1>4, <2>1, <2>2 DEF ClientTyped, Clients
<1>6. \A r \in Intakes : ~Drafted(r) /\ intakePc[r] \notin Afoot /\ intakePc[r] # "done" /\ r \notin DOMAIN profile
  BY <1>1, <1>2 DEF Drafted, Afoot
<1>7. \A c : EditsOf(c) = {}
  BY <1>6 DEF EditsOf
<1>8. IntakeCourses
  <2>1. \A r \in Intakes : /\ intakePc[r] = "check" => ~Edits(r)
                           /\ intakePc[r] \in {"idle", "check"}
    BY <1>1 DEF Edits
  <2>2. QED
    BY <1>1, <1>6, <2>1 DEF IntakeCourses
<1>9. Alone /\ Owned
  BY <1>1, <1>2, <1>3, <1>6 DEF Alone, Owned
<1>10. OwnAims /\ SerialReads /\ Untouched
  <2>1. \A r \in Intakes : intakePc[r] \notin Afoot \cup {"write", "supersede", "bind"}
    BY <1>1 DEF Afoot
  <2>2. QED
    BY <1>1, <1>7, <2>1 DEF OwnAims, SerialReads, Untouched
<1>11. NumbersKept /\ NoTwinKnown /\ SecondSees
  BY <1>1, <1>2, <1>6 DEF NumbersKept, NoTwinKnown, SecondSees, Newcomers
<1>12. BindingIsTheProfiles
  BY <1>3 DEF BindingIsTheProfiles
<1>13. QED
  BY <1>5, <1>8, <1>9, <1>10, <1>11, <1>12 DEF DirectoryInv

\* The first lookup of an intake.
LEMMA LookUpKeeps ==
  ASSUME DirectoryInv, NEW s \in Intakes, LookUp(s)
  PROVE  DirectoryInv'
<1>0. /\ ClientTyped /\ IntakeCourses /\ Alone /\ OwnAims /\ SerialReads /\ NumbersKept /\ NoTwinKnown /\ SecondSees
  BY DEF DirectoryInv
<1> DEFINE step == IF Holders(wish[s].number) # {} THEN "done" ELSE "check"
<1>1. /\ intakePc[s] = "idle" /\ ~Edits(s) /\ IntakeGoto(s, step) /\ step \in {"done", "check"}
      /\ wish' = wish /\ readAs' = readAs /\ knew' = knew /\ draft' = draft /\ aimed' = aimed
      /\ superseded' = superseded /\ bound' = bound /\ profile' = profile /\ bindings' = bindings
  BY DEF LookUp, Edits
<1> HIDE DEF step
<1>2. /\ intakePc' \in [Intakes -> IntakeSteps]
      /\ intakePc'[s] = step /\ \A r \in Intakes : r # s => intakePc'[r] = intakePc[r]
  <2>1. step \in IntakeSteps
    BY <1>1 DEF IntakeSteps
  <2>2. QED
    BY <1>0, <1>1, <2>1, IntakeMoves
<1>3. /\ \A c : EditsOf(c)' = EditsOf(c)
      /\ \A c : EditsOverlapped(c)' <=> EditsOverlapped(c)
      /\ Untouched' /\ Owned' /\ BindingIsTheProfiles'
      /\ \A r \in Intakes : (Edits(r)' <=> Edits(r)) /\ PersonRow(r)' = PersonRow(r)
      /\ Newcomers' = Newcomers
  BY <1>1, <1>2, QuietIntake
<1>4. ClientTyped'
  BY <1>0, <1>1, <1>2 DEF ClientTyped
<1>5. \A r \in Intakes : Drafted(r)' <=> Drafted(r)
  BY <1>1 DEF Drafted
<1>6. IntakeCourses'
  <2>1. ~Drafted(s) /\ s \notin bound /\ superseded[s] = {} /\ s \notin DOMAIN profile
    BY <1>0, <1>1, CourseOf DEF Afoot
  <2>2. \A x \in aimed[s] : x.number = wish[s].number
    BY <1>0, <1>1, CourseOf
  <2>3. intakePc'[s] \notin Afoot \cup {"write"}
    BY <1>1, <1>2 DEF Afoot
  <2>4. superseded[s] \subseteq aimed[s]
    BY <2>1
  <2>5. QED
    BY <1>0, <1>1, <1>2, <1>3, <1>5, <2>1, <2>2, <2>3, <2>4 DEF IntakeCourses, Afoot
<1>7. Alone' /\ OwnAims'
  BY <1>0, <1>1, <1>2, <1>3, <1>5 DEF Alone, OwnAims
<1>8. SerialReads'
  BY <1>0, <1>1, <1>2, <1>3 DEF SerialReads
<1>9. NumbersKept' /\ NoTwinKnown'
  BY <1>0, <1>1, <1>3, <1>5 DEF NumbersKept, NoTwinKnown
<1>10. SecondSees'
  BY <1>0, <1>1, QuietSecond
<1>11. QED
  BY <1>3, <1>4, <1>6, <1>7, <1>8, <1>9, <1>10 DEF DirectoryInv

\* An edit reads the profile it is about to write over.
LEMMA ReadProfileKeeps ==
  ASSUME DirectoryInv, NEW s \in Intakes, ReadProfile(s)
  PROVE  DirectoryInv'
<1>0. /\ ClientTyped /\ IntakeCourses /\ Alone /\ OwnAims /\ SerialReads /\ NumbersKept /\ NoTwinKnown /\ SecondSees
  BY DEF DirectoryInv
<1>1. /\ intakePc[s] = "idle" /\ Edits(s) /\ IntakeGoto(s, "write")
      /\ readAs' = [readAs EXCEPT ![s] = profile[wish[s].client]]
      /\ wish' = wish /\ knew' = knew /\ draft' = draft /\ aimed' = aimed
      /\ superseded' = superseded /\ bound' = bound /\ profile' = profile /\ bindings' = bindings
  BY DEF ReadProfile, Edits
<1>2. /\ intakePc' \in [Intakes -> IntakeSteps]
      /\ intakePc'[s] = "write" /\ \A r \in Intakes : r # s => intakePc'[r] = intakePc[r]
  <2>1. "write" \in IntakeSteps
    BY DEF IntakeSteps
  <2>2. QED
    BY <1>0, <1>1, <2>1, IntakeMoves
<1>3. /\ readAs' \in [Intakes -> Profile] /\ readAs'[s] = profile[wish[s].client]
      /\ \A r \in Intakes : r # s => readAs'[r] = readAs[r]
  <2>1. profile[wish[s].client] \in Profile
    BY <1>0, WishTyped DEF ClientTyped
  <2>2. QED
    BY <1>0, <1>1, <2>1 DEF ClientTyped
<1>4. /\ \A c : EditsOf(c)' = EditsOf(c)
      /\ \A c : EditsOverlapped(c)' <=> EditsOverlapped(c)
      /\ Untouched' /\ Owned' /\ BindingIsTheProfiles'
      /\ \A r \in Intakes : (Edits(r)' <=> Edits(r)) /\ PersonRow(r)' = PersonRow(r)
      /\ Newcomers' = Newcomers
  BY <1>1, <1>2, <1>3, QuietIntake
<1>5. ClientTyped'
  BY <1>0, <1>1, <1>2, <1>3 DEF ClientTyped
<1>6. \A r \in Intakes : Drafted(r)' <=> Drafted(r)
  BY <1>1 DEF Drafted
<1>7. IntakeCourses'
  <2>1. ~Drafted(s) /\ s \notin bound /\ superseded[s] = {} /\ s \notin DOMAIN profile
    BY <1>0, <1>1, CourseOf DEF Afoot
  <2>2. \A x \in aimed[s] : x.client = wish[s].client
    BY <1>0, <1>1, CourseOf
  <2>3. intakePc'[s] \notin Afoot
    BY <1>1, <1>2 DEF Afoot
  <2>4. superseded[s] \subseteq aimed[s]
    BY <2>1
  <2>5. QED
    BY <1>0, <1>1, <1>2, <1>3, <1>4, <1>6, <2>1, <2>2, <2>3, <2>4 DEF IntakeCourses, Afoot
<1>8. Alone' /\ OwnAims'
  <2>1. s \notin bound
    BY <1>0, <1>1, CourseOf
  <2>2. QED
    BY <1>0, <1>1, <1>2, <1>4, <1>6, <2>1 DEF Alone, OwnAims
<1>9. SerialReads'
  <2> SUFFICES ASSUME NEW r \in Intakes, Edits(r), intakePc'[r] \in Afoot \cup {"write"}
               PROVE  \/ EditsOverlapped(wish[r].client)
                      \/ readAs'[r] = profile[wish[r].client]
                      \/ \E u \in EditsOf(wish[r].client) : readAs'[u] = readAs'[r]
    BY <1>1, <1>4 DEF SerialReads
  <2>1. CASE r = s
    BY <1>3, <2>1
  <2>2. CASE r # s
    <3>1. s \notin EditsOf(wish[r].client)
      BY <1>1 DEF EditsOf
    <3>2. \A u \in EditsOf(wish[r].client) : readAs'[u] = readAs[u]
      BY <1>3, <3>1 DEF EditsOf
    <3>3. QED
      BY <1>0, <1>2, <1>3, <2>2, <3>2 DEF SerialReads
  <2>3. QED
    BY <2>1, <2>2
<1>10. NumbersKept' /\ NoTwinKnown'
  BY <1>0, <1>1, <1>4, <1>6 DEF NumbersKept, NoTwinKnown
<1>11. SecondSees'
  BY <1>0, <1>1, QuietSecond
<1>12. QED
  BY <1>4, <1>5, <1>7, <1>8, <1>9, <1>10, <1>11 DEF DirectoryInv

\* A rolled back request leaves its draft, its locks and its binding.
LEMMA RollBackKeeps ==
  ASSUME DirectoryInv, NEW s \in Intakes, NEW step \in {"refused", "dropped"},
         intakePc[s] \in {"check", "write", "aim", "supersede", "bind", "commit"}, RollBackIntake(s, step),
         UNCHANGED <<wish, readAs, knew, aimed, profile, bindings>>
  PROVE  DirectoryInv'
<1>0. /\ ClientTyped /\ IntakeCourses /\ Alone /\ OwnAims /\ SerialReads /\ NumbersKept /\ NoTwinKnown /\ SecondSees
  BY DEF DirectoryInv
<1>1. /\ IntakeGoto(s, step) /\ draft' = [draft EXCEPT ![s] = NoDraft]
      /\ superseded' = [superseded EXCEPT ![s] = {}] /\ bound' = bound \ {s}
      /\ wish' = wish /\ readAs' = readAs /\ knew' = knew /\ aimed' = aimed
      /\ profile' = profile /\ bindings' = bindings
  BY DEF RollBackIntake
<1>2. /\ intakePc' \in [Intakes -> IntakeSteps]
      /\ intakePc'[s] = step /\ \A r \in Intakes : r # s => intakePc'[r] = intakePc[r]
  <2>1. step \in IntakeSteps
    BY DEF IntakeSteps
  <2>2. QED
    BY <1>0, <1>1, <2>1, IntakeMoves
<1>3. /\ draft' \in [Intakes -> Profile \cup {NoDraft}] /\ superseded' \in [Intakes -> SUBSET Binding]
      /\ draft'[s] = NoDraft /\ superseded'[s] = {}
      /\ \A r \in Intakes : r # s => draft'[r] = draft[r] /\ superseded'[r] = superseded[r]
  BY <1>0, <1>1 DEF ClientTyped
<1>4. /\ \A c : EditsOf(c)' = EditsOf(c)
      /\ \A c : EditsOverlapped(c)' <=> EditsOverlapped(c)
      /\ Untouched' /\ Owned' /\ BindingIsTheProfiles'
      /\ \A r \in Intakes : (Edits(r)' <=> Edits(r)) /\ PersonRow(r)' = PersonRow(r)
      /\ Newcomers' = Newcomers
  BY <1>1, <1>2, QuietIntake
<1>5. ClientTyped'
  BY <1>0, <1>1, <1>2, <1>3 DEF ClientTyped
<1>6. ~Drafted(s)' /\ \A r \in Intakes : r # s => (Drafted(r)' <=> Drafted(r))
  BY <1>3 DEF Drafted
<1>7. intakePc'[s] \notin Afoot \cup {"write", "check", "done"}
  BY <1>2 DEF Afoot
<1>8. IntakeCourses'
  <2>1. s \notin DOMAIN profile
    BY <1>0, CourseOf
  <2>2. \A x \in aimed[s] : IF Edits(s) THEN x.client = wish[s].client ELSE x.number = wish[s].number
    BY <1>0, CourseOf
  <2>3. QED
    BY <1>0, <1>1, <1>2, <1>3, <1>4, <1>6, <1>7, <2>1, <2>2 DEF IntakeCourses, Afoot
<1>9. Alone'
  <2>1. \A r, u \in Intakes : (Edits(r)' /\ Edits(u)' /\ Drafted(r)' /\ Drafted(u)' /\ wish'[r].client = wish'[u].client) => r = u
    BY <1>0, <1>1, <1>4, <1>6 DEF Alone
  <2>2. bound' \subseteq Intakes /\ bound' \subseteq bound /\ s \notin bound'
    BY <1>0, <1>1 DEF ClientTyped
  <2>3. \A r \in bound' : draft'[r] = draft[r] /\ superseded'[r] = superseded[r]
    BY <1>3, <2>2
  <2>4. QED
    BY <1>0, <1>1, <2>1, <2>2, <2>3 DEF Alone
<1>10. OwnAims'
  BY <1>0, <1>1, <1>2, <1>3, <1>4, <1>7 DEF OwnAims, Afoot
<1>11. SerialReads'
  BY <1>0, <1>1, <1>2, <1>4, <1>7 DEF SerialReads
<1>12. NumbersKept' /\ NoTwinKnown'
  BY <1>0, <1>1, <1>4, <1>6 DEF NumbersKept, NoTwinKnown
<1>13. SecondSees'
  BY <1>0, <1>1, QuietSecond
<1>14. QED
  BY <1>4, <1>5, <1>8, <1>9, <1>10, <1>11, <1>12, <1>13 DEF DirectoryInv

LEMMA DropIntakeKeeps ==
  ASSUME DirectoryInv, NEW s \in Intakes, DropIntake(s)
  PROVE  DirectoryInv'
  BY RollBackKeeps DEF DropIntake

\* A request that makes a profile has found no duplicate.
LEMMA CreateKeeps ==
  ASSUME DirectoryInv, NEW s \in Intakes, Create(s)
  PROVE  DirectoryInv'
<1>0. /\ ClientTyped /\ IntakeCourses /\ Alone /\ OwnAims /\ SerialReads /\ NumbersKept /\ NoTwinKnown /\ SecondSees
      /\ Untouched
  BY DEF DirectoryInv
<1>1. /\ intakePc[s] = "check" /\ knew' = [knew EXCEPT ![s] = DOMAIN profile]
      /\ wish' = wish /\ readAs' = readAs /\ aimed' = aimed
      /\ superseded' = superseded /\ bound' = bound /\ profile' = profile /\ bindings' = bindings
      /\ \/ Duplicates(s) # {} /\ IntakeGoto(s, "refused") /\ draft' = draft
         \/ Duplicates(s) = {} /\ IntakeGoto(s, "aim") /\ draft' = [draft EXCEPT ![s] = PersonRow(s)]
  BY DEF Create, PersonRow
<1>2. ~Edits(s) /\ ~Drafted(s) /\ s \notin bound /\ superseded[s] = {} /\ s \notin DOMAIN profile
  BY <1>0, <1>1, CourseOf DEF Afoot
<1>3. PersonRow(s) \in Profile /\ PersonRow(s) # NoDraft /\ PersonRow(s).number \in Numbers
      /\ PersonRow(s).number = wish[s].number /\ PersonRow(s).name = wish[s].name
  BY <1>0, <1>2, PersonTyped, WishTyped
<1>4. \/ /\ Duplicates(s) # {} /\ intakePc'[s] = "refused" /\ draft'[s] = NoDraft
      \/ /\ Duplicates(s) = {} /\ intakePc'[s] = "aim" /\ draft'[s] = PersonRow(s)
  BY <1>0, <1>1, <1>2, IntakeMoves DEF IntakeSteps, Drafted, ClientTyped
<1>5. /\ intakePc' \in [Intakes -> IntakeSteps] /\ \A r \in Intakes : r # s => intakePc'[r] = intakePc[r]
  BY <1>0, <1>1, IntakeMoves DEF IntakeSteps
<1>6. /\ draft' \in [Intakes -> Profile \cup {NoDraft}] /\ knew' \in [Intakes -> SUBSET DOMAIN profile]
      /\ knew'[s] = DOMAIN profile
      /\ \A r \in Intakes : r # s => draft'[r] = draft[r] /\ knew'[r] = knew[r]
  BY <1>0, <1>1, <1>3 DEF ClientTyped
<1>7. /\ \A c : EditsOf(c)' = EditsOf(c)
      /\ \A c : EditsOverlapped(c)' <=> EditsOverlapped(c)
      /\ Untouched' /\ Owned' /\ BindingIsTheProfiles'
      /\ \A r \in Intakes : (Edits(r)' <=> Edits(r)) /\ PersonRow(r)' = PersonRow(r)
      /\ Newcomers' = Newcomers
  BY <1>1, <1>2, <1>5, QuietIntake
<1>8. ClientTyped'
  BY <1>0, <1>1, <1>5, <1>6 DEF ClientTyped
<1>9. /\ Drafted(s)' <=> intakePc'[s] = "aim"
      /\ \A r \in Intakes : r # s => (Drafted(r)' <=> Drafted(r))
  BY <1>3, <1>4, <1>6 DEF Drafted
<1>10. IntakeCourses'
  <2>1. intakePc'[s] \in Afoot <=> intakePc'[s] = "aim"
    BY <1>4 DEF Afoot
  <2>2. \A x \in aimed[s] : x.number = wish[s].number
    BY <1>0, <1>2, CourseOf
  <2>3. superseded[s] \subseteq aimed[s]
    BY <1>2
  <2>4. QED
    BY <1>0, <1>1, <1>2, <1>3, <1>4, <1>5, <1>6, <1>7, <1>9, <2>1, <2>2, <2>3 DEF IntakeCourses, Afoot
<1>11. Alone'
  <2>1. \A r, u \in Intakes : (Edits(r)' /\ Edits(u)' /\ Drafted(r)' /\ Drafted(u)' /\ wish'[r].client = wish'[u].client) => r = u
    BY <1>0, <1>1, <1>2, <1>7, <1>9 DEF Alone
  <2>2. \A r \in bound : draft'[r] = draft[r]
    BY <1>0, <1>2, <1>6 DEF ClientTyped
  <2>3. QED
    BY <1>0, <1>1, <2>1, <2>2 DEF Alone
<1>12. OwnAims' /\ SerialReads'
  <2>1. OwnAims'
    BY <1>0, <1>1, <1>2, <1>5, <1>7 DEF OwnAims
  <2>2. SerialReads'
    BY <1>0, <1>1, <1>2, <1>5, <1>7 DEF SerialReads
  <2>3. QED
    BY <2>1, <2>2
<1>13. NumbersKept'
  <2> SUFFICES ASSUME NEW c \in Newcomers, NEW d \in Intakes, c \notin knew'[d]
               PROVE  \E b \in bindings : b.number = profile[c].number /\ b.client \in Intakes \ knew'[d]
    BY <1>1, <1>7 DEF NumbersKept
  <2>1. d # s
    BY <1>6 DEF Newcomers
  <2>2. QED
    BY <1>0, <1>6, <2>1 DEF NumbersKept
<1>14. NoTwinKnown'
  <2> SUFFICES ASSUME NEW d \in Intakes, ~Edits(d), Drafted(d)' \/ d \in DOMAIN profile
               PROVE  /\ \A c \in knew'[d] \cap Intakes : profile[c] # PersonRow(d)
                      /\ \A c \in Regulars : EditsOf(c) = {} => Directory[c] # PersonRow(d)
    BY <1>1, <1>7 DEF NoTwinKnown
  <2>1. CASE d # s
    BY <1>0, <1>6, <1>9, <2>1 DEF NoTwinKnown
  <2>2. CASE d = s
    <3>1. Duplicates(s) = {}
      BY <1>2, <1>4, <1>9, <2>2
    <3>2. \A c \in DOMAIN profile : profile[c] # PersonRow(s)
      BY <1>3, <3>1 DEF Duplicates, Holders
    <3>3. Regulars \subseteq DOMAIN profile
      BY <1>0 DEF ClientTyped
    <3>4. QED
      BY <1>0, <1>6, <2>2, <3>2, <3>3 DEF Untouched
  <2>3. QED
    BY <2>1, <2>2
<1>15. SecondSees'
  BY <1>0, <1>1, <1>2, <1>6, QuietSecond
<1>16. QED
  BY <1>7, <1>8, <1>10, <1>11, <1>12, <1>13, <1>14, <1>15 DEF DirectoryInv

\* An edit writes over the profile once nobody else has it locked.
LEMMA EditKeeps ==
  ASSUME DirectoryInv, NEW s \in Intakes, Edit(s)
  PROVE  DirectoryInv'
<1>0. /\ ClientTyped /\ IntakeCourses /\ Alone /\ OwnAims /\ SerialReads /\ NumbersKept /\ NoTwinKnown /\ SecondSees
  BY DEF DirectoryInv
<1> DEFINE name   == IF wish[s].name = Unasked THEN readAs[s].name ELSE wish[s].name
           dialled == IF wish[s].number = Unasked THEN readAs[s].number ELSE wish[s].number
           step   == IF dialled \in Numbers /\ dialled # readAs[s].number THEN "aim" ELSE "commit"
<1>1. /\ intakePc[s] = "write" /\ IntakeGoto(s, step)
      /\ \A u \in Intakes \ {s} : Drafted(u) => Subject(u) # wish[s].client
      /\ draft' = [draft EXCEPT ![s] = [name |-> name, number |-> dialled]]
      /\ wish' = wish /\ readAs' = readAs /\ knew' = knew /\ aimed' = aimed
      /\ superseded' = superseded /\ bound' = bound /\ profile' = profile /\ bindings' = bindings
  BY DEF Edit
<1>2. Edits(s) /\ ~Drafted(s) /\ s \notin bound /\ superseded[s] = {} /\ s \notin DOMAIN profile
  BY <1>0, <1>1, CourseOf DEF Afoot
<1>3. name \in Names /\ dialled \in Numbers \cup {NoNumber}
  BY <1>0, WishTyped, IntakesTyped, ProfileTyped
<1>4. /\ step \in {"aim", "commit"}
      /\ step = "aim" => dialled \in Numbers
      /\ step = "commit" => dialled \in {readAs[s].number, NoNumber}
  BY <1>3
<1> HIDE DEF name, dialled, step
<1> DEFINE new == [name |-> name, number |-> dialled]
<1>5. new \in Profile /\ new # NoDraft /\ new.number = dialled
  <2>1. new \in Profile
    BY <1>3 DEF Profile
  <2>2. QED
    BY <2>1, ProfileTyped
<1> HIDE DEF new
<1>6. /\ intakePc' \in [Intakes -> IntakeSteps]
      /\ intakePc'[s] = step /\ \A r \in Intakes : r # s => intakePc'[r] = intakePc[r]
  <2>1. step \in IntakeSteps
    BY <1>4 DEF IntakeSteps
  <2>2. QED
    BY <1>0, <1>1, <2>1, IntakeMoves
<1>7. /\ draft' \in [Intakes -> Profile \cup {NoDraft}] /\ draft'[s] = new
      /\ \A r \in Intakes : r # s => draft'[r] = draft[r]
  <2>1. draft' = [draft EXCEPT ![s] = new]
    BY <1>1 DEF new
  <2>2. QED
    BY <1>0, <1>5, <2>1 DEF ClientTyped
<1>8. /\ \A c : EditsOf(c)' = EditsOf(c)
      /\ \A c : EditsOverlapped(c)' <=> EditsOverlapped(c)
      /\ Untouched' /\ Owned' /\ BindingIsTheProfiles'
      /\ \A r \in Intakes : (Edits(r)' <=> Edits(r)) /\ PersonRow(r)' = PersonRow(r)
      /\ Newcomers' = Newcomers
  BY <1>1, <1>4, <1>6, QuietIntake
<1>9. ClientTyped'
  BY <1>0, <1>1, <1>6, <1>7 DEF ClientTyped
<1>10. Drafted(s)' /\ \A r \in Intakes : r # s => (Drafted(r)' <=> Drafted(r))
  BY <1>5, <1>7 DEF Drafted
<1>11. IntakeCourses'
  <2>1. intakePc'[s] \in Afoot /\ intakePc'[s] \in {"aim", "commit"}
    BY <1>4, <1>6 DEF Afoot
  <2>2. \A x \in aimed[s] : x.client = wish[s].client
    BY <1>0, <1>2, CourseOf
  <2>3. superseded[s] \subseteq aimed[s]
    BY <1>2
  <2>4. intakePc'[s] = "aim" => draft'[s].number \in Numbers
    BY <1>4, <1>5, <1>6, <1>7
  <2>5. intakePc'[s] = "commit" => draft'[s].number \in {readAs[s].number, NoNumber}
    BY <1>4, <1>5, <1>6, <1>7
  <2>6. QED
    BY <1>0, <1>1, <1>2, <1>6, <1>7, <1>8, <1>10, <2>1, <2>2, <2>3, <2>4, <2>5 DEF IntakeCourses, Afoot
<1>12. Alone'
  <2>1. \A r, u \in Intakes : (Edits(r)' /\ Edits(u)' /\ Drafted(r)' /\ Drafted(u)' /\ wish'[r].client = wish'[u].client) => r = u
    <3>1. \A u \in Intakes : (u # s /\ Edits(u) /\ Drafted(u)) => wish[u].client # wish[s].client
      BY <1>1 DEF Subject, Edits
    <3>2. QED
      BY <1>0, <1>1, <1>8, <1>10, <3>1 DEF Alone
  <2>2. \A r \in bound : draft'[r] = draft[r]
    BY <1>0, <1>2, <1>7 DEF ClientTyped
  <2>3. QED
    BY <1>0, <1>1, <2>1, <2>2 DEF Alone
<1>13. OwnAims'
  BY <1>0, <1>1, <1>2, <1>4, <1>6, <1>8 DEF OwnAims
<1>14. SerialReads'
  BY <1>0, <1>1, <1>6, <1>8 DEF SerialReads
<1>15. NumbersKept'
  BY <1>0, <1>1, <1>8 DEF NumbersKept
<1>16. NoTwinKnown'
  BY <1>0, <1>1, <1>2, <1>8, <1>10 DEF NoTwinKnown
<1>17. SecondSees'
  BY <1>0, <1>1, QuietSecond
<1>18. QED
  BY <1>8, <1>9, <1>11, <1>12, <1>13, <1>14, <1>15, <1>16, <1>17 DEF DirectoryInv

\* The snapshot of the update that supersedes bindings.
LEMMA AimKeeps ==
  ASSUME DirectoryInv, NEW s \in Intakes, Aim(s)
  PROVE  DirectoryInv'
<1>0. /\ ClientTyped /\ IntakeCourses /\ Alone /\ OwnAims /\ SerialReads /\ NumbersKept /\ NoTwinKnown /\ SecondSees
  BY DEF DirectoryInv
<1>1. /\ intakePc[s] = "aim" /\ IntakeGoto(s, "supersede") /\ aimed' = [aimed EXCEPT ![s] = Aims(s)]
      /\ wish' = wish /\ readAs' = readAs /\ knew' = knew /\ draft' = draft
      /\ superseded' = superseded /\ bound' = bound /\ profile' = profile /\ bindings' = bindings
  BY DEF Aim
<1>2. /\ Drafted(s) /\ s \notin bound /\ superseded[s] = {} /\ s \notin DOMAIN profile /\ draft[s].number \in Numbers
      /\ ~Edits(s) => draft[s] = PersonRow(s)
  BY <1>0, <1>1, CourseOf DEF Afoot
<1>3. /\ intakePc' \in [Intakes -> IntakeSteps]
      /\ intakePc'[s] = "supersede" /\ \A r \in Intakes : r # s => intakePc'[r] = intakePc[r]
  <2>1. "supersede" \in IntakeSteps
    BY DEF IntakeSteps
  <2>2. QED
    BY <1>0, <1>1, <2>1, IntakeMoves
<1>4. /\ aimed' \in [Intakes -> SUBSET Binding] /\ aimed'[s] = Aims(s)
      /\ \A r \in Intakes : r # s => aimed'[r] = aimed[r]
  <2>1. Aims(s) \subseteq Binding
    BY <1>0 DEF Aims, ClientTyped
  <2>2. QED
    BY <1>0, <1>1, <2>1 DEF ClientTyped
<1>5. /\ \A c : EditsOf(c)' = EditsOf(c)
      /\ \A c : EditsOverlapped(c)' <=> EditsOverlapped(c)
      /\ Untouched' /\ Owned' /\ BindingIsTheProfiles'
      /\ \A r \in Intakes : (Edits(r)' <=> Edits(r)) /\ PersonRow(r)' = PersonRow(r)
      /\ Newcomers' = Newcomers
  BY <1>1, <1>3, QuietIntake
<1>6. ClientTyped'
  BY <1>0, <1>1, <1>3, <1>4 DEF ClientTyped
<1>7. \A r \in Intakes : Drafted(r)' <=> Drafted(r)
  BY <1>1 DEF Drafted
<1>8. \A x \in Aims(s) : IF Edits(s) THEN x.client = wish[s].client ELSE x.number = wish[s].number
  BY <1>2 DEF Aims, Edits, PersonRow
<1>9. IntakeCourses'
  <2>1. intakePc'[s] \in Afoot
    BY <1>3 DEF Afoot
  <2>2. superseded[s] \subseteq aimed'[s]
    BY <1>2
  <2>3. QED
    BY <1>0, <1>1, <1>2, <1>3, <1>4, <1>5, <1>7, <1>8, <2>1, <2>2 DEF IntakeCourses, Afoot
<1>10. Alone'
  BY <1>0, <1>1, <1>5, <1>7 DEF Alone
<1>11. OwnAims'
  <2>1. Edits(s) => {x \in bindings : x.client = wish[s].client} \subseteq Aims(s)
    BY DEF Aims, Edits
  <2>2. QED
    BY <1>0, <1>1, <1>2, <1>3, <1>4, <1>5, <2>1 DEF OwnAims
<1>12. SerialReads'
  BY <1>0, <1>1, <1>3, <1>5 DEF SerialReads, Afoot
<1>13. NumbersKept' /\ NoTwinKnown'
  BY <1>0, <1>1, <1>5, <1>7 DEF NumbersKept, NoTwinKnown
<1>14. SecondSees'
  BY <1>0, <1>1, <1>2, <1>4, QuietSecond
<1>15. QED
  BY <1>5, <1>6, <1>9, <1>10, <1>11, <1>12, <1>13, <1>14 DEF DirectoryInv

\* The update takes what is still active.
LEMMA SupersedeKeeps ==
  ASSUME DirectoryInv, NEW s \in Intakes, Supersede(s)
  PROVE  DirectoryInv'
<1>0. /\ ClientTyped /\ IntakeCourses /\ Alone /\ OwnAims /\ SerialReads /\ NumbersKept /\ NoTwinKnown /\ SecondSees
  BY DEF DirectoryInv
<1>1. /\ intakePc[s] = "supersede" /\ IntakeGoto(s, "bind")
      /\ superseded' = [superseded EXCEPT ![s] = aimed[s] \cap bindings]
      /\ wish' = wish /\ readAs' = readAs /\ knew' = knew /\ draft' = draft
      /\ aimed' = aimed /\ bound' = bound /\ profile' = profile /\ bindings' = bindings
  BY DEF Supersede
<1>2. Drafted(s) /\ s \notin bound /\ s \notin DOMAIN profile /\ draft[s].number \in Numbers
  BY <1>0, <1>1, CourseOf DEF Afoot
<1>3. /\ intakePc' \in [Intakes -> IntakeSteps]
      /\ intakePc'[s] = "bind" /\ \A r \in Intakes : r # s => intakePc'[r] = intakePc[r]
  <2>1. "bind" \in IntakeSteps
    BY DEF IntakeSteps
  <2>2. QED
    BY <1>0, <1>1, <2>1, IntakeMoves
<1>4. /\ superseded' \in [Intakes -> SUBSET Binding] /\ superseded'[s] = aimed[s] \cap bindings
      /\ \A r \in Intakes : r # s => superseded'[r] = superseded[r]
  BY <1>0, <1>1 DEF ClientTyped
<1>5. /\ \A c : EditsOf(c)' = EditsOf(c)
      /\ \A c : EditsOverlapped(c)' <=> EditsOverlapped(c)
      /\ Untouched' /\ Owned' /\ BindingIsTheProfiles'
      /\ \A r \in Intakes : (Edits(r)' <=> Edits(r)) /\ PersonRow(r)' = PersonRow(r)
      /\ Newcomers' = Newcomers
  BY <1>1, <1>3, QuietIntake
<1>6. ClientTyped'
  BY <1>0, <1>1, <1>3, <1>4 DEF ClientTyped
<1>7. \A r \in Intakes : Drafted(r)' <=> Drafted(r)
  BY <1>1 DEF Drafted
<1>8. IntakeCourses'
  <2>1. intakePc'[s] \in Afoot
    BY <1>3 DEF Afoot
  <2>2. \A x \in aimed[s] : IF Edits(s) THEN x.client = wish[s].client ELSE x.number = wish[s].number
    BY <1>0, CourseOf
  <2>3. ~Edits(s) => draft[s] = PersonRow(s)
    BY <1>0, <1>2, CourseOf
  <2>4. QED
    BY <1>0, <1>1, <1>2, <1>3, <1>4, <1>5, <1>7, <2>1, <2>2, <2>3 DEF IntakeCourses, Afoot
<1>9. Alone'
  <2>1. \A r \in bound : superseded'[r] = superseded[r]
    BY <1>0, <1>2, <1>4 DEF ClientTyped
  <2>2. QED
    BY <1>0, <1>1, <1>5, <1>7, <2>1 DEF Alone
<1>10. OwnAims'
  BY <1>0, <1>1, <1>2, <1>3, <1>4, <1>5 DEF OwnAims
<1>11. SerialReads'
  BY <1>0, <1>1, <1>3, <1>5 DEF SerialReads, Afoot
<1>12. NumbersKept' /\ NoTwinKnown'
  BY <1>0, <1>1, <1>5, <1>7 DEF NumbersKept, NoTwinKnown
<1>13. SecondSees'
  BY <1>0, <1>1, QuietSecond
<1>14. QED
  BY <1>5, <1>6, <1>8, <1>9, <1>10, <1>11, <1>12, <1>13 DEF DirectoryInv

\* The binding is inserted where the request has superseded every other of the number.
LEMMA BindKeeps ==
  ASSUME DirectoryInv, NEW s \in Intakes, Bind(s)
  PROVE  DirectoryInv'
<1>0. /\ ClientTyped /\ IntakeCourses /\ Alone /\ Owned /\ OwnAims /\ SerialReads /\ NumbersKept /\ NoTwinKnown
      /\ SecondSees
  BY DEF DirectoryInv
<1>1. /\ intakePc[s] = "bind" /\ Clear(s)
      /\ wish' = wish /\ readAs' = readAs /\ knew' = knew /\ aimed' = aimed
      /\ profile' = profile /\ bindings' = bindings
      /\ \/ RollBackIntake(s, "refused")
         \/ /\ ~\E x \in bindings \ superseded[s] : x.number = draft[s].number
            /\ bound' = bound \cup {s} /\ IntakeGoto(s, "commit") /\ draft' = draft /\ superseded' = superseded
  BY DEF Bind
<1>2. CASE RollBackIntake(s, "refused")
  BY <1>1, <1>2, RollBackKeeps
<1>3. CASE /\ ~\E x \in bindings \ superseded[s] : x.number = draft[s].number
           /\ bound' = bound \cup {s} /\ IntakeGoto(s, "commit") /\ draft' = draft /\ superseded' = superseded
  <2>1. /\ Drafted(s) /\ s \notin bound /\ s \notin DOMAIN profile /\ draft[s].number \in Numbers
        /\ ~Edits(s) => draft[s] = PersonRow(s)
        /\ superseded[s] \subseteq aimed[s]
    BY <1>0, <1>1, CourseOf DEF Afoot
  <2>2. /\ intakePc' \in [Intakes -> IntakeSteps]
        /\ intakePc'[s] = "commit" /\ \A r \in Intakes : r # s => intakePc'[r] = intakePc[r]
    <3>1. "commit" \in IntakeSteps
      BY DEF IntakeSteps
    <3>2. QED
      BY <1>0, <1>3, <3>1, IntakeMoves
  <2>3. /\ \A c : EditsOf(c)' = EditsOf(c)
        /\ \A c : EditsOverlapped(c)' <=> EditsOverlapped(c)
        /\ Untouched' /\ Owned' /\ BindingIsTheProfiles'
        /\ \A r \in Intakes : (Edits(r)' <=> Edits(r)) /\ PersonRow(r)' = PersonRow(r)
        /\ Newcomers' = Newcomers
    BY <1>1, <2>2, QuietIntake
  <2>4. ClientTyped'
    BY <1>0, <1>1, <1>3, <2>2 DEF ClientTyped
  <2>5. \A r \in Intakes : Drafted(r)' <=> Drafted(r)
    BY <1>3 DEF Drafted
  <2>6. bound \subseteq Intakes
    BY <1>0 DEF ClientTyped
  <2>7. \A u \in bound : draft[u].number # draft[s].number
    <3>1. \A u \in Intakes : (u \in bound /\ u # s) => draft[u].number # draft[s].number
      BY <1>1 DEF Clear, AwaitsBinding
    <3>2. QED
      BY <2>1, <2>6, <3>1
  <2>8. IntakeCourses'
    <3>1. intakePc'[s] \in Afoot
      BY <2>2 DEF Afoot
    <3>2. \A x \in aimed[s] : IF Edits(s) THEN x.client = wish[s].client ELSE x.number = wish[s].number
      BY <1>0, CourseOf
    <3>3. QED
      BY <1>0, <1>1, <1>3, <2>1, <2>2, <2>3, <2>5, <3>1, <3>2 DEF IntakeCourses, Afoot
  <2>9. Alone'
    <3>1. \A r, u \in bound' : draft[r].number = draft[u].number => r = u
      BY <1>0, <1>3, <2>7 DEF Alone
    <3>2. \A r \in bound' : \A x \in bindings \ superseded[r] : x.number # draft[r].number
      BY <1>0, <1>3 DEF Alone
    <3>3. QED
      BY <1>0, <1>1, <1>3, <2>3, <2>5, <3>1, <3>2 DEF Alone
  <2>10. OwnAims'
    BY <1>0, <1>1, <1>3, <2>2, <2>3 DEF OwnAims
  <2>11. SerialReads'
    BY <1>0, <1>1, <2>2, <2>3 DEF SerialReads, Afoot
  <2>12. NumbersKept' /\ NoTwinKnown'
    BY <1>0, <1>1, <2>3, <2>5 DEF NumbersKept, NoTwinKnown
  <2>13. SecondSees'
    <3>1. \A d \in Intakes : MeantAnother(d)' <=> MeantAnother(d)
      BY <1>1 DEF MeantAnother
    <3>2. ASSUME NEW c \in Newcomers, ~Edits(s), profile[c].number = wish[s].number, c \notin knew[s]
          PROVE  MeantAnother(s)
      <4>1. PICK b \in bindings : b.number = profile[c].number /\ b.client \in Intakes \ knew[s]
        BY <1>0, <3>2 DEF NumbersKept
      <4>2. b.number = draft[s].number
        BY <2>1, <3>2, <4>1 DEF PersonRow
      <4>3. b \in aimed[s]
        BY <1>3, <2>1, <4>1, <4>2
      <4>4. b.by = b.client
        BY <1>0, <4>1 DEF Owned
      <4>5. QED
        BY <4>1, <4>3, <4>4 DEF MeantAnother
    <3>3. ASSUME NEW d \in bound', NEW c \in Newcomers, ~Edits(d), profile[c].number = wish[d].number, c \notin knew[d]
          PROVE  MeantAnother(d)'
      <4>1. CASE d = s
        BY <3>1, <3>2, <3>3, <4>1
      <4>2. CASE d # s
        BY <1>0, <1>3, <2>6, <3>1, <3>3, <4>2 DEF SecondSees
      <4>3. QED
        BY <4>1, <4>2
    <3>4. ASSUME NEW c \in Newcomers, NEW d \in Newcomers,
                 c # d, profile[c].number = profile[d].number, c \notin knew[d], d \notin knew[c]
          PROVE  MeantAnother(c)' \/ MeantAnother(d)'
      BY <1>0, <3>1, <3>4 DEF SecondSees, Newcomers
    <3>5. \A d \in bound' : d \in Intakes
      BY <1>3, <2>6
    <3>6. QED
      BY <1>1, <2>3, <3>3, <3>4, <3>5 DEF SecondSees
  <2>14. QED
    BY <2>3, <2>4, <2>8, <2>9, <2>10, <2>11, <2>12, <2>13 DEF DirectoryInv
<1>4. QED
  BY <1>1, <1>2, <1>3

\* The binding a request commits.
Bound(s) == [number |-> draft[s].number, client |-> Subject(s), by |-> s]

\* A commit: the draft becomes the profile, and the binding takes the place of those superseded.
LEMMA CommitIntakeEffect ==
  ASSUME DirectoryInv, NEW s \in Intakes, CommitIntake(s)
  PROVE  /\ intakePc[s] = "commit" /\ Drafted(s) /\ s \notin DOMAIN profile
         /\ wish' = wish /\ readAs' = readAs /\ knew' = knew /\ aimed' = aimed
         /\ intakePc' \in [Intakes -> IntakeSteps]
         /\ intakePc'[s] = "done" /\ \A r \in Intakes : r # s => intakePc'[r] = intakePc[r]
         /\ draft' \in [Intakes -> Profile \cup {NoDraft}] /\ superseded' \in [Intakes -> SUBSET Binding]
         /\ draft'[s] = NoDraft /\ superseded'[s] = {} /\ bound' = bound \ {s}
         /\ \A r \in Intakes : r # s => draft'[r] = draft[r] /\ superseded'[r] = superseded[r]
         /\ DOMAIN profile' = DOMAIN profile \cup {Subject(s)}
         /\ profile' \in [DOMAIN profile' -> Profile]
         /\ profile'[Subject(s)] = draft[s]
         /\ \A c \in DOMAIN profile : c # Subject(s) => profile'[c] = profile[c]
         /\ \A x : x \in bindings' <=> (x \in bindings /\ x \notin superseded[s]) \/ (s \in bound /\ x = Bound(s))
         /\ Edits(s) => Subject(s) = wish[s].client /\ Subject(s) \in Regulars /\ Subject(s) \notin Intakes
         /\ ~Edits(s) => Subject(s) = s /\ draft[s] = PersonRow(s) /\ s \in bound
<1>0. ClientTyped /\ IntakeCourses
  BY DEF DirectoryInv
<1>1. /\ intakePc[s] = "commit" /\ IntakeGoto(s, "done")
      /\ profile' = [c \in DOMAIN profile \cup {Subject(s)} |-> IF c = Subject(s) THEN draft[s] ELSE profile[c]]
      /\ bindings' = (bindings \ superseded[s])
                       \cup {[number |-> draft[s].number, client |-> Subject(s), by |-> s] : u \in bound \cap {s}}
      /\ draft' = [draft EXCEPT ![s] = NoDraft] /\ superseded' = [superseded EXCEPT ![s] = {}] /\ bound' = bound \ {s}
      /\ wish' = wish /\ readAs' = readAs /\ knew' = knew /\ aimed' = aimed
  BY DEF CommitIntake, RollBackIntake
<1>2. /\ Drafted(s) /\ s \notin DOMAIN profile
      /\ ~Edits(s) => draft[s] = PersonRow(s) /\ s \in bound
  BY <1>0, <1>1, CourseOf DEF Afoot
<1>3. /\ intakePc' \in [Intakes -> IntakeSteps]
      /\ intakePc'[s] = "done" /\ \A r \in Intakes : r # s => intakePc'[r] = intakePc[r]
  <2>1. "done" \in IntakeSteps
    BY DEF IntakeSteps
  <2>2. QED
    BY <1>0, <1>1, <2>1, IntakeMoves
<1>4. /\ draft' \in [Intakes -> Profile \cup {NoDraft}] /\ superseded' \in [Intakes -> SUBSET Binding]
      /\ draft'[s] = NoDraft /\ superseded'[s] = {}
      /\ \A r \in Intakes : r # s => draft'[r] = draft[r] /\ superseded'[r] = superseded[r]
  BY <1>0, <1>1 DEF ClientTyped
<1>5. draft[s] \in Profile
  BY <1>0, <1>2, IntakesTyped
<1>6. /\ DOMAIN profile' = DOMAIN profile \cup {Subject(s)}
      /\ profile'[Subject(s)] = draft[s]
      /\ \A c \in DOMAIN profile : c # Subject(s) => profile'[c] = profile[c]
  BY <1>1
<1>7. profile' \in [DOMAIN profile' -> Profile]
  <2>1. \A c \in DOMAIN profile : profile[c] \in Profile
    BY <1>0 DEF ClientTyped
  <2>2. QED
    BY <1>1, <1>5, <2>1
<1>8. \A x : x \in bindings' <=> (x \in bindings /\ x \notin superseded[s]) \/ (s \in bound /\ x = Bound(s))
  BY <1>1 DEF Bound
<1>9. /\ Edits(s) => Subject(s) = wish[s].client /\ Subject(s) \in Regulars /\ Subject(s) \notin Intakes
      /\ ~Edits(s) => Subject(s) = s
  BY <1>0, WishTyped DEF Subject, Edits
<1>10. QED
  BY <1>1, <1>2, <1>3, <1>4, <1>6, <1>7, <1>8, <1>9

\* The edits that are done: those there were, and the request itself if it is one.
LEMMA CommitEdits ==
  ASSUME DirectoryInv, NEW s \in Intakes, CommitIntake(s)
  PROVE  /\ \A c : EditsOf(c) \subseteq EditsOf(c)' /\ s \notin EditsOf(c)
         /\ \A c : ~(Edits(s) /\ wish[s].client = c) => EditsOf(c)' = EditsOf(c)
         /\ \A c : (Edits(s) /\ wish[s].client = c) => s \in EditsOf(c)'
         /\ \A c : EditsOverlapped(c) => EditsOverlapped(c)'
         /\ \A r \in Intakes : (Edits(r)' <=> Edits(r)) /\ PersonRow(r)' = PersonRow(r)
<1>1. /\ intakePc[s] = "commit" /\ wish' = wish /\ readAs' = readAs
      /\ intakePc'[s] = "done" /\ \A r \in Intakes : r # s => intakePc'[r] = intakePc[r]
  BY CommitIntakeEffect
<1>2. \A c : EditsOf(c) \subseteq EditsOf(c)' /\ s \notin EditsOf(c)
  BY <1>1 DEF EditsOf
<1>3. \A c : ~(Edits(s) /\ wish[s].client = c) => EditsOf(c)' = EditsOf(c)
  BY <1>1 DEF EditsOf, Edits
<1>4. \A c : (Edits(s) /\ wish[s].client = c) => s \in EditsOf(c)'
  BY <1>1 DEF EditsOf, Edits
<1>5. \A c : EditsOverlapped(c) => EditsOverlapped(c)'
  BY <1>1, <1>2 DEF EditsOverlapped
<1>6. QED
  BY <1>1, <1>2, <1>3, <1>4, <1>5 DEF Edits, PersonRow

LEMMA CommitCourses ==
  ASSUME DirectoryInv, NEW s \in Intakes, CommitIntake(s)
  PROVE  ClientTyped' /\ IntakeCourses' /\ Alone' /\ Owned'
<1>0. ClientTyped /\ IntakeCourses /\ Alone /\ Owned
  BY DEF DirectoryInv
<1>1. /\ intakePc[s] = "commit" /\ Drafted(s) /\ s \notin DOMAIN profile
      /\ wish' = wish /\ readAs' = readAs /\ knew' = knew /\ aimed' = aimed
      /\ intakePc' \in [Intakes -> IntakeSteps]
      /\ intakePc'[s] = "done" /\ \A r \in Intakes : r # s => intakePc'[r] = intakePc[r]
      /\ draft' \in [Intakes -> Profile \cup {NoDraft}] /\ superseded' \in [Intakes -> SUBSET Binding]
      /\ draft'[s] = NoDraft /\ superseded'[s] = {} /\ bound' = bound \ {s}
      /\ \A r \in Intakes : r # s => draft'[r] = draft[r] /\ superseded'[r] = superseded[r]
      /\ DOMAIN profile' = DOMAIN profile \cup {Subject(s)}
      /\ profile' \in [DOMAIN profile' -> Profile]
      /\ profile'[Subject(s)] = draft[s]
      /\ \A c \in DOMAIN profile : c # Subject(s) => profile'[c] = profile[c]
      /\ \A x : x \in bindings' <=> (x \in bindings /\ x \notin superseded[s]) \/ (s \in bound /\ x = Bound(s))
      /\ Edits(s) => Subject(s) = wish[s].client /\ Subject(s) \in Regulars /\ Subject(s) \notin Intakes
      /\ ~Edits(s) => Subject(s) = s /\ draft[s] = PersonRow(s) /\ s \in bound
  BY CommitIntakeEffect
<1>2. \A r \in Intakes : (Edits(r)' <=> Edits(r)) /\ PersonRow(r)' = PersonRow(r)
  BY CommitEdits
<1>3. /\ bound \subseteq Intakes /\ Subject(s) \in Clients /\ Regulars \subseteq DOMAIN profile
      /\ \A r \in bound : draft[r].number \in Numbers /\ intakePc[r] = "commit"
  BY <1>0, <1>1, CourseOf DEF ClientTyped, Clients
<1>4. Bound(s).number = draft[s].number /\ Bound(s).client = Subject(s) /\ Bound(s).by = s
  BY DEF Bound
<1>5. ClientTyped'
  <2>1. s \in bound => Bound(s) \in Binding
    BY <1>3 DEF Bound, Binding, Clients
  <2>2. bindings' \subseteq Binding
    BY <1>0, <1>1, <2>1 DEF ClientTyped
  <2>3. knew' \in [Intakes -> SUBSET DOMAIN profile']
    BY <1>0, <1>1 DEF ClientTyped
  <2>4. DOMAIN profile' \subseteq Clients /\ Regulars \subseteq DOMAIN profile'
    BY <1>0, <1>1, <1>3 DEF ClientTyped
  <2>5. QED
    BY <1>0, <1>1, <2>2, <2>3, <2>4 DEF ClientTyped
<1>6. ~Drafted(s)' /\ \A r \in Intakes : r # s => (Drafted(r)' <=> Drafted(r))
  BY <1>1 DEF Drafted
<1>7. IntakeCourses'
  <2> SUFFICES ASSUME NEW r \in Intakes
               PROVE  /\ intakePc'[r] \in Afoot <=> Drafted(r)'
                      /\ intakePc'[r] = "write" => Edits(r)
                      /\ intakePc'[r] = "check" => ~Edits(r)
                      /\ Drafted(r)' /\ ~Edits(r) => draft'[r] = PersonRow(r)
                      /\ intakePc'[r] \in {"aim", "supersede", "bind"} => draft'[r].number \in Numbers
                      /\ intakePc'[r] = "commit" => r \in bound' \/ (Edits(r) /\ draft'[r].number \in {readAs[r].number, NoNumber})
                      /\ r \in bound' => intakePc'[r] = "commit" /\ draft'[r].number \in Numbers
                      /\ superseded'[r] # {} => intakePc'[r] \in {"bind", "commit"}
                      /\ superseded'[r] \subseteq aimed[r]
                      /\ \A x \in aimed[r] : IF Edits(r) THEN x.client = wish[r].client ELSE x.number = wish[r].number
                      /\ r \in DOMAIN profile' => ~Edits(r) /\ intakePc'[r] = "done" /\ profile'[r] = PersonRow(r)
    BY <1>1, <1>2 DEF IntakeCourses
  <2>1. \A x \in aimed[r] : IF Edits(r) THEN x.client = wish[r].client ELSE x.number = wish[r].number
    BY <1>0, CourseOf
  <2>2. CASE r = s
    BY <1>1, <1>6, <2>1, <2>2 DEF Afoot
  <2>3. CASE r # s
    <3>1. r \in DOMAIN profile' => r \in DOMAIN profile /\ r # Subject(s)
      BY <1>1, <2>3
    <3>2. r \in bound' <=> r \in bound
      BY <1>1, <2>3
    <3>3. intakePc'[r] = intakePc[r] /\ draft'[r] = draft[r] /\ superseded'[r] = superseded[r] /\ (Drafted(r)' <=> Drafted(r))
      BY <1>1, <1>6, <2>3
    <3>4. QED
      BY <1>0, <1>1, <3>1, <3>2, <3>3 DEF IntakeCourses
  <2>4. QED
    BY <2>2, <2>3
<1>8. Alone'
  <2>1. \A r, u \in Intakes : (Edits(r)' /\ Edits(u)' /\ Drafted(r)' /\ Drafted(u)' /\ wish'[r].client = wish'[u].client) => r = u
    BY <1>0, <1>1, <1>2, <1>6 DEF Alone
  <2>2. \A r \in bound' : r \in bound /\ r # s /\ draft'[r] = draft[r] /\ superseded'[r] = superseded[r]
    BY <1>1, <1>3
  <2>3. \A r \in bound' : \A x \in bindings' \ superseded'[r] : x.number # draft'[r].number
    BY <1>0, <1>1, <1>4, <2>2 DEF Alone
  <2>4. \A r, u \in bound' : draft'[r].number = draft'[u].number => r = u
    BY <1>0, <2>2 DEF Alone
  <2>5. QED
    BY <2>1, <2>3, <2>4 DEF Alone
<1>9. Owned'
  <2>1. ASSUME NEW x \in bindings'
        PROVE  /\ x.client \in DOMAIN profile'
               /\ x.client \in Intakes => x.by = x.client /\ x.number = wish[x.client].number
    <3>1. CASE x \in bindings
      BY <1>0, <1>1, <3>1 DEF Owned
    <3>2. CASE s \in bound /\ x = Bound(s)
      BY <1>0, <1>1, <1>4, <3>2, PersonTyped
    <3>3. QED
      BY <1>1, <2>1, <3>1, <3>2
  <2>2. \A x, y \in bindings' : x.number = y.number => x = y
    BY <1>0, <1>1, <1>4 DEF Owned, Alone
  <2>3. QED
    BY <1>1, <2>1, <2>2 DEF Owned
<1>10. QED
  BY <1>5, <1>7, <1>8, <1>9

LEMMA CommitAims ==
  ASSUME DirectoryInv, NEW s \in Intakes, CommitIntake(s)
  PROVE  OwnAims' /\ SerialReads' /\ Untouched' /\ BindingIsTheProfiles'
<1>0. /\ ClientTyped /\ IntakeCourses /\ Alone /\ Owned /\ OwnAims /\ SerialReads /\ Untouched /\ BindingIsTheProfiles
  BY DEF DirectoryInv
<1>1. /\ intakePc[s] = "commit" /\ Drafted(s) /\ s \notin DOMAIN profile
      /\ wish' = wish /\ readAs' = readAs /\ aimed' = aimed
      /\ intakePc'[s] = "done" /\ \A r \in Intakes : r # s => intakePc'[r] = intakePc[r]
      /\ bound' = bound \ {s}
      /\ \A r \in Intakes : r # s => draft'[r] = draft[r] /\ superseded'[r] = superseded[r]
      /\ DOMAIN profile' = DOMAIN profile \cup {Subject(s)}
      /\ profile'[Subject(s)] = draft[s]
      /\ \A c \in DOMAIN profile : c # Subject(s) => profile'[c] = profile[c]
      /\ \A x : x \in bindings' <=> (x \in bindings /\ x \notin superseded[s]) \/ (s \in bound /\ x = Bound(s))
      /\ Edits(s) => Subject(s) = wish[s].client /\ Subject(s) \in Regulars /\ Subject(s) \notin Intakes
      /\ ~Edits(s) => Subject(s) = s /\ draft[s] = PersonRow(s) /\ s \in bound
  BY CommitIntakeEffect
<1>2. /\ \A c : EditsOf(c) \subseteq EditsOf(c)' /\ s \notin EditsOf(c)
      /\ \A c : ~(Edits(s) /\ wish[s].client = c) => EditsOf(c)' = EditsOf(c)
      /\ \A c : (Edits(s) /\ wish[s].client = c) => s \in EditsOf(c)'
      /\ \A c : EditsOverlapped(c) => EditsOverlapped(c)'
      /\ \A r \in Intakes : (Edits(r)' <=> Edits(r)) /\ PersonRow(r)' = PersonRow(r)
  BY CommitEdits
<1>3. Bound(s).number = draft[s].number /\ Bound(s).client = Subject(s) /\ Bound(s).by = s
  BY DEF Bound
<1>4. OwnAims'
  <2> SUFFICES ASSUME NEW r \in Intakes, Edits(r), r # s, intakePc[r] \in {"supersede", "bind"} \/ r \in bound
               PROVE  \A x \in bindings' : x.client = wish[r].client =>
                        /\ intakePc[r] = "supersede" => x \in aimed[r]
                        /\ intakePc[r] = "bind" \/ r \in bound => x \in superseded[r]
    BY <1>1, <1>2 DEF OwnAims
  <2>1. Drafted(r)
    BY <1>0, CourseOf DEF Afoot
  <2>2. wish[r].client # Subject(s)
    <3>1. CASE Edits(s)
      BY <1>0, <1>1, <2>1, <3>1 DEF Alone
    <3>2. CASE ~Edits(s)
      BY <1>0, <1>1, <3>2, WishTyped
    <3>3. QED
      BY <3>1, <3>2
  <2>3. QED
    BY <1>0, <1>1, <1>3, <2>2 DEF OwnAims
\* An edit that is done without another of the same reading has read what it wrote over.
<1>5. \A c : (Edits(s) /\ c = wish[s].client) => EditsOverlapped(c)' \/ readAs[s] = profile[c]
  <2> SUFFICES ASSUME Edits(s), NEW c, c = wish[s].client, readAs[s] # profile[c] PROVE EditsOverlapped(c)'
    OBVIOUS
  <2>1. EditsOverlapped(c) \/ \E u \in EditsOf(c) : readAs[u] = readAs[s]
    BY <1>0, <1>1 DEF SerialReads, Afoot
  <2>2. ASSUME NEW u \in EditsOf(c), readAs[u] = readAs[s] PROVE EditsOverlapped(c)'
    <3>1. u # s /\ u \in EditsOf(c)' /\ s \in EditsOf(c)'
      BY <1>2, <2>2
    <3>2. QED
      BY <1>1, <2>2, <3>1 DEF EditsOverlapped
  <2>3. QED
    BY <1>2, <2>1, <2>2
<1>6. SerialReads'
  <2> SUFFICES ASSUME NEW r \in Intakes, Edits(r), r # s, intakePc[r] \in Afoot \cup {"write"}, NEW c, c = wish[r].client
               PROVE  \/ EditsOverlapped(c)'
                      \/ readAs[r] = profile'[c]
                      \/ \E u \in EditsOf(c)' : readAs[u] = readAs[r]
    BY <1>1, <1>2 DEF SerialReads, Afoot
  <2>1. \/ EditsOverlapped(c)
        \/ readAs[r] = profile[c]
        \/ \E u \in EditsOf(c) : readAs[u] = readAs[r]
    BY <1>0 DEF SerialReads
  <2>2. CASE readAs[r] = profile[c] /\ c # Subject(s)
    <3>1. c \in DOMAIN profile
      BY <1>0, WishTyped
    <3>2. QED
      BY <1>1, <2>2, <3>1
  <2>3. CASE readAs[r] = profile[c] /\ c = Subject(s)
    <3>0. c \notin Intakes
      BY <1>0, WishTyped
    <3>1. Edits(s) /\ wish[s].client = c
      BY <1>1, <2>3, <3>0
    <3>2. s \in EditsOf(c)'
      BY <1>2, <3>1
    <3>3. EditsOverlapped(c)' \/ readAs[s] = readAs[r]
      BY <1>5, <2>3, <3>1
    <3>4. QED
      BY <3>2, <3>3
  <2>4. QED
    BY <1>2, <2>1, <2>2, <2>3
<1>7. Untouched'
  <2> SUFFICES ASSUME NEW c \in Regulars, EditsOf(c)' = {} PROVE profile'[c] = Directory[c]
    BY DEF Untouched
  <2>1. c # Subject(s) /\ EditsOf(c) = {}
    BY <1>1, <1>2, ClientConstants
  <2>2. c \in DOMAIN profile
    BY <1>0 DEF ClientTyped
  <2>3. QED
    BY <1>0, <1>1, <2>1, <2>2 DEF Untouched
<1>8. BindingIsTheProfiles'
  <2> SUFFICES ASSUME NEW x \in bindings', profile'[x.client].number # x.number
               PROVE  profile'[x.client].number = NoNumber \/ EditsOverlapped(x.client)'
    BY DEF BindingIsTheProfiles, EditsOverlapped
  <2>1. x \in bindings /\ x \notin superseded[s]
    BY <1>1, <1>3
  <2>2. x.client \in DOMAIN profile
    BY <1>0, <2>1 DEF Owned
  <2>3. profile[x.client].number # x.number => profile[x.client].number = NoNumber \/ EditsOverlapped(x.client)
    BY <1>0, <2>1 DEF BindingIsTheProfiles, EditsOverlapped
  <2>4. CASE x.client # Subject(s)
    BY <1>1, <1>2, <2>2, <2>3, <2>4
  <2>5. CASE x.client = Subject(s)
    <3>1. Edits(s) /\ x.client = wish[s].client
      BY <1>1, <2>2, <2>5
    <3>2. s \notin bound
      BY <1>0, <2>1, <3>1 DEF OwnAims
    <3>3. draft[s].number \in {readAs[s].number, NoNumber}
      BY <1>0, <1>1, <3>2, CourseOf
    <3>4. CASE readAs[s] = profile[wish[s].client]
      BY <1>1, <1>2, <2>3, <2>5, <3>1, <3>3, <3>4
    <3>5. QED
      BY <1>5, <3>1, <3>4
  <2>6. QED
    BY <2>4, <2>5
<1>9. QED
  BY <1>4, <1>6, <1>7, <1>8

LEMMA CommitKnown ==
  ASSUME DirectoryInv, NEW s \in Intakes, CommitIntake(s)
  PROVE  NumbersKept' /\ NoTwinKnown' /\ SecondSees'
<1>0. /\ ClientTyped /\ IntakeCourses /\ Alone /\ NumbersKept /\ NoTwinKnown /\ SecondSees
  BY DEF DirectoryInv
<1>1. /\ intakePc[s] = "commit" /\ Drafted(s) /\ s \notin DOMAIN profile
      /\ wish' = wish /\ knew' = knew /\ aimed' = aimed
      /\ draft'[s] = NoDraft /\ bound' = bound \ {s}
      /\ \A r \in Intakes : r # s => draft'[r] = draft[r]
      /\ DOMAIN profile' = DOMAIN profile \cup {Subject(s)}
      /\ profile'[Subject(s)] = draft[s]
      /\ \A c \in DOMAIN profile : c # Subject(s) => profile'[c] = profile[c]
      /\ \A x : x \in bindings' <=> (x \in bindings /\ x \notin superseded[s]) \/ (s \in bound /\ x = Bound(s))
      /\ Edits(s) => Subject(s) = wish[s].client /\ Subject(s) \in Regulars /\ Subject(s) \notin Intakes
      /\ ~Edits(s) => Subject(s) = s /\ draft[s] = PersonRow(s) /\ s \in bound
  BY CommitIntakeEffect
<1>2. /\ \A c : EditsOf(c) \subseteq EditsOf(c)'
      /\ \A r \in Intakes : (Edits(r)' <=> Edits(r)) /\ PersonRow(r)' = PersonRow(r)
  BY CommitEdits
<1>3. Bound(s).number = draft[s].number /\ Bound(s).client = Subject(s) /\ Bound(s).by = s
  BY DEF Bound
<1>4. /\ \A d \in Intakes : knew[d] \subseteq DOMAIN profile /\ s \notin knew[d]
      /\ bound \subseteq Intakes
  BY <1>0, <1>1, IntakesTyped DEF ClientTyped
\* A newcomer was one before, or is the request.
<1>5. \A c \in Newcomers' : /\ c \in Intakes
                            /\ \/ c \in Newcomers /\ c # s /\ profile'[c] = profile[c]
                               \/ c = s /\ ~Edits(s) /\ profile'[c] = PersonRow(s) /\ s \in bound
  BY <1>1 DEF Newcomers
<1>6. \A r \in Intakes : ~Edits(r) => PersonRow(r).number = wish[r].number
  BY DEF PersonRow
<1>7. NumbersKept'
  <2> SUFFICES ASSUME NEW c \in Newcomers', NEW d \in Intakes, c \notin knew[d]
               PROVE  \E b \in bindings' : b.number = profile'[c].number /\ b.client \in Intakes \ knew[d]
    BY <1>1 DEF NumbersKept
  <2>1. CASE c = s
    <3>1. Bound(s) \in bindings' /\ Bound(s).client = s /\ Bound(s).number = profile'[c].number
      BY <1>1, <1>3, <1>5, <2>1
    <3>2. QED
      BY <1>4, <3>1
  <2>2. CASE c # s
    <3>1. PICK b \in bindings : b.number = profile[c].number /\ b.client \in Intakes \ knew[d]
      BY <1>0, <1>5, <2>2 DEF NumbersKept
    <3>2. CASE b \notin superseded[s]
      BY <1>1, <1>5, <2>2, <3>1, <3>2
    <3>3. CASE b \in superseded[s]
      <4>1. IF Edits(s) THEN b.client = wish[s].client ELSE b.number = wish[s].number
        BY <1>0, <3>3, CourseOf
      <4>2. ~Edits(s) /\ b.number = wish[s].number
        BY <1>1, <3>1, <4>1
      <4>3. Bound(s) \in bindings' /\ Bound(s).client = s /\ Bound(s).number = profile'[c].number
        BY <1>1, <1>3, <1>5, <1>6, <2>2, <3>1, <4>2
      <4>4. QED
        BY <1>4, <4>3
    <3>4. QED
      BY <3>2, <3>3
  <2>3. QED
    BY <2>1, <2>2
<1>8. NoTwinKnown'
  <2> SUFFICES ASSUME NEW d \in Intakes, ~Edits(d), Drafted(d)' \/ d \in DOMAIN profile'
               PROVE  /\ \A c \in knew[d] \cap Intakes : profile'[c] # PersonRow(d)
                      /\ \A c \in Regulars : EditsOf(c)' = {} => Directory[c] # PersonRow(d)
    BY <1>1, <1>2 DEF NoTwinKnown
  <2>1. Drafted(d) \/ d \in DOMAIN profile
    BY <1>1 DEF Drafted
  <2>2. \A c \in knew[d] \cap Intakes : profile'[c] = profile[c]
    BY <1>1, <1>4
  <2>3. QED
    BY <1>0, <1>2, <2>1, <2>2 DEF NoTwinKnown
<1>9. SecondSees'
  <2>1. \A d \in Intakes : MeantAnother(d)' <=> MeantAnother(d)
    BY <1>1 DEF MeantAnother
  <2>2. ASSUME NEW d \in bound, d # s, NEW c \in Newcomers', ~Edits(d), profile'[c].number = wish[d].number, c \notin knew[d]
        PROVE  MeantAnother(d)
    <3>1. c # s
      <4> SUFFICES ASSUME c = s PROVE FALSE
        OBVIOUS
      <4>1. s \in bound /\ draft[s].number = wish[d].number
        BY <1>1, <1>5, <2>2
      <4>2. draft[d] = PersonRow(d)
        BY <1>0, <1>4, <2>2, CourseOf
      <4>3. QED
        BY <1>0, <1>4, <1>6, <2>2, <4>1, <4>2 DEF Alone
    <3>2. QED
      BY <1>0, <1>5, <2>2, <3>1 DEF SecondSees
  <2>3. ASSUME NEW c \in Newcomers, ~Edits(s), profile[c].number = wish[s].number, c \notin knew[s]
        PROVE  MeantAnother(s)
    BY <1>0, <1>1, <2>3 DEF SecondSees
  <2>4. ASSUME NEW c \in Newcomers', NEW d \in Newcomers', c # d, profile'[c].number = profile'[d].number,
               c \notin knew[d], d \notin knew[c]
        PROVE  MeantAnother(c) \/ MeantAnother(d)
    <3>1. CASE c # s /\ d # s
      BY <1>0, <1>5, <2>4, <3>1 DEF SecondSees
    <3>2. CASE d = s
      BY <1>5, <1>6, <2>3, <2>4, <3>2
    <3>3. CASE c = s
      BY <1>5, <1>6, <2>3, <2>4, <3>3
    <3>4. QED
      BY <3>1, <3>2, <3>3
  <2>5. \A d \in bound' : d \in bound /\ d # s /\ d \in Intakes
    BY <1>1, <1>4
  <2>6. \A c \in Newcomers' : c \in Intakes
    BY <1>5
  <2>7. QED
    BY <1>1, <1>2, <2>1, <2>2, <2>4, <2>5, <2>6 DEF SecondSees
<1>10. QED
  BY <1>7, <1>8, <1>9

LEMMA CommitIntakeKeeps ==
  ASSUME DirectoryInv, NEW s \in Intakes, CommitIntake(s)
  PROVE  DirectoryInv'
  BY CommitCourses, CommitAims, CommitKnown DEF DirectoryInv

LEMMA DirectoryStep == DirectoryInv /\ [ClientNext]_clientVars => DirectoryInv'
<1> SUFFICES ASSUME DirectoryInv, [ClientNext]_clientVars PROVE DirectoryInv'
  OBVIOUS
<1>1. CASE UNCHANGED clientVars
  <2>0. /\ ClientTyped /\ IntakeCourses /\ Alone /\ OwnAims /\ SerialReads /\ NumbersKept /\ NoTwinKnown /\ SecondSees
    BY DEF DirectoryInv
  <2>1. /\ wish' = wish /\ intakePc' = intakePc /\ readAs' = readAs /\ knew' = knew /\ draft' = draft /\ aimed' = aimed
        /\ superseded' = superseded /\ bound' = bound /\ profile' = profile /\ bindings' = bindings
    BY <1>1 DEF clientVars
  <2>2. /\ \A c : EditsOf(c)' = EditsOf(c)
        /\ \A c : EditsOverlapped(c)' <=> EditsOverlapped(c)
        /\ Untouched' /\ Owned' /\ BindingIsTheProfiles'
        /\ \A r \in Intakes : (Edits(r)' <=> Edits(r)) /\ PersonRow(r)' = PersonRow(r)
        /\ Newcomers' = Newcomers
    BY <2>1, QuietIntake
  <2>3. \A r \in Intakes : Drafted(r)' <=> Drafted(r)
    BY <2>1 DEF Drafted
  <2>4. ClientTyped'
    BY <2>0, <2>1 DEF ClientTyped
  <2>5. IntakeCourses'
    BY <2>0, <2>1, <2>2, <2>3 DEF IntakeCourses
  <2>6. Alone' /\ OwnAims'
    BY <2>0, <2>1, <2>2, <2>3 DEF Alone, OwnAims
  <2>7. SerialReads'
    BY <2>0, <2>1, <2>2 DEF SerialReads
  <2>8. NumbersKept' /\ NoTwinKnown'
    BY <2>0, <2>1, <2>2, <2>3 DEF NumbersKept, NoTwinKnown
  <2>9. SecondSees'
    BY <2>0, <2>1, QuietSecond
  <2>10. QED
    BY <2>2, <2>4, <2>5, <2>6, <2>7, <2>8, <2>9 DEF DirectoryInv
<1>2. CASE ClientNext
  <2>1. PICK s \in Intakes : \/ LookUp(s) \/ ReadProfile(s) \/ Create(s) \/ Edit(s) \/ Aim(s) \/ Supersede(s)
                             \/ Bind(s) \/ CommitIntake(s) \/ DropIntake(s)
    BY <1>2 DEF ClientNext
  <2>2. CASE LookUp(s)
    BY <2>2, LookUpKeeps
  <2>3. CASE ReadProfile(s)
    BY <2>3, ReadProfileKeeps
  <2>4. CASE Create(s)
    BY <2>4, CreateKeeps
  <2>5. CASE Edit(s)
    BY <2>5, EditKeeps
  <2>6. CASE Aim(s)
    BY <2>6, AimKeeps
  <2>7. CASE Supersede(s)
    BY <2>7, SupersedeKeeps
  <2>8. CASE Bind(s)
    BY <2>8, BindKeeps
  <2>9. CASE CommitIntake(s)
    BY <2>9, CommitIntakeKeeps
  <2>10. CASE DropIntake(s)
    BY <2>10, DropIntakeKeeps
  <2>11. QED
    BY <2>1, <2>2, <2>3, <2>4, <2>5, <2>6, <2>7, <2>8, <2>9, <2>10
<1>3. QED
  BY <1>1, <1>2

LEMMA DirectoryExplained == DirectoryInv => DirectoryHolds
<1> SUFFICES ASSUME DirectoryInv PROVE TwinsNeedOverlap
  BY DEF DirectoryInv, DirectoryHolds
<1>0. ClientTyped /\ IntakeCourses /\ Untouched /\ NoTwinKnown /\ SecondSees
  BY DEF DirectoryInv
<1> SUFFICES ASSUME NEW c \in DOMAIN profile, NEW d \in DOMAIN profile,
                    c # d, profile[c] = profile[d], profile[c].number \in Numbers,
                    EditsOf(c) = {}, EditsOf(d) = {}
             PROVE  /\ {c, d} \subseteq Intakes
                    /\ c \notin knew[d] /\ d \notin knew[c]
                    /\ \E x \in {c, d} : MeantAnother(x)
  BY DEF TwinsNeedOverlap, MeantAnother
<1>1. \A x \in DOMAIN profile : x \in Regulars \/ x \in Intakes
  BY <1>0 DEF ClientTyped, Clients
<1>2. \A x \in {c, d} : x \in Regulars => profile[x] = Directory[x]
  BY <1>0 DEF Untouched
<1>3. \A x \in {c, d} : x \in Intakes => ~Edits(x) /\ profile[x] = PersonRow(x)
  BY <1>0, CourseOf
<1>4. \A x, y \in {c, d} : x \in Intakes /\ y \in Regulars => Directory[y] # PersonRow(x)
  BY <1>0, <1>3 DEF NoTwinKnown
<1>5. ~(c \in Regulars /\ d \in Regulars)
  BY <1>2, IntakesName
<1>6. c \in Intakes /\ d \in Intakes
  BY <1>1, <1>2, <1>3, <1>4, <1>5
<1>7. c \notin knew[d] /\ d \notin knew[c]
  BY <1>0, <1>3, <1>6 DEF NoTwinKnown
<1>8. MeantAnother(c) \/ MeantAnother(d)
  BY <1>0, <1>6, <1>7 DEF SecondSees, Newcomers
<1>9. QED
  BY <1>6, <1>7, <1>8

\* However many requests take clients in or edit them at once, two profiles with one name and
\* number come only from an edit or from requests that overlapped in one household's bindings,
\* and a number's active binding is its holder's unless the number was cleared or two edits of
\* the client read the same (client-lookup.ts createClient, clients.service updateProfile).
THEOREM DirectoryKept == ClientSpec => []DirectoryHolds
  BY DirectoryStarts, DirectoryStep, DirectoryExplained, PTL DEF ClientSpec

\* Profiles, drafts and bindings are of the kinds their columns hold.
THEOREM ClientsTyped == ClientSpec => []ClientTypeOK
<1>1. DirectoryInv => ClientTypeOK
  BY DEF DirectoryInv, ClientTyped, ClientTypeOK, IntakeSteps
<1> QED BY <1>1, DirectoryStarts, DirectoryStep, PTL DEF ClientSpec

-----------------------------------------------------------------------------
(***************************************************************************)
(* FloorPage: FloorPageHolds.  A line is the ranking of the visits that    *)
(* wait, a board's cards are a fold over it and never meet, and a drag or  *)
(* an undo only moves names about.  Counting how often a visit's services  *)
(* were chosen tells of every copy of the row, on a tablet, in a panel or  *)
(* in a request, whether it saw the last choice.                           *)
(***************************************************************************)

(* The lists and the cards of a board. *)

LEMMA PlacesTold ==
  /\ AnyPlace \in [Guests -> 1 .. Cardinality(Guests)]
  /\ \A g, h \in Guests : g # h => AnyPlace[g] # AnyPlace[h]
<1>1. IsFiniteSet(Guests)
  BY FloorPageConstants
<1>2. PICK f \in [1 .. Cardinality(Guests) -> Guests] : \A g \in Guests : \E i \in 1 .. Cardinality(Guests) : f[i] = g
  <2>1. ExistsBijection(1 .. Cardinality(Guests), Guests)
    BY <1>1, FS_CardinalityType
  <2> QED BY <2>1 DEF ExistsBijection, Bijection, Surjection, Injection
<1> DEFINE a == [g \in Guests |-> CHOOSE i \in 1 .. Cardinality(Guests) : f[i] = g]
<1>3. \A g \in Guests : a[g] \in 1 .. Cardinality(Guests) /\ f[a[g]] = g
  BY <1>2
<1>4. a \in [Guests -> 1 .. Cardinality(Guests)] /\ \A g, h \in Guests : g # h => a[g] # a[h]
  BY <1>3
<1>5. \E x \in [Guests -> 1 .. Cardinality(Guests)] : \A g, h \in Guests : g # h => x[g] # x[h]
  <2> HIDE DEF a
  <2> QED BY <1>4
<1> QED BY <1>5 DEF AnyPlace

LEMMA LineIs ==
  ASSUME NEW b \in Board
  PROVE  /\ Line(b) \in Seq(Guests) /\ Range(Line(b)) = With(b, "waiting")
         /\ \A i, j \in DOMAIN Line(b) : i # j => Line(b)[i] # Line(b)[j]
<1> DEFINE S == With(b, "waiting")
           R == Ahead(b)
           n == Cardinality(S)
<1>1. S \subseteq Guests /\ IsFiniteSet(S)
  BY FloorPageConstants, FS_Subset DEF With
<1>2. \A g \in Guests : b.seat[g].place \in Int /\ AnyPlace[g] \in Int
  <2>1. \A g \in Guests : b.seat[g] \in Seat
    BY DEF Board
  <2>2. Cardinality(Guests) \in Nat
    BY FloorPageConstants, FS_CardinalityType
  <2>3. \A g \in Guests : AnyPlace[g] \in Int
    BY <2>2, PlacesTold
  <2> QED BY <2>1, <2>3 DEF Seat
<1>3. StrictOrder(R, S)
  <2>1. ASSUME NEW g \in Guests, NEW h \in Guests
        PROVE  <<g, h>> \in R <=> \/ b.seat[g].place < b.seat[h].place
                                  \/ b.seat[g].place = b.seat[h].place /\ AnyPlace[g] < AnyPlace[h]
    BY DEF Ahead
  <2> HIDE DEF R
  <2>2. \A g, h \in S : g = h \/ <<g, h>> \in R \/ <<h, g>> \in R
    <3> SUFFICES ASSUME NEW g \in S, NEW h \in S, g # h PROVE <<g, h>> \in R \/ <<h, g>> \in R
      OBVIOUS
    <3>1. g \in Guests /\ h \in Guests
      BY <1>1
    <3>2. AnyPlace[g] # AnyPlace[h]
      BY <3>1, PlacesTold
    <3>3. b.seat[g].place \in Int /\ b.seat[h].place \in Int /\ AnyPlace[g] \in Int /\ AnyPlace[h] \in Int
      BY <1>2, <3>1
    <3> QED BY <2>1, <3>1, <3>2, <3>3
  <2>3. \A g \in S : <<g, g>> \notin R
    BY <1>1, <1>2, <2>1
  <2>4. ASSUME NEW x \in S, NEW y \in S, NEW z \in S, <<x, y>> \in R, <<y, z>> \in R
        PROVE  <<x, z>> \in R
    <3>1. x \in Guests /\ y \in Guests /\ z \in Guests
      BY <1>1
    <3>2. /\ b.seat[x].place \in Int /\ b.seat[y].place \in Int /\ b.seat[z].place \in Int
          /\ AnyPlace[x] \in Int /\ AnyPlace[y] \in Int /\ AnyPlace[z] \in Int
      BY <1>2, <3>1
    <3> QED BY <2>1, <2>4, <3>1, <3>2
  <2> QED BY <2>2, <2>3, <2>4 DEF StrictOrder
<1>4. /\ n \in Nat /\ Ranked(S, R) \in [1 .. n -> S]
      /\ \A i, j \in 1 .. n : i < j => <<Ranked(S, R)[i], Ranked(S, R)[j]>> \in R
      /\ \A x \in S : \E i \in 1 .. n : Ranked(S, R)[i] = x
  BY <1>1, <1>3, RankedIs
<1>5. Line(b) = Ranked(S, R)
  BY DEF Line
<1> DEFINE l == Line(b)
<1>6. n \in Nat /\ l \in [1 .. n -> S] /\ \A x \in S : \E i \in 1 .. n : l[i] = x
  BY <1>4, <1>5
<1>7. \A i, j \in 1 .. n : i # j => l[i] # l[j]
  <2> SUFFICES ASSUME NEW i \in 1 .. n, NEW j \in 1 .. n, i # j PROVE l[i] # l[j]
    OBVIOUS
  <2>1. i < j \/ j < i
    BY <1>6
  <2>2. \A g \in S : <<g, g>> \notin R
    BY <1>3 DEF StrictOrder
  <2> HIDE DEF R, S
  <2>3. l[i] \in S /\ l[j] \in S
    BY <1>6
  <2>4. <<l[i], l[j]>> \in R \/ <<l[j], l[i]>> \in R
    BY <1>4, <1>5, <2>1
  <2> QED BY <2>2, <2>3, <2>4
<1> HIDE DEF S, n, l
<1>8. l \in [1 .. n -> Guests] /\ n \in Nat
  BY <1>1, <1>6
<1>9. l \in Seq(Guests)
  BY <1>8, SeqOfFunction
<1>10. Range(l) = S
  BY <1>6 DEF Range
<1>11. DOMAIN l = 1 .. n
  BY <1>8
<1> QED BY <1>7, <1>9, <1>10, <1>11 DEF l, S

LEMMA WaitingListIs ==
  ASSUME NEW t, shown[t] \in Board, order[t] \in Seq(Guests)
  PROVE  /\ WaitingList(t) \in Seq(Guests) /\ Range(WaitingList(t)) \subseteq With(shown[t], "waiting")
<1>1. CASE order[t] = NoOrder
  BY <1>1, LineIs DEF WaitingList
<1>2. CASE order[t] # NoOrder
  <2> DEFINE s == order[t]
             I == {i \in DOMAIN s : shown[t].seat[s[i]].status = "waiting"}
  <2>1. WaitingList(t) = Sublist(s, I)
    BY <1>2 DEF WaitingList
  <2>2. \A i \in I : s[i] \in With(shown[t], "waiting")
    BY LenProperties, ElementOfSeq DEF With
  <2>3. I \subseteq DOMAIN s
    OBVIOUS
  <2> HIDE DEF I
  <2>4. Sublist(s, I) \in Seq(Guests) /\ Range(Sublist(s, I)) = {s[i] : i \in I}
    BY <2>3, KeptLists
  <2> QED BY <2>1, <2>2, <2>4
<1> QED BY <1>1, <1>2

CardFor(b, cards, g) ==
  LET s == Match(b, g, {c.barber : c \in cards})
  IN  IF b.seat[g].present /\ b.seat[g].ready # "no" /\ (s # Nobody \/ b.seat[g].ready = "yes")
      THEN cards \cup {[guest |-> g, barber |-> s]} ELSE cards

LEMMA CardsUnfold ==
  ASSUME NEW t, shown[t] \in Board, NEW n \in Nat, NEW l, l \in [1 .. n -> Guests], WaitingList(t) = l
  PROVE  \E acc : /\ acc[0] = {} /\ ReadyMatches(t) = acc[n]
                  /\ \A k \in 1 .. n : acc[k] = CardFor(shown[t], acc[k - 1], l[k])
<1> DEFINE b == shown[t]
           A == SUBSET [guest : Guests, barber : Barbers \cup {Nobody}]
           F == [x \in A \X (1 .. n) |-> CardFor(b, x[1], l[x[2]])]
           Eq(g) == g = [s \in SUBSET (DOMAIN l) |-> IF s = {} THEN {} ELSE CardFor(b, g[s \ {Max(s)}], l[Max(s)])]
           it == CHOOSE g : Eq(g)
           acc == [k \in 0 .. n |-> it[1 .. k]]
<1>1. ASSUME NEW g \in Guests, NEW used PROVE Match(b, g, used) \in Barbers \cup {Nobody}
  <2>1. CanSeat(b, used) \subseteq Barbers
    BY DEF CanSeat
  <2> QED BY <2>1 DEF Match
<1>2. ASSUME NEW x \in A \X (1 .. n) PROVE CardFor(b, x[1], l[x[2]]) \in A
  BY <1>1 DEF CardFor
<1>3. F \in [A \X (1 .. n) -> A] /\ {} \in A
  BY <1>2
<1> HIDE DEF F, A
<1>4. PICK g : Carried(g, F, {}, n) /\ \A s \in SUBSET (1 .. n) : g[s] \in A
  BY <1>3, FoldSteps, Zenon
<1>5. Eq(g)
  <2>1. DOMAIN l = 1 .. n
    OBVIOUS
  <2>2. ASSUME NEW s \in SUBSET (1 .. n), s # {}
        PROVE  F[<<g[s \ {Max(s)}], Max(s)>>] = CardFor(b, g[s \ {Max(s)}], l[Max(s)])
    <3>1. Max(s) \in s /\ s \ {Max(s)} \in SUBSET (1 .. n)
      BY <2>2, LastOut
    <3>2. <<g[s \ {Max(s)}], Max(s)>> \in A \X (1 .. n)
      BY <1>4, <3>1
    <3> QED BY <3>2 DEF F
  <2> QED BY <1>4, <2>1, <2>2 DEF Carried
<1>6. Eq(it)
  <2> HIDE DEF Eq
  <2> QED BY <1>5
<1>7. ReadyMatches(t) = it[1 .. n]
  <2>1. ReadyMatches(t) = it[DOMAIN l]
    BY DEF ReadyMatches, FoldLeft, MapThenFoldSet, CardFor
  <2> QED BY <2>1
<1>8. acc[0] = {}
  <2>1. 1 .. 0 = {} /\ {} \in SUBSET (DOMAIN l)
    OBVIOUS
  <2>2. it[{}] = {}
    BY <1>6, <2>1
  <2> HIDE DEF it
  <2> QED BY <2>1, <2>2
<1>9. ASSUME NEW k \in 1 .. n PROVE acc[k] = CardFor(b, acc[k - 1], l[k])
  <2>0. DOMAIN l = 1 .. n
    OBVIOUS
  <2>1. 1 .. k \in SUBSET (DOMAIN l) /\ 1 .. k # {} /\ k \in 0 .. n /\ k - 1 \in 0 .. n
    <3> HIDE DEF it, Eq
    <3>1. k \in 1 .. k /\ k \in 0 .. n /\ k - 1 \in 0 .. n
      OBVIOUS
    <3>2. \A j \in 1 .. k : j \in 1 .. n
      OBVIOUS
    <3> QED BY <2>0, <3>1, <3>2
  <2>2. Max(1 .. k) = k /\ (1 .. k) \ {Max(1 .. k)} = 1 .. k - 1
    BY LastOfInterval
  <2>3. it[1 .. k] = CardFor(b, it[(1 .. k) \ {Max(1 .. k)}], l[Max(1 .. k)])
    <3> HIDE DEF it
    <3> QED BY <1>6, <2>1
  <2> HIDE DEF it
  <2> QED BY <2>1, <2>2, <2>3
<1> HIDE DEF acc
<1>10. acc[n] = it[1 .. n]
  BY DEF acc
<1> QED BY <1>7, <1>8, <1>9, <1>10

\* Whom a card offers.
LEMMA MatchIs ==
  ASSUME NEW b \in Board, NEW g \in Guests, NEW used
  PROVE  \/ Match(b, g, used) \in Barbers /\ Match(b, g, used) \notin b.busy \cup used
         \/ Match(b, g, used) = Nobody /\ Barbers \subseteq b.busy \cup used
<1> DEFINE free == CanSeat(b, used)
<1>1. \A s \in free : s \in Barbers /\ s \notin b.busy \cup used
  BY DEF CanSeat
<1>2. free = {} => Barbers \subseteq b.busy \cup used
  BY DEF CanSeat
<1>3. Match(b, g, used) \in free \/ (Match(b, g, used) = Nobody /\ free = {})
  <2> HIDE DEF free
  <2>1. Match(b, g, used) = IF Favoured[g] \in free THEN Favoured[g]
                            ELSE IF b.seat[g].barber \in free THEN b.seat[g].barber
                            ELSE IF free # {} THEN CHOOSE s \in free : TRUE ELSE Nobody
    BY DEF Match, free
  <2>2. QED
    BY <2>1
<1>4. QED
  BY <1>1, <1>2, <1>3

GivenBy(cards) == {c.barber : c \in cards} \ {Nobody}

\* Cards that share out the barbers of b among the guests of a list.
SharedOut(b, cards, waiting) ==
  /\ \A c \in cards : /\ c.guest \in waiting /\ c.barber \in Barbers \cup {Nobody}
                      /\ c = [guest |-> c.guest, barber |-> c.barber]
  /\ GivenBy(cards) \cap b.busy = {}
  /\ \A c, d \in cards : c.barber = d.barber /\ c.barber # Nobody => c = d
  /\ \A c \in cards : c.barber = Nobody => Barbers \ b.busy \subseteq GivenBy(cards)

LEMMA OneMoreCard ==
  ASSUME NEW b \in Board, NEW W, W \subseteq Guests, NEW g \in W, NEW cards, SharedOut(b, cards, W)
  PROVE  SharedOut(b, CardFor(b, cards, g), W)
<1> DEFINE used == {c.barber : c \in cards}
           s    == Match(b, g, used)
           new  == [guest |-> g, barber |-> s]
           all  == CardFor(b, cards, g)
<1>1. \/ s \in Barbers /\ s \notin b.busy \cup used
      \/ s = Nobody /\ Barbers \subseteq b.busy \cup used
  BY MatchIs
<1>2. all = cards \/ all = cards \cup {new}
  BY DEF CardFor
<1> HIDE DEF s, all
<1>3. ASSUME all = cards \cup {new} PROVE SharedOut(b, all, W)
  <2>1. new.guest = g /\ new.barber = s /\ new = [guest |-> new.guest, barber |-> new.barber]
    OBVIOUS
  <2> HIDE DEF new
  <2>2. GivenBy(all) = GivenBy(cards) \cup ({s} \ {Nobody})
    BY <1>3, <2>1 DEF GivenBy
  <2>3. \A c \in all : /\ c.guest \in W /\ c.barber \in Barbers \cup {Nobody}
                       /\ c = [guest |-> c.guest, barber |-> c.barber]
    BY <1>1, <1>3, <2>1 DEF SharedOut
  <2>4. GivenBy(all) \cap b.busy = {}
    BY <1>1, <2>2 DEF SharedOut
  <2>5. \A c, d \in all : c.barber = d.barber /\ c.barber # Nobody => c = d
    BY <1>1, <1>3, <2>1 DEF SharedOut
  <2>6. \A c \in all : c.barber = Nobody => Barbers \ b.busy \subseteq GivenBy(all)
    <3> SUFFICES ASSUME NEW c \in all, c.barber = Nobody
                 PROVE  Barbers \ b.busy \subseteq GivenBy(all)
      OBVIOUS
    <3>1. CASE c \in cards
      BY <2>2, <3>1 DEF SharedOut
    <3>2. CASE c = new
      <4>1. Barbers \subseteq b.busy \cup used
        BY <1>1, <2>1, <3>2, NobodyIsNoBarber
      <4>2. QED
        BY <2>2, <4>1, NobodyIsNoBarber DEF GivenBy
    <3>3. QED
      BY <1>3, <3>1, <3>2
  <2>7. QED
    BY <2>3, <2>4, <2>5, <2>6 DEF SharedOut
<1>4. QED
  BY <1>2, <1>3 DEF all

LEMMA CardsAre ==
  ASSUME NEW t, shown[t] \in Board, order[t] \in Seq(Guests)
  PROVE  SharedOut(shown[t], ReadyMatches(t), Range(WaitingList(t)))
<1> DEFINE b == shown[t]
           l == WaitingList(t)
           n == Len(l)
           W == Range(l)
<1>1. l \in Seq(Guests)
  BY WaitingListIs
<1>2. n \in Nat /\ l \in [1 .. n -> Guests]
  BY <1>1, LenProperties
<1>3. W \subseteq Guests /\ \A k \in 1 .. n : l[k] \in W
  BY <1>2 DEF Range
<1>4. PICK acc : /\ acc[0] = {} /\ ReadyMatches(t) = acc[n]
                 /\ \A k \in 1 .. n : acc[k] = CardFor(b, acc[k - 1], l[k])
  <2>1. WaitingList(t) = l
    OBVIOUS
  <2> HIDE DEF l, n
  <2>2. QED
    BY <1>2, <2>1, CardsUnfold
<1> HIDE DEF n, l, W, b
<1> DEFINE T == {k \in 0 .. n : SharedOut(b, acc[k], W)}
<1>5. 0 \in T
  BY <1>2, <1>4 DEF SharedOut, GivenBy
<1>6. ASSUME NEW k \in 0 .. n - 1, k \in T PROVE k + 1 \in T
  <2>1. k + 1 \in 1 .. n /\ (k + 1) - 1 = k /\ k + 1 \in 0 .. n
    BY <1>2
  <2>2. acc[k + 1] = CardFor(b, acc[k], l[k + 1])
    BY <1>4, <2>1
  <2>3. SharedOut(b, acc[k], W) /\ l[k + 1] \in W
    BY <1>3, <1>6, <2>1
  <2>4. SharedOut(b, acc[k + 1], W)
    BY <1>3, <2>2, <2>3, OneMoreCard DEF b
  <2>5. QED
    BY <2>1, <2>4
<1> HIDE DEF T
<1>7. \A k \in 0 .. n : k \in T
  BY <1>2, <1>5, <1>6, CountUp
<1>8. n \in T
  BY <1>2, <1>7
<1>9. QED
  BY <1>4, <1>8 DEF T, b, l, W

\* Each tablet has a board and a list, its own or dragged.
Showing ==
  \A t \in Tabs : shown[t] \in Board /\ order[t] \in Seq(Guests)

LEMMA BarbersShared == Showing => CardsShareTheBarbers
<1> SUFFICES ASSUME Showing, NEW t \in Tabs
             PROVE  LET cards == ReadyMatches(t)
                        given == {c.barber : c \in cards} \ {Nobody}
                    IN  /\ given \cap shown[t].busy = {}
                        /\ \A c, d \in cards : c.barber = d.barber /\ c.barber # Nobody => c = d
                        /\ (\E c \in cards : c.barber = Nobody) => given = Barbers \ shown[t].busy
  BY DEF CardsShareTheBarbers
<1>1. SharedOut(shown[t], ReadyMatches(t), Range(WaitingList(t)))
  BY CardsAre DEF Showing
<1>2. QED
  BY <1>1 DEF SharedOut, GivenBy

\* What a menu offers is done to a guest of the board.
LEMMA OfferedIs ==
  ASSUME NEW t, shown[t] \in Board, order[t] \in Seq(Guests)
  PROVE  /\ Range(WaitingList(t)) \subseteq With(shown[t], "waiting")
         /\ {c.guest : c \in ReadyMatches(t)} \subseteq Range(WaitingList(t))
         /\ \A kind \in PanelKinds \cup TapKinds : Offered(t, kind) \subseteq Guests
<1>1. Range(WaitingList(t)) \subseteq With(shown[t], "waiting")
  BY WaitingListIs
<1>2. {c.guest : c \in ReadyMatches(t)} \subseteq Range(WaitingList(t))
  BY CardsAre DEF SharedOut
<1>3. Range(WaitingList(t)) \subseteq Guests
  BY <1>1 DEF With
<1>4. ASSUME NEW kind \in PanelKinds \cup TapKinds PROVE Offered(t, kind) \subseteq Guests
  <2> DEFINE waiting == Range(WaitingList(t))
             cards   == {c.guest : c \in ReadyMatches(t)}
  <2>1. cards \subseteq Guests
    BY <1>2, <1>3
  <2>2. Offered(t, kind) \subseteq waiting \cup cards \cup With(shown[t], "in_service")
                                    \cup With(board, "none")
    BY DEF Offered, PanelKinds, TapKinds
  <2> HIDE DEF waiting, cards
  <2>3. QED
    BY <1>3, <2>1, <2>2 DEF With, waiting
<1>5. QED
  BY <1>1, <1>2, <1>4

LEMMA OffersTaken == Showing => OffersAreAccepted
<1> SUFFICES ASSUME Showing, NEW t \in Tabs, shown[t] = board,
                    NEW kind \in (PanelKinds \cup TapKinds) \ {"checkIn"}, NEW g \in Offered(t, kind)
             PROVE  Accepted(kind, board.seat[g], TRUE)
                      <=> ~(kind = "abandon" /\ g \in With(board, "in_service"))
  BY DEF OffersAreAccepted
<1> DEFINE waiting == Range(WaitingList(t))
           cards   == {c.guest : c \in ReadyMatches(t)}
           serving == With(board, "in_service")
<1>1. /\ waiting \subseteq With(board, "waiting") /\ cards \subseteq waiting
      /\ Offered(t, kind) \subseteq Guests
  BY OfferedIs DEF Showing
<1>2. Offered(t, kind) =
        CASE kind \in {"start", "service", "arrive", "ready", "drag"} -> waiting
          [] kind \in {"reassign", "cancel"}          -> waiting \cup serving
          [] kind \in {"checkout", "top", "original"} -> serving
          [] kind = "noShow"  -> waiting \ {x \in waiting : shown[t].seat[x].present}
          [] kind = "abandon" -> {x \in waiting : shown[t].seat[x].present} \cup serving
          [] kind = "unready" -> cards
          [] kind = "checkIn" -> With(board, "none")
  BY DEF Offered
<1> HIDE DEF waiting, cards
<1>3. \A x \in waiting : board.seat[x].status = "waiting"
  BY <1>1 DEF With
<1>4. \A x \in serving : board.seat[x].status = "in_service"
  BY DEF With
<1>5. g \in serving <=> board.seat[g].status = "in_service"
  BY <1>1 DEF With
<1> HIDE DEF serving
<1>6. CASE kind \in {"start", "service", "ready"}
  BY <1>2, <1>3, <1>6 DEF Accepted
<1>7. CASE kind \in {"arrive", "drag", "top", "original", "reassign"}
  BY <1>7 DEF Accepted
<1>8. CASE kind = "cancel"
  BY <1>2, <1>3, <1>4, <1>8 DEF Accepted
<1>9. CASE kind = "checkout"
  BY <1>2, <1>4, <1>9 DEF Accepted
<1>10. CASE kind = "noShow"
  BY <1>2, <1>3, <1>10 DEF Accepted
<1>11. CASE kind = "abandon"
  <2>1. Accepted(kind, board.seat[g], TRUE) <=> board.seat[g].status = "waiting" /\ board.seat[g].present
    BY <1>11 DEF Accepted
  <2>2. g \in serving \/ (g \in waiting /\ board.seat[g].present)
    BY <1>2, <1>11
  <2>3. QED
    BY <1>3, <1>5, <1>11, <2>1, <2>2 DEF serving
<1>12. CASE kind = "unready"
  BY <1>1, <1>2, <1>3, <1>12 DEF Accepted
<1>13. QED
  BY <1>6, <1>7, <1>8, <1>9, <1>10, <1>11, <1>12 DEF PanelKinds, TapKinds

-----------------------------------------------------------------------------
(* Types. *)

Panels ==
  [kind: PanelKinds, guest: Guests, kit: Kits, turn: Nat, chosen: BOOLEAN, barbers: SUBSET Barbers]

PagePhases == {"sent", "handled", "told", "kept", "lost"}

PageRequests ==
  [tab: Tabs, kind: PanelKinds \cup TapKinds, guest: Guests, barber: Barbers \cup {Nobody},
   kit: Kits, turn: Nat, chosen: BOOLEAN, list: Seq(Guests), phase: PagePhases, read: Seat,
   place: Int]

\* A request that seats a client names the barber.
NamesBarber(w) == w.kind \in {"start", "reassign"} => w.barber \in Barbers

PageTyped ==
  /\ board \in Board /\ shown \in [Tabs -> Board] /\ stale \subseteq Tabs
  /\ order \in [Tabs -> Seq(Guests)] /\ todo \in [Tabs -> Seq(PanelKinds \cup TapKinds)]
  /\ panel \in [Tabs -> Panels \cup {NoPanel}]
  /\ wire \subseteq PageRequests /\ \A w \in wire : NamesBarber(w)
  /\ picked \in [Guests -> Kits] /\ unseen \subseteq Guests

LEMMA PageTypedStarts == FloorPageInit => PageTyped
<1> SUFFICES ASSUME FloorPageInit PROVE PageTyped
  OBVIOUS
<1>1. PICK s \in Shifts : board = s.board /\ todo = s.chores
  BY DEF FloorPageInit
<1>2. board \in Board /\ todo \in [Tabs -> Seq(PanelKinds \cup TapKinds)]
  BY <1>1, FloorPageConstants
<1>3. \A g \in Guests : board.seat[g].kit \in Kits
  <2>1. \A g \in Guests : board.seat[g] \in Seat
    BY <1>2 DEF Board
  <2>2. QED
    BY <2>1 DEF Seat
<1>4. /\ shown = [t \in Tabs |-> board] /\ stale = {} /\ wire = {} /\ unseen = {}
      /\ panel = [t \in Tabs |-> NoPanel] /\ order = [t \in Tabs |-> NoOrder]
      /\ picked = [g \in Guests |-> board.seat[g].kit]
  BY DEF FloorPageInit
<1>5. order \in [Tabs -> Seq(Guests)]
  BY <1>4 DEF NoOrder
<1>6. QED
  BY <1>2, <1>3, <1>4, <1>5 DEF PageTyped

LEMMA SeatsOf ==
  ASSUME NEW b \in Board, NEW g \in Guests
  PROVE  /\ b.seat[g] \in Seat /\ b.seat[g].kit \in Kits /\ b.seat[g].turn \in Nat
         /\ b.seat[g].place \in Int /\ b.seat[g].first \in Int
         /\ b.seat \in [Guests -> Seat] /\ b.busy \subseteq Barbers
<1>1. b.seat \in [Guests -> Seat] /\ b.busy \subseteq Barbers
  BY DEF Board
<1>2. b.seat[g] \in Seat
  BY <1>1
<1>3. QED
  BY <1>1, <1>2 DEF Seat

LEMMA RequestTyped ==
  ASSUME PageTyped, NEW t \in Tabs, NEW kind \in PanelKinds \cup TapKinds, NEW g \in Guests,
         NEW b \in Barbers \cup {Nobody}, NEW kit \in Kits, NEW turn \in Nat,
         NEW kept \in BOOLEAN, NEW list \in Seq(Guests),
         kind \in {"start", "reassign"} => b \in Barbers
  PROVE  /\ Request(t, kind, g, b, kit, turn, kept, list) \in PageRequests
         /\ NamesBarber(Request(t, kind, g, b, kit, turn, kept, list))
<1> DEFINE y == Request(t, kind, g, b, kit, turn, kept, list)
<1>1. board.seat[g] \in Seat
  BY SeatsOf DEF PageTyped
<1>2. y = [tab |-> t, kind |-> kind, guest |-> g, barber |-> b, kit |-> kit, turn |-> turn,
           chosen |-> kept, list |-> list, phase |-> "sent", read |-> board.seat[g], place |-> 0]
  BY DEF Request
<1> HIDE DEF y
<1>3. y \in PageRequests
  BY <1>1, <1>2 DEF PageRequests, PagePhases
<1>4. NamesBarber(y)
  BY <1>2 DEF NamesBarber
<1>5. QED
  BY <1>3, <1>4 DEF y

LEMMA PageOffers ==
  ASSUME PageTyped, NEW t \in Tabs
  PROVE  /\ \A kind \in PanelKinds \cup TapKinds : Offered(t, kind) \subseteq Guests
         /\ WaitingList(t) \in Seq(Guests)
<1>1. shown[t] \in Board /\ order[t] \in Seq(Guests)
  BY DEF PageTyped
<1>2. QED
  BY <1>1, OfferedIs, WaitingListIs

LEMMA OpenPanelTyped ==
  ASSUME PageTyped, NEW t \in Tabs, OpenPanel(t)
  PROVE  PageTyped'
<1>1. PICK kind \in PanelKinds : \E g \in Offered(t, kind) :
        /\ Doing(t, kind)
        /\ panel' = [panel EXCEPT ![t] =
                   [kind |-> kind, guest |-> g, kit |-> shown[t].seat[g].kit,
                    turn |-> shown[t].seat[g].turn, chosen |-> FALSE, barbers |-> {}]]
        /\ todo' = [todo EXCEPT ![t] = Tail(@)]
        /\ UNCHANGED <<board, shown, stale, order, wire, picked, mischarged, unseen>>
  BY DEF OpenPanel
<1>2. PICK g \in Offered(t, kind) :
        /\ Doing(t, kind)
        /\ panel' = [panel EXCEPT ![t] =
                   [kind |-> kind, guest |-> g, kit |-> shown[t].seat[g].kit,
                    turn |-> shown[t].seat[g].turn, chosen |-> FALSE, barbers |-> {}]]
        /\ todo' = [todo EXCEPT ![t] = Tail(@)]
        /\ UNCHANGED <<board, shown, stale, order, wire, picked, mischarged, unseen>>
  BY <1>1
<1>3. g \in Guests
  BY PageOffers
<1>4. shown[t].seat[g].kit \in Kits /\ shown[t].seat[g].turn \in Nat
  BY <1>3, SeatsOf DEF PageTyped
<1> DEFINE x == [kind |-> kind, guest |-> g, kit |-> shown[t].seat[g].kit,
                 turn |-> shown[t].seat[g].turn, chosen |-> FALSE, barbers |-> {}]
<1>5. x \in Panels
  BY <1>3, <1>4 DEF Panels
<1>6. todo[t] \in Seq(PanelKinds \cup TapKinds) /\ todo[t] # <<>>
  BY <1>2 DEF PageTyped, Doing
<1>7. Tail(todo[t]) \in Seq(PanelKinds \cup TapKinds)
  BY <1>6
<1> HIDE DEF x
<1>8. panel' \in [Tabs -> Panels \cup {NoPanel}]
  BY <1>2, <1>5 DEF PageTyped, x
<1>9. todo' \in [Tabs -> Seq(PanelKinds \cup TapKinds)]
  BY <1>2, <1>7 DEF PageTyped
<1>10. QED
  BY <1>2, <1>8, <1>9 DEF PageTyped

LEMMA PanelTyped ==
  ASSUME PageTyped, NEW t \in Tabs, panel[t] # NoPanel
  PROVE  panel[t] \in Panels
  BY DEF PageTyped

LEMMA PanelsTyped ==
  ASSUME PageTyped, NEW t \in Tabs, FetchBarbers(t) \/ PickServices(t) \/ ClosePanel(t)
  PROVE  PageTyped'
<1>0. panel[t] # NoPanel
  BY DEF FetchBarbers, PickServices, ClosePanel
<1>1. panel[t] \in Panels /\ panel \in [Tabs -> Panels \cup {NoPanel}]
  BY <1>0, PanelTyped DEF PageTyped
<1>2. \E x \in Panels \cup {NoPanel} : panel' = [panel EXCEPT ![t] = x]
  <2>1. CASE FetchBarbers(t)
    <3> DEFINE x == [panel[t] EXCEPT !.barbers = Barbers \ board.busy]
    <3>1. panel' = [panel EXCEPT ![t] = x]
      BY <1>1, <2>1 DEF FetchBarbers
    <3>2. x \in Panels
      BY <1>1 DEF Panels
    <3>3. QED
      BY <3>1, <3>2
  <2>2. CASE PickServices(t)
    <3>1. PICK k \in Kits : panel' = [panel EXCEPT ![t].kit = k, ![t].chosen = TRUE]
      BY <2>2 DEF PickServices
    <3> DEFINE x == [panel[t] EXCEPT !.kit = k, !.chosen = TRUE]
    <3>2. panel' = [panel EXCEPT ![t] = x]
      BY <1>1, <3>1
    <3>3. x \in Panels
      BY <1>1 DEF Panels
    <3>4. QED
      BY <3>2, <3>3
  <2>3. CASE ClosePanel(t)
    BY <2>3 DEF ClosePanel
  <2>4. QED
    BY <2>1, <2>2, <2>3
<1>3. panel' \in [Tabs -> Panels \cup {NoPanel}]
  BY <1>1, <1>2
<1>4. UNCHANGED <<board, shown, stale, order, todo, wire, picked, mischarged, unseen>>
  BY DEF FetchBarbers, PickServices, ClosePanel
<1>5. QED
  BY <1>3, <1>4 DEF PageTyped

LEMMA SubmitTyped ==
  ASSUME PageTyped, NEW t \in Tabs, Submit(t)
  PROVE  PageTyped'
<1> DEFINE p == panel[t]
<1>1. p # NoPanel /\ UNCHANGED <<board, shown, stale, panel, order, todo, picked, mischarged, unseen>>
  BY DEF Submit
<1>2. PICK b \in IF p.kind \in {"start", "reassign"} THEN p.barbers ELSE {Nobody} :
        wire' = wire \cup {Request(t, p.kind, p.guest, b, p.kit, p.turn, p.chosen, NoOrder)}
  BY DEF Submit, KitOf
<1>3. p \in Panels
  BY <1>1, PanelTyped
<1>4. /\ p.kind \in PanelKinds \cup TapKinds /\ p.guest \in Guests /\ p.kit \in Kits
      /\ p.turn \in Nat /\ p.chosen \in BOOLEAN /\ p.barbers \subseteq Barbers
  BY <1>3 DEF Panels
<1>5. b \in Barbers \cup {Nobody} /\ (p.kind \in {"start", "reassign"} => b \in Barbers)
  BY <1>2, <1>4
<1>6. NoOrder \in Seq(Guests)
  BY DEF NoOrder
<1> HIDE DEF p
<1> DEFINE y == Request(t, p.kind, p.guest, b, p.kit, p.turn, p.chosen, NoOrder)
<1>7. y \in PageRequests /\ NamesBarber(y)
  BY <1>4, <1>5, <1>6, RequestTyped
<1> HIDE DEF y
<1>8. wire' \subseteq PageRequests /\ \A w \in wire' : NamesBarber(w)
  BY <1>2, <1>7 DEF PageTyped, y
<1>9. QED
  BY <1>1, <1>8 DEF PageTyped

LEMMA TapTyped ==
  ASSUME PageTyped, NEW t \in Tabs, Tap(t)
  PROVE  PageTyped'
<1>1. PICK kind \in TapKinds \ {"drag"} : \E g \in Offered(t, kind) :
        /\ Doing(t, kind)
        /\ wire' = wire \cup {Request(t, kind, g, Nobody, board.seat[g].kit, 0, FALSE, NoOrder)}
        /\ todo' = [todo EXCEPT ![t] = Tail(@)]
        /\ UNCHANGED <<board, shown, stale, panel, order, picked, mischarged, unseen>>
  BY DEF Tap
<1>2. PICK g \in Offered(t, kind) :
        /\ Doing(t, kind)
        /\ wire' = wire \cup {Request(t, kind, g, Nobody, board.seat[g].kit, 0, FALSE, NoOrder)}
        /\ todo' = [todo EXCEPT ![t] = Tail(@)]
        /\ UNCHANGED <<board, shown, stale, panel, order, picked, mischarged, unseen>>
  BY <1>1
<1>3. g \in Guests
  BY PageOffers
<1>4. board.seat[g].kit \in Kits
  BY <1>3, SeatsOf DEF PageTyped
<1>5. kind \in PanelKinds \cup TapKinds /\ kind \notin {"start", "reassign"}
  BY DEF TapKinds
<1>6. NoOrder \in Seq(Guests)
  BY DEF NoOrder
<1> DEFINE y == Request(t, kind, g, Nobody, board.seat[g].kit, 0, FALSE, NoOrder)
<1>7. y \in PageRequests /\ NamesBarber(y)
  BY <1>3, <1>4, <1>5, <1>6, RequestTyped
<1> HIDE DEF y
<1>8. wire' \subseteq PageRequests /\ \A w \in wire' : NamesBarber(w)
  BY <1>2, <1>7 DEF PageTyped, y
<1>9. todo[t] \in Seq(PanelKinds \cup TapKinds) /\ todo[t] # <<>>
  BY <1>2 DEF PageTyped, Doing
<1>10. Tail(todo[t]) \in Seq(PanelKinds \cup TapKinds)
  BY <1>9
<1>11. todo' \in [Tabs -> Seq(PanelKinds \cup TapKinds)]
  BY <1>2, <1>10 DEF PageTyped
<1>12. QED
  BY <1>2, <1>8, <1>11 DEF PageTyped

LEMMA DragTyped ==
  ASSUME PageTyped, NEW t \in Tabs, Drag(t)
  PROVE  PageTyped'
<1> DEFINE l == WaitingList(t)
<1>1. PICK i \in DOMAIN l : \E j \in DOMAIN l :
       /\ Doing(t, "drag") /\ i # j
       /\ order' = [order EXCEPT ![t] = InsertAt(RemoveAt(l, i), j, l[i])]
       /\ wire' = wire \cup {Request(t, "drag", l[i], Nobody, board.seat[l[i]].kit, 0, FALSE,
                                     order'[t])}
       /\ todo' = [todo EXCEPT ![t] = Tail(@)]
       /\ UNCHANGED <<board, shown, stale, panel, picked, mischarged, unseen>>
  BY DEF Drag
<1>2. PICK j \in DOMAIN l :
       /\ Doing(t, "drag") /\ i # j
       /\ order' = [order EXCEPT ![t] = InsertAt(RemoveAt(l, i), j, l[i])]
       /\ wire' = wire \cup {Request(t, "drag", l[i], Nobody, board.seat[l[i]].kit, 0, FALSE,
                                     order'[t])}
       /\ todo' = [todo EXCEPT ![t] = Tail(@)]
       /\ UNCHANGED <<board, shown, stale, panel, picked, mischarged, unseen>>
  BY <1>1
<1>3. l \in Seq(Guests)
  BY PageOffers
<1> DEFINE r == RemoveAt(l, i)
           q == InsertAt(r, j, l[i])
<1> HIDE DEF l
<1>4. /\ i \in 1 .. Len(l) /\ j \in 1 .. Len(l) /\ Len(l) \in Nat /\ l[i] \in Guests
  BY <1>3, LenProperties, ElementOfSeq
<1>5. r \in Seq(Guests) /\ Len(r) = Len(l) - 1
  BY <1>3, <1>4, RemovedAt
<1> HIDE DEF r
<1>6. q \in Seq(Guests)
  <2>1. j \in 1 .. Len(r) + 1
    BY <1>4, <1>5
  <2>2. QED
    BY <1>4, <1>5, <2>1, InsertedAt
<1>7. order' = [order EXCEPT ![t] = q]
  BY <1>2 DEF r
<1> HIDE DEF q
<1>8. order' \in [Tabs -> Seq(Guests)] /\ order'[t] \in Seq(Guests)
  BY <1>6, <1>7 DEF PageTyped
<1>9. board.seat[l[i]].kit \in Kits
  BY <1>4, SeatsOf DEF PageTyped
<1> DEFINE y == Request(t, "drag", l[i], Nobody, board.seat[l[i]].kit, 0, FALSE, order'[t])
<1>10. y \in PageRequests /\ NamesBarber(y)
  <2>1. "drag" \in PanelKinds \cup TapKinds
    BY DEF TapKinds
  <2>2. \A list \in Seq(Guests) :
          /\ Request(t, "drag", l[i], Nobody, board.seat[l[i]].kit, 0, FALSE, list) \in PageRequests
          /\ NamesBarber(Request(t, "drag", l[i], Nobody, board.seat[l[i]].kit, 0, FALSE, list))
    BY <1>4, <1>9, <2>1, RequestTyped
  <2>3. QED
    BY <1>8, <2>2
<1> HIDE DEF y
<1>11. wire' \subseteq PageRequests /\ \A w \in wire' : NamesBarber(w)
  BY <1>2, <1>10 DEF PageTyped, y
<1>12. todo[t] \in Seq(PanelKinds \cup TapKinds) /\ todo[t] # <<>>
  BY <1>2 DEF PageTyped, Doing
<1>13. Tail(todo[t]) \in Seq(PanelKinds \cup TapKinds)
  BY <1>12
<1>14. todo' \in [Tabs -> Seq(PanelKinds \cup TapKinds)]
  BY <1>2, <1>13 DEF PageTyped
<1>15. QED
  BY <1>2, <1>8, <1>11, <1>14 DEF PageTyped

\* A request that moved on, one less, or the board's own fields of it.
LEMMA WireTyped ==
  ASSUME PageTyped, NEW w \in wire, NEW y, y \in PageRequests, NamesBarber(y),
         wire' = (wire \ {w}) \cup {y} \/ wire' = wire \ {w}
  PROVE  wire' \subseteq PageRequests /\ \A v \in wire' : NamesBarber(v)
  BY DEF PageTyped

LEMMA ToTyped ==
  ASSUME PageTyped, NEW w \in wire, NEW phase \in PagePhases \cup {"over"}, To(w, phase)
  PROVE  wire' \subseteq PageRequests /\ \A v \in wire' : NamesBarber(v)
<1>1. w \in PageRequests /\ NamesBarber(w)
  BY DEF PageTyped
<1>2. CASE phase = "over"
  BY <1>1, <1>2, WireTyped DEF To
<1>3. CASE phase # "over"
  <2> DEFINE y == [w EXCEPT !.phase = phase]
  <2>1. y \in PageRequests
    BY <1>1, <1>3 DEF PageRequests
  <2>2. y.kind = w.kind /\ y.barber = w.barber
    BY <1>1 DEF PageRequests
  <2>3. wire' = (wire \ {w}) \cup {y}
    BY <1>3 DEF To
  <2> HIDE DEF y
  <2>4. NamesBarber(y)
    BY <1>1, <2>2 DEF NamesBarber
  <2>5. QED
    BY <2>1, <2>3, <2>4, WireTyped
<1>4. QED
  BY <1>2, <1>3

LEMMA SettledTyped ==
  ASSUME PageTyped, NEW w \in wire, Settled(w)
  PROVE  order' \in [Tabs -> Seq(Guests)]
<1>1. NoOrder \in Seq(Guests)
  BY DEF NoOrder
<1>2. QED
  BY <1>1 DEF Settled, PageTyped

\* The places there are for a row are numbers.
LEMMA PlaceIs ==
  ASSUME PageTyped, NEW kind, NEW g \in Guests
  PROVE  PlaceFor(kind, g) \in Int
<1> DEFINE W == With(board, "waiting")
           places == {board.seat[h].place : h \in W}
<1>1. W \subseteq Guests /\ IsFiniteSet(W)
  BY FloorPageConstants, FS_Subset DEF With
<1>2. board \in Board /\ board.seat[g].first \in Int
  BY SeatsOf DEF PageTyped
<1>3. places \subseteq Int
  BY <1>1, <1>2, SeatsOf
<1>4. IsFiniteSet(places)
  <2> DEFINE at == [h \in W |-> board.seat[h].place]
  <2>1. at \in Surjection(W, places)
    BY DEF Surjection
  <2> HIDE DEF W, at, places
  <2>2. QED
    BY <1>1, <2>1, FS_Surjection
<1>5. places # {} => Max(places) \in Int /\ Min(places) \in Int
  <2> HIDE DEF places
  <2>1. QED
    BY <1>3, <1>4, MaxMinAre
<1>6. PlaceFor(kind, g) \in {0, -1, Max(places) + 1, Min(places) - 1, board.seat[g].first}
      /\ (places = {} => PlaceFor(kind, g) \in {0, -1, board.seat[g].first})
  BY DEF PlaceFor
<1> HIDE DEF places
<1>7. QED
  BY <1>2, <1>5, <1>6

LEMMA ServeTyped ==
  ASSUME PageTyped, NEW w \in wire, Serve(w)
  PROVE  PageTyped'
<1>1. w \in PageRequests /\ NamesBarber(w)
  BY DEF PageTyped
<1>2. w.guest \in Guests
  BY <1>1 DEF PageRequests
<1> DEFINE s == board.seat[w.guest]
           p == PlaceFor(w.kind, w.guest)
<1>3. s \in Seat /\ p \in Int
  BY <1>2, PlaceIs, SeatsOf DEF PageTyped
<1>4. /\ wire' = (wire \ {w}) \cup {[w EXCEPT !.phase = "handled", !.read = s, !.place = p]}
      /\ stale' = Tabs /\ UNCHANGED <<board, shown, panel, order, todo, picked, mischarged, unseen>>
  BY DEF Serve
<1> HIDE DEF s, p
<1> DEFINE y == [w EXCEPT !.phase = "handled", !.read = s, !.place = p]
<1>5. y \in PageRequests
  BY <1>1, <1>3 DEF PageRequests, PagePhases
<1>6. y.kind = w.kind /\ y.barber = w.barber
  BY <1>1 DEF PageRequests
<1>7. wire' = (wire \ {w}) \cup {y}
  BY <1>4
<1> HIDE DEF y
<1>8. NamesBarber(y)
  BY <1>1, <1>6 DEF NamesBarber
<1>9. wire' \subseteq PageRequests /\ \A v \in wire' : NamesBarber(v)
  BY <1>5, <1>7, <1>8, WireTyped
<1>10. QED
  BY <1>4, <1>9 DEF PageTyped

LEMMA RefuseTyped ==
  ASSUME PageTyped, NEW w \in wire, Refuse(w) \/ Lose(w)
  PROVE  PageTyped'
<1>1. PICK phase \in PagePhases \cup {"over"} : To(w, phase)
  <2>1. \E phase \in {"over", "lost"} : To(w, phase)
    BY Zenon DEF Refuse, Lose
  <2>2. QED
    BY <2>1 DEF PagePhases
<1>2. Settled(w) /\ UNCHANGED <<board, shown, stale, panel, todo, picked, mischarged, unseen>>
  BY DEF Refuse, Lose, SettledOnLoss
<1>3. QED
  BY <1>1, <1>2, ToTyped, SettledTyped DEF PageTyped

LEMMA TellTyped ==
  ASSUME PageTyped, NEW w \in wire, Tell(w)
  PROVE  PageTyped'
<1>1. PICK phase \in PagePhases \cup {"over"} : To(w, phase)
  <2>1. To(w, "told") \/ To(w, "over")
    BY DEF Tell
  <2>2. QED
    BY <2>1 DEF PagePhases
<1>2. /\ Settled(w) /\ UNCHANGED <<board, shown, todo, picked, mischarged, unseen>>
      /\ stale' = stale \cup {w.tab}
      /\ panel' = panel \/ panel' = [panel EXCEPT ![w.tab] = NoPanel]
  BY DEF Tell
<1>3. w.tab \in Tabs
  BY DEF PageTyped, PageRequests
<1>4. panel' \in [Tabs -> Panels \cup {NoPanel}] /\ stale' \subseteq Tabs
  BY <1>2, <1>3 DEF PageTyped
<1>5. QED
  BY <1>1, <1>2, <1>4, ToTyped, SettledTyped DEF PageTyped

LEMMA RowTyped ==
  ASSUME NEW w \in PageRequests, NamesBarber(w), w.kind # "drag", board.seat[w.guest] \in Seat
  PROVE  RowAfter(w) \in Seat
<1> SUFFICES ASSUME NEW s \in Seat, s = board.seat[w.guest]
             PROVE  RowAfter(w) \in Seat
  OBVIOUS
<1>1. w.kind \in {"start", "service", "reassign", "checkout", "cancel", "noShow", "abandon", "arrive",
                  "ready", "unready", "top", "original", "checkIn"}
  BY DEF PageRequests, PanelKinds, TapKinds
<1>2. /\ w.barber \in Barbers \cup {Nobody} /\ w.kit \in Kits /\ w.place \in Int
      /\ w.read \in Seat
  BY DEF PageRequests
<1>3. w.read.present \in BOOLEAN /\ w.read.ready \in {"auto", "yes", "no"}
  BY <1>2 DEF Seat
<1>4. CASE w.kind = "start"
  <2>1. RowAfter(w) = [s EXCEPT !.status = "in_service", !.barber = w.barber, !.kit = w.kit,
                                !.ready = "auto"]
    BY <1>4 DEF RowAfter
  <2>2. QED
    BY <1>2, <2>1 DEF Seat
<1>5. CASE w.kind \in {"service", "reassign", "checkout", "cancel", "noShow", "abandon"}
  <2>1. \/ RowAfter(w) = [s EXCEPT !.kit = w.kit] \/ RowAfter(w) = [s EXCEPT !.barber = w.barber]
        \/ RowAfter(w) = [s EXCEPT !.status = "gone"]
    BY <1>5 DEF RowAfter
  <2>2. QED
    BY <1>2, <2>1 DEF Seat
<1>6. CASE w.kind = "arrive"
  <2> DEFINE here  == ~w.read.present
             ready == IF w.read.present THEN "auto" ELSE w.read.ready
  <2>1. RowAfter(w) = [s EXCEPT !.present = here, !.ready = ready]
    BY <1>6 DEF RowAfter
  <2>2. here \in BOOLEAN /\ ready \in {"auto", "yes", "no"}
    BY <1>3
  <2> HIDE DEF here, ready
  <2>3. QED
    BY <2>1, <2>2 DEF Seat
<1>7. CASE w.kind \in {"ready", "unready"}
  <2>1. \/ RowAfter(w) = [s EXCEPT !.ready = "yes", !.present = TRUE]
        \/ RowAfter(w) = [s EXCEPT !.ready = "no", !.present = w.read.present]
    BY <1>7 DEF RowAfter
  <2>2. QED
    BY <1>3, <2>1 DEF Seat
<1>8. CASE w.kind \in {"top", "original", "checkIn"}
  <2>1. \/ RowAfter(w) = [s EXCEPT !.status = "waiting", !.barber = Nobody, !.place = w.place]
        \/ RowAfter(w) = [s EXCEPT !.status = "waiting", !.place = w.place, !.first = w.place]
    BY <1>8 DEF RowAfter
  <2>2. QED
    BY <1>2, <2>1 DEF Seat
<1>9. QED
  BY <1>1, <1>4, <1>5, <1>6, <1>7, <1>8

LEMMA SeatsTyped ==
  ASSUME PageTyped, NEW w \in wire
  PROVE  Seats(w) \in [Guests -> Seat]
<1>1. w \in PageRequests /\ NamesBarber(w)
  BY DEF PageTyped
<1>2. w.guest \in Guests /\ w.list \in Seq(Guests)
  BY <1>1 DEF PageRequests
<1>3. board.seat \in [Guests -> Seat]
  BY DEF PageTyped, Board
<1>4. CASE w.kind = "drag"
  <2> DEFINE seatOf(g) == IF g \in Range(w.list)
                       THEN [board.seat[g] EXCEPT !.place = CHOOSE i \in DOMAIN w.list : w.list[i] = g]
                       ELSE board.seat[g]
  <2>1. ASSUME NEW g \in Guests PROVE seatOf(g) \in Seat
    <3>1. board.seat[g] \in Seat
      BY <1>3
    <3>2. CASE g \in Range(w.list)
      <4> DEFINE n == CHOOSE i \in DOMAIN w.list : w.list[i] = g
      <4>1. \E i \in DOMAIN w.list : w.list[i] = g
        BY <3>2 DEF Range
      <4>2. n \in DOMAIN w.list
        BY <4>1
      <4>3. DOMAIN w.list \subseteq Int
        BY <1>2, LenProperties
      <4>4. seatOf(g) = [board.seat[g] EXCEPT !.place = n]
        BY <3>2
      <4> HIDE DEF n, seatOf
      <4>5. n \in Int
        BY <4>2, <4>3
      <4>6. QED
        BY <3>1, <4>4, <4>5 DEF Seat
    <3>3. CASE g \notin Range(w.list)
      BY <3>1, <3>3
    <3>4. QED
      BY <3>2, <3>3
  <2>2. Seats(w) = [g \in Guests |-> seatOf(g)]
    BY <1>4 DEF Seats
  <2> HIDE DEF seatOf
  <2>3. QED
    BY <2>1, <2>2
<1>5. CASE w.kind # "drag"
  <2> DEFINE a == RowAfter(w)
             n == IF w.chosen /\ w.kind \in {"start", "service"} THEN a.turn + 1 ELSE a.turn
             r == [a EXCEPT !.turn = n]
  <2>1. a \in Seat
    BY <1>1, <1>2, <1>3, <1>5, RowTyped
  <2>2. Seats(w) = [board.seat EXCEPT ![w.guest] = r]
    BY <1>5 DEF Seats
  <2> HIDE DEF a
  <2>3. n \in Nat
    BY <2>1 DEF Seat
  <2> HIDE DEF n
  <2>4. r \in Seat
    BY <2>1, <2>3 DEF Seat
  <2> HIDE DEF r
  <2>5. QED
    BY <1>2, <1>3, <2>2, <2>4
<1>6. QED
  BY <1>4, <1>5

LEMMA BusyTyped ==
  ASSUME PageTyped, NEW w \in wire
  PROVE  Busy(w) \subseteq Barbers
<1>1. NamesBarber(w) /\ board.busy \subseteq Barbers
  BY DEF PageTyped, Board
<1>2. \/ Busy(w) \subseteq board.busy
      \/ w.kind \in {"start", "reassign"} /\ Busy(w) \subseteq board.busy \cup {w.barber}
  BY DEF Busy
<1>3. QED
  BY <1>1, <1>2 DEF NamesBarber

LEMMA CommitPageTyped ==
  ASSUME PageTyped, NEW w \in wire, CommitPage(w)
  PROVE  PageTyped'
<1>1. w \in PageRequests
  BY DEF PageTyped
<1>2. w.guest \in Guests /\ w.kit \in Kits
  BY <1>1 DEF PageRequests
<1>3. /\ board' = [seat |-> Seats(w), busy |-> Busy(w)]
      /\ picked' = [picked EXCEPT ![w.guest] = w.kit] \/ picked' = picked
      /\ unseen' \subseteq unseen \cup {w.guest}
      /\ UNCHANGED <<shown, stale, panel, order, todo>>
  BY DEF CommitPage
<1>4. To(w, "kept") \/ To(w, "over")
  BY DEF CommitPage
<1>5. wire' \subseteq PageRequests /\ \A v \in wire' : NamesBarber(v)
  BY <1>4, ToTyped DEF PagePhases
<1>6. board' \in Board
  BY <1>3, SeatsTyped, BusyTyped DEF Board
<1>7. picked' \in [Guests -> Kits] /\ unseen' \subseteq Guests
  BY <1>2, <1>3 DEF PageTyped
<1>8. QED
  BY <1>3, <1>5, <1>6, <1>7 DEF PageTyped

LEMMA RefetchTyped ==
  ASSUME PageTyped, NEW t \in Tabs, Refetch(t) \/ Poll(t)
  PROVE  PageTyped'
  BY DEF Refetch, Poll, PageTyped

LEMMA PageTypedStep == PageTyped /\ [FloorPageNext]_pageVars => PageTyped'
<1> SUFFICES ASSUME PageTyped, [FloorPageNext]_pageVars PROVE PageTyped'
  OBVIOUS
<1>1. CASE UNCHANGED pageVars
  BY <1>1 DEF pageVars, PageTyped
<1>2. ASSUME NEW t \in Tabs, OpenPanel(t) \/ FetchBarbers(t) \/ PickServices(t) \/ Submit(t)
                             \/ ClosePanel(t) \/ Tap(t) \/ Drag(t) \/ Refetch(t) \/ Poll(t)
      PROVE  PageTyped'
  BY <1>2, OpenPanelTyped, PanelsTyped, SubmitTyped, TapTyped, DragTyped, RefetchTyped
<1>3. ASSUME NEW w \in wire, Serve(w) \/ Refuse(w) \/ CommitPage(w) \/ Tell(w) \/ Lose(w)
      PROVE  PageTyped'
  BY <1>3, ServeTyped, RefuseTyped, CommitPageTyped, TellTyped
<1>4. QED
  BY <1>1, <1>2, <1>3 DEF FloorPageNext

\* Whatever a tablet is used for and whatever is lost, boards, lists, panels and requests are what the
\* page and the service take them for.
THEOREM TabletsTyped == FloorPageSpec => []FloorPageTypeOK
<1>1. PageTyped => FloorPageTypeOK
  BY DEF PageTyped, FloorPageTypeOK, PageRequests, PagePhases
<1>2. QED
  BY <1>1, PageTypedStarts, PageTypedStep, PTL DEF FloorPageSpec

-----------------------------------------------------------------------------
\* A row of the board, and a request, with the fields it has.
Seatlike(s) ==
  s = [status |-> s.status, barber |-> s.barber, kit |-> s.kit, present |-> s.present,
       ready |-> s.ready, place |-> s.place, first |-> s.first, turn |-> s.turn]

Wirelike(w) ==
  /\ w = [tab |-> w.tab, kind |-> w.kind, guest |-> w.guest, barber |-> w.barber, kit |-> w.kit,
          turn |-> w.turn, chosen |-> w.chosen, list |-> w.list, phase |-> w.phase, read |-> w.read,
          place |-> w.place]
  /\ w.kind \in PanelKinds \cup TapKinds

Panellike(p) ==
  /\ p = [kind |-> p.kind, guest |-> p.guest, kit |-> p.kit, turn |-> p.turn, chosen |-> p.chosen,
          barbers |-> p.barbers]
  /\ p.kind \in PanelKinds

\* Services that were read when their choice was `turn` old are the row's, or that choice was made by
\* somebody who had not seen the one before.
Abreast(g, turn, kit, seat, U) ==
  turn \in Nat /\ turn <= seat[g].turn /\ (turn = seat[g].turn => kit = seat[g].kit \/ g \in U)

Seated(seat) == \A g \in Guests : Seatlike(seat[g]) /\ seat[g].turn \in Nat

\* The same of a panel or a request that sends services.
Fits(x, seat, U) ==
  /\ x.kind = "checkout" => x.guest \in Guests
  /\ x.kind \in {"start", "service", "checkout"} /\ x.guest \in Guests =>
       Abreast(x.guest, x.turn, IF x.chosen THEN seat[x.guest].kit ELSE x.kit, seat, U)

RowsFit ==
  /\ board.seat = [g \in Guests |-> board.seat[g]] /\ Seated(board.seat)
  /\ \A t \in Tabs, g \in Guests :
       Abreast(g, shown[t].seat[g].turn, shown[t].seat[g].kit, board.seat, unseen)
  /\ shown = [t \in Tabs |-> shown[t]]

PanelsFit ==
  /\ panel = [t \in Tabs |-> panel[t]]
  /\ \A t \in Tabs : panel[t] # NoPanel => Panellike(panel[t]) /\ Fits(panel[t], board.seat, unseen)

WireFits == \A w \in wire : Wirelike(w) /\ Fits(w, board.seat, unseen)

\* A dragged order stays only while the request that sends it is unanswered.
OrdersPend ==
  /\ order = [t \in Tabs |-> order[t]]
  /\ \A t \in Tabs : order[t] # NoOrder => Pending(t, {"drag"}) # {}

FloorPageInv ==
  RowsFit /\ PanelsFit /\ WireFits /\ OrdersPend /\ ServicesAreTheLastChoice
    /\ picked = [g \in Guests |-> picked[g]]

-----------------------------------------------------------------------------
LEMMA FloorPageStarts == FloorPageInit => FloorPageInv
<1> SUFFICES ASSUME FloorPageInit PROVE FloorPageInv
  OBVIOUS
<1>1. PICK s \in Shifts : board = s.board
  BY DEF FloorPageInit
<1>2. board \in Board
  BY <1>1, FloorPageConstants
<1>3. board.seat \in [Guests -> Seat]
  BY <1>2 DEF Board
<1>4. Seated(board.seat)
  <2> SUFFICES ASSUME NEW g \in Guests PROVE Seatlike(board.seat[g]) /\ board.seat[g].turn \in Nat
    BY DEF Seated
  <2>1. board.seat[g] \in Seat
    BY <1>3
  <2>2. QED
    BY <2>1 DEF Seat, Seatlike
<1>5. /\ shown = [t \in Tabs |-> board] /\ wire = {} /\ unseen = {} /\ mischarged = {}
      /\ panel = [t \in Tabs |-> NoPanel] /\ order = [t \in Tabs |-> NoOrder]
      /\ picked = [g \in Guests |-> board.seat[g].kit]
  BY DEF FloorPageInit
<1>6. \A g \in Guests : board.seat[g].turn \in Nat
  BY <1>4 DEF Seated
<1>7. \A t \in Tabs, g \in Guests :
        Abreast(g, shown[t].seat[g].turn, shown[t].seat[g].kit, board.seat, unseen)
  BY <1>5, <1>6 DEF Abreast
<1>8. RowsFit
  BY <1>3, <1>4, <1>5, <1>7 DEF RowsFit
<1>9. PanelsFit /\ WireFits /\ OrdersPend
  BY <1>5 DEF PanelsFit, WireFits, OrdersPend
<1>10. ServicesAreTheLastChoice
  BY <1>5 DEF ServicesAreTheLastChoice
<1>11. QED
  BY <1>5, <1>8, <1>9, <1>10 DEF FloorPageInv

-----------------------------------------------------------------------------
\* The board's services only change with a new choice, or by somebody who had not seen the last.
Moves(seat, next, U) ==
  \A g \in Guests : \/ next[g].turn = seat[g].turn + 1
                    \/ next[g].turn = seat[g].turn /\ (next[g].kit = seat[g].kit \/ g \in U)

LEMMA AbreastStays ==
  ASSUME NEW g \in Guests, NEW turn, NEW kit, NEW seat, NEW next, NEW U, NEW V, U \subseteq V,
         Moves(seat, next, V), seat[g].turn \in Nat, Abreast(g, turn, kit, seat, U)
  PROVE  Abreast(g, turn, kit, next, V)
<1>1. turn \in Nat /\ turn <= seat[g].turn /\ (turn = seat[g].turn => kit = seat[g].kit \/ g \in U)
  BY DEF Abreast
<1>2. CASE next[g].turn = seat[g].turn + 1
  <2>1. turn <= next[g].turn /\ turn # next[g].turn
    BY <1>1, <1>2
  <2>2. QED
    BY <1>1, <2>1 DEF Abreast
<1>3. CASE next[g].turn = seat[g].turn /\ (next[g].kit = seat[g].kit \/ g \in V)
  BY <1>1, <1>3 DEF Abreast
<1>4. QED
  BY <1>2, <1>3 DEF Moves

LEMMA FitsStays ==
  ASSUME NEW x, NEW seat, NEW next, NEW U, NEW V, U \subseteq V,
         Moves(seat, next, V), Seated(seat), Fits(x, seat, U)
  PROVE  Fits(x, next, V)
<1>1. x.kind = "checkout" => x.guest \in Guests
  BY DEF Fits
<1>2. ASSUME x.kind \in {"start", "service", "checkout"}, x.guest \in Guests
      PROVE  Abreast(x.guest, x.turn, IF x.chosen THEN next[x.guest].kit ELSE x.kit, next, V)
  <2> DEFINE g == x.guest
             kit == IF x.chosen THEN seat[g].kit ELSE x.kit
  <2>1. seat[g].turn \in Nat
    BY <1>2 DEF Seated
  <2>2. Abreast(g, x.turn, kit, seat, U)
    BY <1>2 DEF Fits
  <2>3. Abreast(g, x.turn, kit, next, V)
    BY <1>2, <2>1, <2>2, AbreastStays
  <2>4. QED
    BY <2>3 DEF Abreast
<1>3. QED
  BY <1>1, <1>2 DEF Fits

\* One request more, one less, or one that moved on.
LEMMA PendStays ==
  ASSUME NEW t \in Tabs, NEW w \in wire, Pending(t, {"drag"}) # {},
         \/ wire \ {w} \subseteq wire' /\ w \notin Pending(t, {"drag"})
         \/ wire \ {w} \subseteq wire' /\ \E y \in wire' : y.tab = w.tab /\ y.kind = w.kind
                                             /\ y.phase \in {"sent", "handled", "kept"}
  PROVE  Pending(t, {"drag"})' # {}
<1>1. PICK v \in wire : v.tab = t /\ v.kind = "drag" /\ v.phase \in {"sent", "handled", "kept"}
  BY DEF Pending
<1>2. \E y \in wire' : y.tab = t /\ y.kind = "drag" /\ y.phase \in {"sent", "handled", "kept"}
  BY <1>1 DEF Pending
<1>3. QED
  BY <1>2 DEF Pending

LEMMA PhaseOf ==
  ASSUME NEW w, Wirelike(w), NEW phase, NEW y, y = [w EXCEPT !.phase = phase]
  PROVE  /\ Wirelike(y) /\ y.tab = w.tab /\ y.kind = w.kind /\ y.guest = w.guest /\ y.kit = w.kit
         /\ y.turn = w.turn /\ y.chosen = w.chosen /\ y.phase = phase
  BY DEF Wirelike

\* A request moves on, and the board is left alone.
LEMMA MovesOn ==
  ASSUME FloorPageInv, NEW w \in wire, NEW y, wire' = (wire \ {w}) \cup {y} \/ wire' = wire \ {w},
         Wirelike(y), y.tab = w.tab, y.kind = w.kind, y.guest = w.guest, y.kit = w.kit,
         y.turn = w.turn, y.chosen = w.chosen,
         UNCHANGED <<board, unseen>>
  PROVE  WireFits'
<1>1. Wirelike(w) /\ Fits(w, board.seat, unseen)
  BY DEF FloorPageInv, WireFits
<1>2. Fits(y, board.seat, unseen)
  BY <1>1 DEF Fits
<1>3. \A v \in wire' : v = y \/ v \in wire
  OBVIOUS
<1>4. QED
  BY <1>2, <1>3 DEF FloorPageInv, WireFits

\* The list is the tablet's own while the drag is pending.
LEMMA OrdersSettle ==
  ASSUME FloorPageInv, NEW w \in wire, wire \ {w} \subseteq wire', Settled(w)
  PROVE  OrdersPend'
<1>1. order = [t \in Tabs |-> order[t]]
  BY DEF FloorPageInv, OrdersPend
<1>2. order' = [t \in Tabs |-> order'[t]]
  BY <1>1 DEF Settled
<1>3. ASSUME NEW t \in Tabs, order'[t] # NoOrder PROVE Pending(t, {"drag"})' # {}
  <2>1. order[t] # NoOrder /\ ~(w.kind = "drag" /\ w.tab = t)
    BY <1>1, <1>3 DEF Settled
  <2>2. Pending(t, {"drag"}) # {}
    BY <2>1 DEF FloorPageInv, OrdersPend
  <2>3. w \notin Pending(t, {"drag"})
    BY <2>1 DEF Pending
  <2>4. QED
    BY <2>2, <2>3, PendStays
<1>4. QED
  BY <1>2, <1>3 DEF OrdersPend

LEMMA OrdersKeep ==
  ASSUME FloorPageInv, UNCHANGED order,
         \/ wire \subseteq wire'
         \/ \E w \in wire : wire \ {w} \subseteq wire' /\ w.phase \notin {"sent", "handled", "kept"}
         \/ \E w \in wire : wire \ {w} \subseteq wire' /\ \E y \in wire' : y.tab = w.tab
               /\ y.kind = w.kind /\ y.phase \in {"sent", "handled", "kept"}
  PROVE  OrdersPend'
<1>1. ASSUME NEW t \in Tabs, order[t] # NoOrder PROVE Pending(t, {"drag"})' # {}
  <2>1. Pending(t, {"drag"}) # {}
    BY <1>1 DEF FloorPageInv, OrdersPend
  <2>2. CASE wire \subseteq wire'
    BY <2>1, <2>2 DEF Pending
  <2>3. ASSUME NEW w \in wire, wire \ {w} \subseteq wire', w.phase \notin {"sent", "handled", "kept"}
        PROVE  Pending(t, {"drag"})' # {}
    <3>1. w \notin Pending(t, {"drag"})
      BY <2>3 DEF Pending
    <3>2. QED
      BY <2>1, <2>3, <3>1, PendStays
  <2>4. ASSUME NEW w \in wire, wire \ {w} \subseteq wire', \E y \in wire' : y.tab = w.tab
               /\ y.kind = w.kind /\ y.phase \in {"sent", "handled", "kept"}
        PROVE  Pending(t, {"drag"})' # {}
    BY <2>1, <2>4, PendStays
  <2>5. QED
    BY <2>2, <2>3, <2>4
<1>2. QED
  BY <1>1 DEF FloorPageInv, OrdersPend

-----------------------------------------------------------------------------
\* A step that only changes what a tablet's panel holds.
LEMMA PanelStep ==
  ASSUME FloorPageInv, NEW t \in Tabs, NEW x, panel' = [panel EXCEPT ![t] = x],
         x = NoPanel \/ (Panellike(x) /\ Fits(x, board.seat, unseen)),
         UNCHANGED <<board, shown, order, wire, picked, mischarged, unseen>>
  PROVE  FloorPageInv'
<1>1. PanelsFit'
  <2>1. panel = [u \in Tabs |-> panel[u]]
    BY DEF FloorPageInv, PanelsFit
  <2>2. panel' = [u \in Tabs |-> panel'[u]] /\ panel'[t] = x
        /\ \A u \in Tabs : u # t => panel'[u] = panel[u]
    BY <2>1
  <2>3. QED
    BY <2>2 DEF FloorPageInv, PanelsFit
<1>2. QED
  BY <1>1 DEF FloorPageInv, RowsFit, WireFits, OrdersPend, Pending, ServicesAreTheLastChoice

LEMMA PanelIs ==
  ASSUME FloorPageInv, NEW t \in Tabs, panel[t] # NoPanel
  PROVE  Panellike(panel[t]) /\ Fits(panel[t], board.seat, unseen)
  BY DEF FloorPageInv, PanelsFit

LEMMA OpenPanelKeeps ==
  ASSUME FloorPageInv, NEW t \in Tabs, OpenPanel(t)
  PROVE  FloorPageInv'
<1>1. PICK kind \in PanelKinds : \E g \in Offered(t, kind) :
        panel' = [panel EXCEPT ![t] =
                   [kind |-> kind, guest |-> g, kit |-> shown[t].seat[g].kit,
                    turn |-> shown[t].seat[g].turn, chosen |-> FALSE, barbers |-> {}]]
  BY DEF OpenPanel
<1>0. PICK g \in Offered(t, kind) :
        panel' = [panel EXCEPT ![t] =
                   [kind |-> kind, guest |-> g, kit |-> shown[t].seat[g].kit,
                    turn |-> shown[t].seat[g].turn, chosen |-> FALSE, barbers |-> {}]]
  BY <1>1
<1>2. UNCHANGED <<board, shown, order, wire, picked, mischarged, unseen>>
  BY DEF OpenPanel
<1> DEFINE x == [kind |-> kind, guest |-> g, kit |-> shown[t].seat[g].kit,
                 turn |-> shown[t].seat[g].turn, chosen |-> FALSE, barbers |-> {}]
<1>3. Panellike(x)
  BY DEF Panellike
<1>4. kind = "checkout" => g \in Guests
  BY DEF Offered, With, PanelKinds
<1>5. g \in Guests => Abreast(g, shown[t].seat[g].turn, shown[t].seat[g].kit, board.seat, unseen)
  BY DEF FloorPageInv, RowsFit
<1>6. Fits(x, board.seat, unseen)
  BY <1>4, <1>5 DEF Fits
<1> HIDE DEF x
<1>7. QED
  BY <1>0, <1>2, <1>3, <1>6, PanelStep DEF x

LEMMA FetchBarbersKeeps ==
  ASSUME FloorPageInv, NEW t \in Tabs, FetchBarbers(t)
  PROVE  FloorPageInv'
<1> DEFINE x == [panel[t] EXCEPT !.barbers = Barbers \ board.busy]
<1>1. panel' = [panel EXCEPT ![t] = x]
  BY DEF FetchBarbers, FloorPageInv, PanelsFit
<1>2. panel[t] # NoPanel /\ UNCHANGED <<board, shown, order, wire, picked, mischarged, unseen>>
  BY DEF FetchBarbers
<1>3. Panellike(panel[t]) /\ Fits(panel[t], board.seat, unseen)
  BY <1>2, PanelIs
<1>4. Panellike(x) /\ Fits(x, board.seat, unseen)
  <2> SUFFICES ASSUME NEW p, NEW y, p = panel[t], NEW S, y = [p EXCEPT !.barbers = S]
               PROVE  Panellike(y) /\ Fits(y, board.seat, unseen)
    OBVIOUS
  <2>1. Panellike(p) /\ Fits(p, board.seat, unseen)
    BY <1>3
  <2>2. /\ Panellike(y) /\ y.kind = p.kind /\ y.guest = p.guest /\ y.kit = p.kit /\ y.turn = p.turn
        /\ y.chosen = p.chosen
    BY <2>1 DEF Panellike
  <2>3. QED
    BY <2>1, <2>2 DEF Fits
<1> HIDE DEF x
<1>5. QED
  BY <1>1, <1>2, <1>4, PanelStep

LEMMA PickServicesKeeps ==
  ASSUME FloorPageInv, NEW t \in Tabs, PickServices(t)
  PROVE  FloorPageInv'
<1>1. PICK k \in Kits \ {panel[t].kit} : panel' = [panel EXCEPT ![t].kit = k, ![t].chosen = TRUE]
  BY DEF PickServices
<1>2. panel[t] # NoPanel /\ UNCHANGED <<board, shown, order, wire, picked, mischarged, unseen>>
  BY DEF PickServices
<1> DEFINE x == [panel[t] EXCEPT !.kit = k, !.chosen = TRUE]
<1>3. panel' = [panel EXCEPT ![t] = x]
  BY <1>1 DEF FloorPageInv, PanelsFit
<1>4. Panellike(panel[t]) /\ Fits(panel[t], board.seat, unseen)
  BY <1>2, PanelIs
<1>5. Panellike(x) /\ Fits(x, board.seat, unseen)
  <2> SUFFICES ASSUME NEW p, NEW y, p = panel[t], y = [p EXCEPT !.kit = k, !.chosen = TRUE]
               PROVE  Panellike(y) /\ Fits(y, board.seat, unseen)
    OBVIOUS
  <2>1. Panellike(p) /\ Fits(p, board.seat, unseen)
    BY <1>4
  <2>2. /\ Panellike(y) /\ y.kind = p.kind /\ y.guest = p.guest /\ y.turn = p.turn /\ y.chosen = TRUE
    BY <2>1 DEF Panellike
  <2>3. QED
    BY <2>1, <2>2 DEF Fits, Abreast
<1> HIDE DEF x
<1>6. QED
  BY <1>2, <1>3, <1>5, PanelStep

LEMMA ClosePanelKeeps ==
  ASSUME FloorPageInv, NEW t \in Tabs, ClosePanel(t)
  PROVE  FloorPageInv'
<1>1. /\ panel' = [panel EXCEPT ![t] = NoPanel]
      /\ UNCHANGED <<board, shown, order, wire, picked, mischarged, unseen>>
  BY DEF ClosePanel
<1>2. QED
  BY <1>1, PanelStep

\* A request is sent.
LEMMA SendStep ==
  ASSUME FloorPageInv, NEW y, wire' = wire \cup {y}, Wirelike(y), Fits(y, board.seat, unseen),
         OrdersPend', UNCHANGED <<board, shown, panel, picked, mischarged, unseen>>
  PROVE  FloorPageInv'
<1>1. WireFits'
  BY DEF FloorPageInv, WireFits
<1>2. QED
  BY <1>1 DEF FloorPageInv, RowsFit, PanelsFit, ServicesAreTheLastChoice

LEMMA RequestIs ==
  ASSUME NEW t, NEW kind \in PanelKinds \cup TapKinds, NEW g, NEW b, NEW kit, NEW turn, NEW kept,
         NEW list, NEW y, y = Request(t, kind, g, b, kit, turn, kept, list)
  PROVE  /\ Wirelike(y) /\ y.tab = t /\ y.kind = kind /\ y.guest = g /\ y.kit = kit /\ y.turn = turn
         /\ y.chosen = kept /\ y.phase = "sent"
  BY DEF Request, Wirelike

LEMMA SubmitKeeps ==
  ASSUME FloorPageInv, NEW t \in Tabs, Submit(t)
  PROVE  FloorPageInv'
<1> DEFINE p == panel[t]
<1>1. PICK b : wire' = wire \cup {Request(t, p.kind, p.guest, b, p.kit, p.turn, p.chosen, NoOrder)}
  BY DEF Submit, KitOf
<1>2. p # NoPanel /\ UNCHANGED <<board, shown, panel, order, picked, mischarged, unseen>>
  BY DEF Submit
<1>3. Panellike(p) /\ Fits(p, board.seat, unseen)
  BY <1>2, PanelIs
<1>4. p.kind \in PanelKinds \cup TapKinds
  BY <1>3 DEF Panellike
<1> DEFINE y == Request(t, p.kind, p.guest, b, p.kit, p.turn, p.chosen, NoOrder)
<1> HIDE DEF p
<1>5. /\ Wirelike(y) /\ y.kind = p.kind /\ y.guest = p.guest /\ y.kit = p.kit /\ y.turn = p.turn
      /\ y.chosen = p.chosen
  BY <1>4, RequestIs
<1>6. wire' = wire \cup {y}
  BY <1>1
<1> HIDE DEF y
<1>7. Fits(y, board.seat, unseen)
  BY <1>3, <1>5 DEF Fits
<1>8. OrdersPend'
  BY <1>2, <1>6, OrdersKeep
<1>9. QED
  BY <1>2, <1>5, <1>6, <1>7, <1>8, SendStep

LEMMA TapKeeps ==
  ASSUME FloorPageInv, NEW t \in Tabs, Tap(t)
  PROVE  FloorPageInv'
<1>1. PICK kind \in TapKinds \ {"drag"} : \E g \in Offered(t, kind) :
        wire' = wire \cup {Request(t, kind, g, Nobody, board.seat[g].kit, 0, FALSE, NoOrder)}
  BY DEF Tap
<1>0. PICK g \in Offered(t, kind) :
        wire' = wire \cup {Request(t, kind, g, Nobody, board.seat[g].kit, 0, FALSE, NoOrder)}
  BY <1>1
<1>2. UNCHANGED <<board, shown, panel, order, picked, mischarged, unseen>>
  BY DEF Tap
<1> DEFINE y == Request(t, kind, g, Nobody, board.seat[g].kit, 0, FALSE, NoOrder)
<1>3. Wirelike(y) /\ y.kind \in TapKinds \ {"drag"}
  <2>1. kind \in PanelKinds \cup TapKinds
    OBVIOUS
  <2>2. Wirelike(y) /\ y.kind = kind
    BY <2>1 DEF Request, Wirelike
  <2>3. QED
    BY <2>2
<1>4. wire' = wire \cup {y}
  BY <1>0
<1> HIDE DEF y
<1>5. Fits(y, board.seat, unseen)
  BY <1>3 DEF Fits, TapKinds
<1>6. OrdersPend'
  BY <1>2, <1>4, OrdersKeep
<1>7. QED
  BY <1>2, <1>3, <1>4, <1>5, <1>6, SendStep

LEMMA DragKeeps ==
  ASSUME FloorPageInv, NEW t \in Tabs, Drag(t)
  PROVE  FloorPageInv'
<1>1. PICK g, list : /\ order' = [order EXCEPT ![t] = list]
                     /\ wire' = wire \cup {Request(t, "drag", g, Nobody, board.seat[g].kit, 0, FALSE,
                                                   order'[t])}
  BY DEF Drag
<1>2. UNCHANGED <<board, shown, panel, picked, mischarged, unseen>>
  BY DEF Drag
<1> DEFINE y == Request(t, "drag", g, Nobody, board.seat[g].kit, 0, FALSE, list)
<1>l. order'[t] = list
  BY <1>1 DEF FloorPageInv, OrdersPend
<1>3. Wirelike(y) /\ y.kind = "drag" /\ y.tab = t /\ y.phase = "sent"
  <2>1. "drag" \in PanelKinds \cup TapKinds
    BY DEF TapKinds
  <2>2. QED
    BY <2>1 DEF Request, Wirelike
<1>4. wire' = wire \cup {y}
  BY <1>1, <1>l
<1> HIDE DEF y
<1>5. Fits(y, board.seat, unseen)
  BY <1>3 DEF Fits
<1>6. OrdersPend'
  <2>1. order = [u \in Tabs |-> order[u]]
    BY DEF FloorPageInv, OrdersPend
  <2>2. order' = [u \in Tabs |-> order'[u]] /\ \A u \in Tabs : u # t => order'[u] = order[u]
    BY <1>1, <2>1
  <2>3. ASSUME NEW u \in Tabs, order'[u] # NoOrder PROVE Pending(u, {"drag"})' # {}
    <3>1. CASE u = t
      BY <1>3, <1>4, <3>1 DEF Pending
    <3>2. CASE u # t
      BY <1>4, <2>2, <2>3, <3>2 DEF Pending, FloorPageInv, OrdersPend
    <3>3. QED
      BY <3>1, <3>2
  <2>4. QED
    BY <2>2, <2>3 DEF OrdersPend
<1>7. QED
  BY <1>2, <1>3, <1>4, <1>5, <1>6, SendStep

-----------------------------------------------------------------------------
\* A request that moves on and leaves the board, and at most closes its panel.
LEMMA WireStep ==
  ASSUME FloorPageInv, WireFits', OrdersPend', UNCHANGED <<board, shown, picked, mischarged, unseen>>,
         panel' = panel \/ \E u : panel' = [panel EXCEPT ![u] = NoPanel]
  PROVE  FloorPageInv'
<1>1. PanelsFit'
  <2>1. panel = [t \in Tabs |-> panel[t]]
    BY DEF FloorPageInv, PanelsFit
  <2>2. panel' = [t \in Tabs |-> panel'[t]] /\ \A t \in Tabs : panel'[t] \in {panel[t], NoPanel}
    BY <2>1
  <2>3. QED
    BY <2>2 DEF FloorPageInv, PanelsFit
<1>2. QED
  BY <1>1 DEF FloorPageInv, RowsFit, ServicesAreTheLastChoice

LEMMA ServeKeeps ==
  ASSUME FloorPageInv, NEW w \in wire, Serve(w)
  PROVE  FloorPageInv'
<1> DEFINE s == board.seat[w.guest]
           n == PlaceFor(w.kind, w.guest)
           y == [w EXCEPT !.phase = "handled", !.read = s, !.place = n]
<1>1. /\ wire' = (wire \ {w}) \cup {y}
      /\ UNCHANGED <<board, shown, panel, order, picked, mischarged, unseen>>
  BY DEF Serve
<1>2. Wirelike(w)
  BY DEF FloorPageInv, WireFits
<1> HIDE DEF s, n
<1>3. /\ Wirelike(y) /\ y.tab = w.tab /\ y.kind = w.kind /\ y.guest = w.guest /\ y.kit = w.kit
      /\ y.turn = w.turn /\ y.chosen = w.chosen /\ y.phase = "handled"
  <2> SUFFICES ASSUME NEW x, x = y
               PROVE  /\ Wirelike(x) /\ x.tab = w.tab /\ x.kind = w.kind /\ x.guest = w.guest
                      /\ x.kit = w.kit /\ x.turn = w.turn /\ x.chosen = w.chosen
                      /\ x.phase = "handled"
    OBVIOUS
  <2>1. QED
    BY <1>2 DEF Wirelike
<1> HIDE DEF y
<1>4. WireFits'
  BY <1>1, <1>3, MovesOn
<1>5. OrdersPend'
  BY <1>1, <1>3, OrdersKeep
<1>6. QED
  BY <1>1, <1>4, <1>5, WireStep

\* What becomes of a request that moves to a phase, or that is over.
LEMMA ToIs ==
  ASSUME FloorPageInv, NEW w \in wire, NEW phase, To(w, phase)
  PROVE  /\ wire \ {w} \subseteq wire'
         /\ phase # "over" => \E y \in wire' : y.tab = w.tab /\ y.kind = w.kind /\ y.phase = phase
         /\ UNCHANGED <<board, unseen>> => WireFits'
         /\ \A v \in wire' : v \in wire \/ (Wirelike(v) /\ v.tab = w.tab /\ v.kind = w.kind
                                /\ v.guest = w.guest /\ v.kit = w.kit /\ v.turn = w.turn
                                /\ v.chosen = w.chosen)
<1> DEFINE y == [w EXCEPT !.phase = phase]
<1>1. Wirelike(w)
  BY DEF FloorPageInv, WireFits
<1>2. /\ Wirelike(y) /\ y.tab = w.tab /\ y.kind = w.kind /\ y.guest = w.guest /\ y.kit = w.kit
      /\ y.turn = w.turn /\ y.chosen = w.chosen /\ y.phase = phase
  BY <1>1, PhaseOf
<1>3. wire' = IF phase = "over" THEN wire \ {w} ELSE (wire \ {w}) \cup {y}
  BY DEF To
<1> HIDE DEF y
<1>4. UNCHANGED <<board, unseen>> => WireFits'
  BY <1>2, <1>3, MovesOn
<1>5. QED
  BY <1>2, <1>3, <1>4

LEMMA RefuseKeeps ==
  ASSUME FloorPageInv, NEW w \in wire, Refuse(w) \/ Lose(w)
  PROVE  FloorPageInv'
<1>1. PICK phase : To(w, phase)
  BY DEF Refuse, Lose
<1>2. Settled(w) /\ UNCHANGED <<board, shown, panel, picked, mischarged, unseen>>
  BY DEF Refuse, Lose, SettledOnLoss
<1>3. WireFits' /\ OrdersPend'
  BY <1>1, <1>2, ToIs, OrdersSettle
<1>4. QED
  BY <1>2, <1>3, WireStep

LEMMA TellKeeps ==
  ASSUME FloorPageInv, NEW w \in wire, Tell(w)
  PROVE  FloorPageInv'
<1>1. PICK phase : To(w, phase)
  BY DEF Tell
<1>2. Settled(w) /\ UNCHANGED <<board, shown, picked, mischarged, unseen>>
  BY DEF Tell
<1>3. panel' = panel \/ panel' = [panel EXCEPT ![w.tab] = NoPanel]
  BY DEF Tell
<1>4. WireFits' /\ OrdersPend'
  BY <1>1, <1>2, ToIs, OrdersSettle
<1>5. QED
  BY <1>2, <1>3, <1>4, WireStep

LEMMA RefetchKeeps ==
  ASSUME FloorPageInv, NEW t \in Tabs, Refetch(t) \/ Poll(t)
  PROVE  FloorPageInv'
<1>1. UNCHANGED <<board, panel, order, wire, picked, mischarged, unseen>>
  BY DEF Refetch, Poll
<1>2. shown = [u \in Tabs |-> shown[u]]
  BY DEF FloorPageInv, RowsFit
<1>3. shown' = [u \in Tabs |-> shown'[u]] /\ \A u \in Tabs : shown'[u] \in {shown[u], board}
  BY <1>2 DEF Refetch, Poll
<1>4. \A u \in Tabs, g \in Guests :
        Abreast(g, shown'[u].seat[g].turn, shown'[u].seat[g].kit, board.seat, unseen)
  <2> SUFFICES ASSUME NEW u \in Tabs, NEW g \in Guests
               PROVE  Abreast(g, shown'[u].seat[g].turn, shown'[u].seat[g].kit, board.seat, unseen)
    OBVIOUS
  <2>1. CASE shown'[u] = shown[u]
    BY <2>1 DEF FloorPageInv, RowsFit
  <2>2. CASE shown'[u] = board
    BY <2>2 DEF FloorPageInv, RowsFit, Seated, Abreast
  <2>3. QED
    BY <1>3, <2>1, <2>2
<1>5. RowsFit'
  BY <1>1, <1>3, <1>4 DEF FloorPageInv, RowsFit
<1>6. QED
  BY <1>1, <1>5 DEF FloorPageInv, PanelsFit, WireFits, OrdersPend, Pending, ServicesAreTheLastChoice

-----------------------------------------------------------------------------
\* What the COMMIT makes of the row it writes.
LEMMA RowAfterIs ==
  ASSUME NEW w, Wirelike(w), w.kind # "drag", Seatlike(board.seat[w.guest])
  PROVE  /\ Seatlike(RowAfter(w)) /\ RowAfter(w).turn = board.seat[w.guest].turn
         /\ RowAfter(w).kit = IF w.kind \in {"start", "service"} THEN w.kit
                              ELSE board.seat[w.guest].kit
<1> SUFFICES ASSUME NEW s, s = board.seat[w.guest], Seatlike(s)
             PROVE  /\ Seatlike(RowAfter(w)) /\ RowAfter(w).turn = s.turn
                    /\ RowAfter(w).kit = IF w.kind \in {"start", "service"} THEN w.kit ELSE s.kit
  OBVIOUS
<1>1. w.kind \in {"start", "service", "reassign", "checkout", "cancel", "noShow", "abandon", "arrive",
                  "ready", "unready", "top", "original", "checkIn"}
  BY DEF Wirelike, PanelKinds, TapKinds
<1>2. CASE w.kind = "start"
  <2>1. RowAfter(w) = [s EXCEPT !.status = "in_service", !.barber = w.barber, !.kit = w.kit,
                                !.ready = "auto"]
    BY <1>2 DEF RowAfter
  <2>2. QED
    BY <1>2, <2>1 DEF Seatlike
<1>3. CASE w.kind = "service"
  <2>1. RowAfter(w) = [s EXCEPT !.kit = w.kit]
    BY <1>3 DEF RowAfter
  <2>2. QED
    BY <1>3, <2>1 DEF Seatlike
<1>4. CASE w.kind = "reassign"
  <2>1. RowAfter(w) = [s EXCEPT !.barber = w.barber]
    BY <1>4 DEF RowAfter
  <2>2. QED
    BY <1>4, <2>1 DEF Seatlike
<1>5. CASE w.kind \in {"checkout", "cancel", "noShow", "abandon"}
  <2>1. RowAfter(w) = [s EXCEPT !.status = "gone"]
    BY <1>5 DEF RowAfter
  <2>2. QED
    BY <1>5, <2>1 DEF Seatlike
<1>6. CASE w.kind = "arrive"
  <2>1. RowAfter(w) = [s EXCEPT !.present = ~w.read.present,
                                !.ready = IF w.read.present THEN "auto" ELSE w.read.ready]
    BY <1>6 DEF RowAfter
  <2> DEFINE here  == ~w.read.present
             ready == IF w.read.present THEN "auto" ELSE w.read.ready
  <2>2. RowAfter(w) = [s EXCEPT !.present = here, !.ready = ready]
    BY <2>1
  <2> HIDE DEF here, ready
  <2>3. QED
    BY <1>6, <2>2 DEF Seatlike
<1>7. CASE w.kind = "ready"
  <2>1. RowAfter(w) = [s EXCEPT !.ready = "yes", !.present = TRUE]
    BY <1>7 DEF RowAfter
  <2>2. QED
    BY <1>7, <2>1 DEF Seatlike
<1>8. CASE w.kind = "unready"
  <2>1. RowAfter(w) = [s EXCEPT !.ready = "no", !.present = w.read.present]
    BY <1>8 DEF RowAfter
  <2>2. QED
    BY <1>8, <2>1 DEF Seatlike
<1>9. CASE w.kind \in {"top", "original"}
  <2>1. RowAfter(w) = [s EXCEPT !.status = "waiting", !.barber = Nobody, !.place = w.place]
    BY <1>9 DEF RowAfter
  <2>2. QED
    BY <1>9, <2>1 DEF Seatlike
<1>10. CASE w.kind = "checkIn"
  <2>1. RowAfter(w) = [s EXCEPT !.status = "waiting", !.place = w.place, !.first = w.place]
    BY <1>10 DEF RowAfter
  <2>2. QED
    BY <1>10, <2>1 DEF Seatlike
<1>11. QED
  BY <1>1, <1>2, <1>3, <1>4, <1>5, <1>6, <1>7, <1>8, <1>9, <1>10

\* What the COMMIT makes of the board.
LEMMA SeatsAre ==
  ASSUME FloorPageInv, NEW w \in wire, NEW g \in Guests
  PROVE  /\ Seatlike(Seats(w)[g])
         /\ Seats(w)[g].turn = IF g = w.guest /\ w.chosen /\ w.kind \in {"start", "service"}
                               THEN board.seat[g].turn + 1 ELSE board.seat[g].turn
         /\ Seats(w)[g].kit = IF g = w.guest /\ w.kind \in {"start", "service"} THEN w.kit
                              ELSE board.seat[g].kit
<1>1. Wirelike(w) /\ Seatlike(board.seat[g])
  BY DEF FloorPageInv, WireFits, RowsFit, Seated
<1>2. CASE w.kind = "drag"
  <2>1. Seats(w)[g] = board.seat[g] \/ \E n : Seats(w)[g] = [board.seat[g] EXCEPT !.place = n]
    BY <1>2 DEF Seats
  <2>2. CASE Seats(w)[g] = board.seat[g]
    BY <1>1, <1>2, <2>2
  <2>3. CASE \E n : Seats(w)[g] = [board.seat[g] EXCEPT !.place = n]
    <3>1. PICK n : Seats(w)[g] = [board.seat[g] EXCEPT !.place = n]
      BY <2>3
    <3>2. SUFFICES ASSUME NEW s, s = board.seat[g], Seatlike(s), NEW r, r = [s EXCEPT !.place = n]
                   PROVE  Seatlike(r) /\ r.turn = s.turn /\ r.kit = s.kit
      BY <1>1, <1>2, <3>1
    <3>3. QED
      BY <3>2 DEF Seatlike
  <2>4. QED
    BY <2>1, <2>2, <2>3
<1>3. CASE w.kind # "drag" /\ g # w.guest
  <2>1. Seats(w)[g] = board.seat[g]
    BY <1>3 DEF Seats, FloorPageInv, RowsFit
  <2>2. QED
    BY <1>1, <1>3, <2>1
<1>4. CASE w.kind # "drag" /\ g = w.guest
  <2> DEFINE a == RowAfter(w)
             n == IF w.chosen /\ w.kind \in {"start", "service"} THEN a.turn + 1 ELSE a.turn
             r == [a EXCEPT !.turn = n]
  <2>1. /\ Seatlike(a) /\ a.turn = board.seat[g].turn
        /\ a.kit = IF w.kind \in {"start", "service"} THEN w.kit ELSE board.seat[g].kit
    BY <1>1, <1>4, RowAfterIs
  <2>2. Seats(w)[g] = r
    BY <1>4 DEF Seats, FloorPageInv, RowsFit
  <2>3. n = IF w.chosen /\ w.kind \in {"start", "service"} THEN board.seat[g].turn + 1
            ELSE board.seat[g].turn
    BY <2>1
  <2> HIDE DEF a, n
  <2>4. Seatlike(r) /\ r.turn = n /\ r.kit = a.kit
    BY <2>1 DEF Seatlike
  <2> HIDE DEF r
  <2>5. QED
    BY <1>4, <2>1, <2>2, <2>3, <2>4
<1>5. QED
  BY <1>2, <1>3, <1>4

LEMMA CommitPageKeeps ==
  ASSUME FloorPageInv, NEW w \in wire, CommitPage(w)
  PROVE  FloorPageInv'
<1> DEFINE was == board.seat[w.guest]
           seat == Seats(w)
<1>1. /\ w.phase \in {"handled", "told", "lost"}
      /\ board' = [seat |-> seat, busy |-> Busy(w)]
      /\ To(w, IF w.phase = "handled" THEN "kept" ELSE "over")
      /\ picked' = IF w.kind \in {"start", "service"} /\ w.chosen
                   THEN [picked EXCEPT ![w.guest] = w.kit] ELSE picked
      /\ mischarged' = IF w.kind = "checkout" /\ ~w.chosen /\ w.kit # was.kit
                       THEN mischarged \cup {w.guest} ELSE mischarged
      /\ unseen' = IF w.kind \in {"start", "service", "checkout"} /\ w.turn # was.turn
                   THEN unseen \cup {w.guest} ELSE unseen
      /\ UNCHANGED <<shown, panel, order>>
  BY DEF CommitPage
<1>2. board'.seat = seat
  BY <1>1
<1>3. seat = [g \in Guests |-> seat[g]]
  <2>1. CASE w.kind = "drag"
    <3>1. \E F : seat = [g \in Guests |-> F[g]]
      <4> DEFINE S == [g \in Guests |-> IF g \in Range(w.list)
                         THEN [board.seat[g] EXCEPT !.place = CHOOSE i \in DOMAIN w.list : w.list[i] = g]
                         ELSE board.seat[g]]
      <4>1. seat = S
        BY <2>1 DEF Seats
      <4>2. DOMAIN S = Guests
        OBVIOUS
      <4>3. S = [g \in Guests |-> S[g]]
        OBVIOUS
      <4>4. QED
        BY <4>1, <4>3
    <3>2. QED
      BY <3>1
  <2>2. CASE w.kind # "drag"
    <3> DEFINE r == [RowAfter(w) EXCEPT !.turn =
                       IF w.chosen /\ w.kind \in {"start", "service"} THEN @ + 1 ELSE @]
    <3>1. seat = [board.seat EXCEPT ![w.guest] = r]
      BY <2>2 DEF Seats
    <3> HIDE DEF r, seat
    <3>2. board.seat = [g \in Guests |-> board.seat[g]]
      BY DEF FloorPageInv, RowsFit
    <3>3. QED
      BY <3>1, <3>2
  <2>3. QED
    BY <2>1, <2>2
<1>4. \A g \in Guests :
        /\ Seatlike(seat[g])
        /\ seat[g].turn = IF g = w.guest /\ w.chosen /\ w.kind \in {"start", "service"}
                          THEN board.seat[g].turn + 1 ELSE board.seat[g].turn
        /\ seat[g].kit = IF g = w.guest /\ w.kind \in {"start", "service"} THEN w.kit
                         ELSE board.seat[g].kit
  BY SeatsAre
<1>5. Fits(w, board.seat, unseen) /\ Seated(board.seat)
  BY DEF FloorPageInv, WireFits, RowsFit
<1>6. unseen \subseteq unseen'
  BY <1>1
<1> HIDE DEF seat
<1>7. \A g \in Guests : board.seat[g].turn \in Nat /\ seat[g].turn \in Nat
  BY <1>4, <1>5 DEF Seated
<1>8. ASSUME w.kind \in {"start", "service", "checkout"}, w.guest \in Guests, ~w.chosen,
             w.guest \notin unseen'
      PROVE  w.kit = was.kit
  <2>1. w.turn = was.turn
    BY <1>1, <1>8
  <2>2. Abreast(w.guest, w.turn, w.kit, board.seat, unseen)
    BY <1>5, <1>8 DEF Fits
  <2>3. QED
    BY <1>6, <1>8, <2>1, <2>2 DEF Abreast
<1>9. Moves(board.seat, seat, unseen')
  <2> SUFFICES ASSUME NEW g \in Guests
               PROVE  \/ seat[g].turn = board.seat[g].turn + 1
                      \/ /\ seat[g].turn = board.seat[g].turn
                         /\ seat[g].kit = board.seat[g].kit \/ g \in unseen'
    BY DEF Moves
  <2>1. CASE g = w.guest /\ w.kind \in {"start", "service"} /\ ~w.chosen
    BY <1>4, <1>8, <2>1
  <2>2. CASE ~(g = w.guest /\ w.kind \in {"start", "service"} /\ ~w.chosen)
    BY <1>4, <2>2
  <2>3. QED
    BY <2>1, <2>2
<1>10. RowsFit'
  <2>1. Seated(seat)
    BY <1>4, <1>7 DEF Seated
  <2>2. ASSUME NEW t \in Tabs, NEW g \in Guests
        PROVE  Abreast(g, shown[t].seat[g].turn, shown[t].seat[g].kit, seat, unseen')
    <3>1. Abreast(g, shown[t].seat[g].turn, shown[t].seat[g].kit, board.seat, unseen)
      BY DEF FloorPageInv, RowsFit
    <3>2. QED
      BY <1>6, <1>7, <1>9, <3>1, AbreastStays
  <2>3. shown = [t \in Tabs |-> shown[t]]
    BY DEF FloorPageInv, RowsFit
  <2>4. QED
    BY <1>1, <1>2, <1>3, <2>1, <2>2, <2>3 DEF RowsFit
<1>11. PanelsFit'
  <2>1. ASSUME NEW t \in Tabs, panel[t] # NoPanel
        PROVE  Panellike(panel[t]) /\ Fits(panel[t], seat, unseen')
    <3>1. Panellike(panel[t]) /\ Fits(panel[t], board.seat, unseen)
      BY <2>1, PanelIs
    <3>2. QED
      BY <1>5, <1>6, <1>9, <3>1, FitsStays
  <2>2. QED
    BY <1>1, <1>2, <2>1 DEF FloorPageInv, PanelsFit
<1>12. WireFits'
  <2> SUFFICES ASSUME NEW v \in wire' PROVE Wirelike(v) /\ Fits(v, seat, unseen')
    BY <1>2 DEF WireFits
  <2>1. Wirelike(v) /\ Fits(v, board.seat, unseen)
    <3>1. CASE v \in wire
      BY <3>1 DEF FloorPageInv, WireFits
    <3>2. CASE /\ Wirelike(v) /\ v.tab = w.tab /\ v.kind = w.kind /\ v.guest = w.guest
               /\ v.kit = w.kit /\ v.turn = w.turn /\ v.chosen = w.chosen
      BY <1>5, <3>2 DEF Fits
    <3>3. QED
      BY <1>1, <3>1, <3>2, ToIs
  <2>2. QED
    BY <1>5, <1>6, <1>9, <2>1, FitsStays
<1>13. OrdersPend'
  <2>1. wire \ {w} \subseteq wire'
    BY <1>1, ToIs
  <2>2. CASE w.phase = "handled"
    <3>1. To(w, "kept")
      BY <1>1, <2>2
    <3>2. \E y \in wire' : y.tab = w.tab /\ y.kind = w.kind /\ y.phase = "kept"
      BY <3>1, ToIs
    <3>3. QED
      BY <1>1, <2>1, <3>2, OrdersKeep
  <2>3. CASE w.phase # "handled"
    BY <1>1, <2>1, <2>3, OrdersKeep
  <2>4. QED
    BY <2>2, <2>3
<1>14. ServicesAreTheLastChoice'
  <2>1. mischarged' \subseteq unseen'
    <3>1. mischarged \subseteq unseen
      BY DEF FloorPageInv, ServicesAreTheLastChoice
    <3>2. CASE w.kind = "checkout" /\ ~w.chosen /\ w.kit # was.kit
      <4>1. w.guest \in Guests
        BY <1>5, <3>2 DEF Fits
      <4>2. w.guest \in unseen'
        BY <1>8, <3>2, <4>1
      <4>3. QED
        BY <1>1, <1>6, <3>1, <4>2
    <3>3. CASE ~(w.kind = "checkout" /\ ~w.chosen /\ w.kit # was.kit)
      BY <1>1, <1>6, <3>1, <3>3
    <3>4. QED
      BY <3>2, <3>3
  <2>2. ASSUME NEW g \in Guests, g \notin unseen' PROVE seat[g].kit = picked'[g]
    <3>1. board.seat[g].kit = picked[g] /\ picked = [h \in Guests |-> picked[h]]
      BY <1>6, <2>2 DEF FloorPageInv, ServicesAreTheLastChoice
    <3>2. CASE g = w.guest /\ w.kind \in {"start", "service"} /\ w.chosen
      BY <1>1, <1>4, <3>1, <3>2
    <3>3. CASE g = w.guest /\ w.kind \in {"start", "service"} /\ ~w.chosen
      BY <1>1, <1>4, <1>8, <2>2, <3>1, <3>3
    <3>4. CASE ~(g = w.guest /\ w.kind \in {"start", "service"})
      BY <1>1, <1>4, <3>1, <3>4
    <3>5. QED
      BY <3>2, <3>3, <3>4
  <2>3. QED
    BY <1>2, <2>1, <2>2 DEF ServicesAreTheLastChoice
<1>15. picked' = [g \in Guests |-> picked'[g]]
  BY <1>1 DEF FloorPageInv
<1>16. QED
  BY <1>10, <1>11, <1>12, <1>13, <1>14, <1>15 DEF FloorPageInv

-----------------------------------------------------------------------------
LEMMA FloorPageStep == FloorPageInv /\ [FloorPageNext]_pageVars => FloorPageInv'
<1> SUFFICES ASSUME FloorPageInv, [FloorPageNext]_pageVars PROVE FloorPageInv'
  OBVIOUS
<1>1. CASE UNCHANGED pageVars
  BY <1>1 DEF pageVars, FloorPageInv, RowsFit, PanelsFit, WireFits, OrdersPend, Pending,
              ServicesAreTheLastChoice
<1>2. ASSUME NEW t \in Tabs, OpenPanel(t) \/ FetchBarbers(t) \/ PickServices(t) \/ Submit(t)
                             \/ ClosePanel(t) \/ Tap(t) \/ Drag(t) \/ Refetch(t) \/ Poll(t)
      PROVE  FloorPageInv'
  BY <1>2, OpenPanelKeeps, FetchBarbersKeeps, PickServicesKeeps, SubmitKeeps, ClosePanelKeeps,
     TapKeeps, DragKeeps, RefetchKeeps
<1>3. ASSUME NEW w \in wire, Serve(w) \/ Refuse(w) \/ CommitPage(w) \/ Tell(w) \/ Lose(w)
      PROVE  FloorPageInv'
  BY <1>3, ServeKeeps, RefuseKeeps, CommitPageKeeps, TellKeeps
<1>4. QED
  BY <1>1, <1>2, <1>3 DEF FloorPageNext

LEMMA TabletsTell == FloorPageInv /\ PageTyped => FloorPageHolds
<1>1. FloorPageInv => HiddenOnlyByOwnDrag /\ ServicesAreTheLastChoice
  BY DEF FloorPageInv, OrdersPend, HiddenOnlyByOwnDrag, WaitingList
<1>2. PageTyped => CardsShareTheBarbers /\ OffersAreAccepted
  <2>1. PageTyped => Showing
    BY DEF PageTyped, Showing
  <2>2. QED
    BY <2>1, BarbersShared, OffersTaken
<1>3. QED
  BY <1>1, <1>2 DEF FloorPageHolds

\* What every tablet tells is so, whatever the tablets, the rows, the barbers, the services and the
\* requests under way: its list differs from the board it shows only while its own drag is
\* unanswered, its ready cards share out the free barbers, panels leave and charge the services chosen
\* last unless they were opened on a board from before that choice, and what it offers on a board that
\* is up to date is accepted (queue/page.tsx waitingList, readyMatches, handleDrop and the panels).
THEOREM TabletsHold == FloorPageSpec => []FloorPageHolds
  BY FloorPageStarts, FloorPageStep, PageTypedStarts, PageTypedStep, TabletsTell, PTL DEF FloorPageSpec

-----------------------------------------------------------------------------
(***************************************************************************)
(* JoinPage.  A join is pending only on a page that shows no spot, and     *)
(* what its requests were given is in flight until the page shows it; the  *)
(* rows of one client that are still in line are one.  The types say       *)
(* besides that whatever a phone shows or waits for is a row there is.     *)
(***************************************************************************)

\* A sequence of whatever is in it.
Listing(s) == s \in Seq(Range(s))

Pagelike(q) ==
  q = [step |-> q.step, mode |-> q.mode, people |-> q.people, told |-> q.told,
       ids |-> q.ids, appt |-> q.appt, urlIds |-> q.urlIds, urlAppt |-> q.urlAppt]

Joblike(j) ==
  /\ j.phase \in {"none", "sent", "refused", "done"}
  /\ j = IF j.phase = "done" THEN [phase |-> "done", left |-> j.left, got |-> j.got, spot |-> j.spot]
                             ELSE [phase |-> j.phase, left |-> j.left, got |-> j.got]
  /\ j.phase = "none" <=> j = NoJob
  /\ Listing(j.got)

Booklike(b) ==
  /\ b.phase \in {"none", "sent", "refused", "done"}
  /\ b.phase = "none" <=> b = NoBook
  /\ b.phase \in {"sent", "refused"} => b = [phase |-> b.phase, who |-> b.who, time |-> b.time]
  /\ b.phase = "done" => b.appt # NoAppt

\* What a page says it has done is in its URL.
Brought(q) ==
  \/ q.mode = "queue" /\ q.ids # <<>> /\ q.urlIds = q.ids /\ q.urlAppt = NoAppt
  \/ q.mode = "appointment" /\ q.appt # NoAppt /\ q.urlAppt = q.appt /\ q.urlIds = <<>>

\* How the page of a phone fits what it has under way: a join is pending only on a page that shows no
\* spot, and unless something else was begun meanwhile in the mode it was begun in.
Fit(p, q, j, b, C) ==
  /\ q.step # "confirmed" => q.ids = <<>> /\ q.urlIds = <<>>
  /\ q.urlIds = <<>> \/ q.urlIds = q.ids
  /\ q.ids # <<>> => p \in C \/ q.urlIds = q.ids
  /\ j # NoJob => q.ids = <<>> /\ q.urlIds = <<>>
  /\ b # NoBook => q.ids = <<>> \/ p \in C
  /\ b # NoBook /\ j # NoJob => p \in C
  /\ j # NoJob => p \in C \/ q.mode = "queue"
  /\ b # NoBook => p \in C \/ (q.mode = "appointment" /\ q.step # "confirmed")
  /\ q.step = "confirmed" => p \in C \/ Brought(q)

\* The spots a phone knows of.
Has(q, j) ==
  Range(q.ids) \cup Range(q.urlIds) \cup Range(j.got) \cup (IF j.phase = "done" THEN {j.spot} ELSE {})

Tables ==
  /\ page = [p \in Phones |-> page[p]]
  /\ joining = [p \in Phones |-> joining[p]]
  /\ booking = [p \in Phones |-> booking[p]]

PhonesFit ==
  \A p \in Phones : /\ Pagelike(page[p]) /\ Joblike(joining[p]) /\ Booklike(booking[p])
                    /\ Fit(p, page[p], joining[p], booking[p], crossed)

Spotlike(s) == s = [who |-> s.who, status |-> s.status] /\ s.status \in {"waiting", "in_service", "gone"}

OneLive ==
  \A i, k \in DOMAIN spots :
    (spots[i].who = spots[k].who /\ spots[i].status # "gone" /\ spots[k].status # "gone") => i = k

JoinInv ==
  /\ Tables /\ PhonesFit /\ SpotsAreKept
  /\ Listing(spots) /\ Listing(appts) /\ (\A i \in DOMAIN spots : Spotlike(spots[i])) /\ OneLive

-----------------------------------------------------------------------------
LEMMA NothingListed == Listing(<<>>) /\ Range(<<>>) = {} /\ DOMAIN <<>> = {}
  BY DEF Listing, Range

LEMMA ListingAppend ==
  ASSUME NEW s, Listing(s), NEW e
  PROVE  /\ Listing(Append(s, e)) /\ Range(Append(s, e)) = Range(s) \cup {e}
         /\ Append(s, e) # <<>> /\ Len(s) + 1 # 0 /\ Len(s) \in Nat
         /\ DOMAIN s = 1..Len(s) /\ DOMAIN Append(s, e) = 1..(Len(s) + 1)
         /\ Append(s, e)[Len(s) + 1] = e /\ \A i \in 1..Len(s) : Append(s, e)[i] = s[i]
<1> DEFINE S == Range(s) \cup {e}
           a == Append(s, e)
<1>1. s \in Seq(Range(s))
  BY DEF Listing
<1>2. s \in Seq(S)
  BY <1>1, SeqMonotonic
<1>3. Len(s) \in Nat /\ DOMAIN s = 1..Len(s)
  BY <1>2, LenProperties
<1>4. e \in S
  OBVIOUS
<1> HIDE DEF S
<1>5. /\ a \in Seq(S) /\ Len(a) = Len(s) + 1
      /\ a[Len(s) + 1] = e /\ \A i \in 1..Len(s) : a[i] = s[i]
  BY <1>2, <1>3, <1>4
<1>6. DOMAIN a = 1..(Len(s) + 1)
  BY <1>5, LenProperties
<1>7. Range(a) = Range(s) \cup {e}
  <2>1. \A i \in DOMAIN a : i = Len(s) + 1 \/ i \in DOMAIN s
    BY <1>3, <1>6
  <2>2. Len(s) + 1 \in DOMAIN a /\ DOMAIN s \subseteq DOMAIN a
    BY <1>3, <1>6
  <2> HIDE DEF a
  <2>3. QED
    BY <1>3, <1>5, <2>1, <2>2 DEF Range
<1>8. Listing(a)
  BY <1>5, <1>7 DEF Listing, S
<1>9. a # <<>>
  BY <1>3, <1>5
<1>10. QED
  BY <1>3, <1>5, <1>6, <1>7, <1>8, <1>9

LEMMA ListingExcept ==
  ASSUME NEW s, Listing(s), NEW i \in DOMAIN s, NEW e
  PROVE  Listing([s EXCEPT ![i] = e]) /\ DOMAIN [s EXCEPT ![i] = e] = DOMAIN s
<1> DEFINE S == Range(s) \cup {e}
           a == [s EXCEPT ![i] = e]
<1>1. s \in Seq(S)
  BY SeqMonotonic DEF Listing
<1>2. Len(s) \in Nat /\ DOMAIN s = 1..Len(s)
  BY <1>1, LenProperties
<1>3. a \in Seq(S) /\ Len(a) = Len(s)
  BY <1>1, <1>2, ExceptSeq
<1>4. a \in Seq(Range(a))
  <2>1. a \in [1..Len(s) -> S] /\ DOMAIN a = 1..Len(s)
    BY <1>3, LenProperties
  <2> HIDE DEF a
  <2>2. a \in [1..Len(s) -> Range(a)]
    BY <2>1 DEF Range
  <2>3. QED
    BY <1>2, <2>2, SeqDef
<1>5. QED
  BY <1>2, <1>3, <1>4 DEF Listing

LEMMA JoinStarts == JoinPageInit => JoinInv
<1> SUFFICES ASSUME JoinPageInit PROVE JoinInv
  OBVIOUS
<1>1. /\ page = [p \in Phones |-> Landing] /\ joining = [p \in Phones |-> NoJob]
      /\ booking = [p \in Phones |-> NoBook] /\ spots = <<>> /\ appts = <<>>
  BY DEF JoinPageInit
<1>2. Tables
  BY <1>1 DEF Tables
<1>3. PhonesFit
  <2>1. Pagelike(Landing)
    BY DEF Pagelike, Landing
  <2>2. Joblike(NoJob) /\ Booklike(NoBook)
    BY NothingListed DEF Joblike, NoJob, Booklike, NoBook
  <2>3. \A p : Fit(p, Landing, NoJob, NoBook, crossed)
    BY DEF Fit, Landing
  <2>4. QED
    BY <1>1, <2>1, <2>2, <2>3 DEF PhonesFit
<1>4. Listing(spots) /\ Listing(appts) /\ DOMAIN spots = {}
  BY <1>1, NothingListed
<1>5. SpotsAreKept /\ OneLive /\ \A i \in DOMAIN spots : Spotlike(spots[i])
  BY <1>4 DEF SpotsAreKept, OneLive
<1>6. QED
  BY <1>2, <1>3, <1>4, <1>5 DEF JoinInv

\* A step of one phone that puts nobody in line: what it knew of it still knows, or left astray.
LEMMA PhoneStepAppts ==
  ASSUME JoinInv, NEW p \in Phones, NEW q, NEW j, NEW b,
         page' = [page EXCEPT ![p] = q], joining' = [joining EXCEPT ![p] = j],
         booking' = [booking EXCEPT ![p] = b],
         UNCHANGED spots, Listing(appts'), astray \subseteq astray',
         \A u \in Phones : u # p => (u \in crossed' <=> u \in crossed),
         Pagelike(q), Joblike(j), Booklike(b), Fit(p, q, j, b, crossed'),
         Has(page[p], joining[p]) \subseteq Has(q, j) \cup astray'
  PROVE  JoinInv'
<1>1. Tables
  BY DEF JoinInv
<1>2. Tables'
  BY <1>1 DEF Tables
<1>3. /\ page'[p] = q /\ joining'[p] = j /\ booking'[p] = b
      /\ \A u \in Phones : u # p => /\ page'[u] = page[u] /\ joining'[u] = joining[u]
                                    /\ booking'[u] = booking[u]
  BY <1>1 DEF Tables
<1>4. PhonesFit'
  <2> SUFFICES ASSUME NEW u \in Phones
               PROVE  /\ Pagelike(page'[u]) /\ Joblike(joining'[u]) /\ Booklike(booking'[u])
                      /\ Fit(u, page'[u], joining'[u], booking'[u], crossed')
    BY DEF PhonesFit
  <2>1. CASE u = p
    BY <1>3, <2>1
  <2>2. CASE u # p
    <3>1. /\ Pagelike(page[u]) /\ Joblike(joining[u]) /\ Booklike(booking[u])
          /\ Fit(u, page[u], joining[u], booking[u], crossed)
      BY DEF JoinInv, PhonesFit
    <3>2. Fit(u, page[u], joining[u], booking[u], crossed')
      BY <2>2, <3>1 DEF Fit
    <3>3. QED
      BY <1>3, <2>2, <3>1, <3>2
  <2>3. QED
    BY <2>1, <2>2
<1>5. SpotsAreKept'
  <2> SUFFICES ASSUME NEW i \in DOMAIN spots, i \notin astray'
               PROVE  \E u \in Phones : i \in Has(page'[u], joining'[u])
    BY DEF SpotsAreKept, Has, InFlight
  <2>1. PICK u \in Phones : i \in Has(page[u], joining[u])
    BY DEF JoinInv, SpotsAreKept, Has, InFlight
  <2>2. CASE u = p
    BY <1>3, <2>1, <2>2
  <2>3. CASE u # p
    BY <1>3, <2>1, <2>3
  <2>4. QED
    BY <2>2, <2>3
<1>6. QED
  BY <1>2, <1>4, <1>5 DEF JoinInv, Spotlike, OneLive

\* The same, when the appointments are left alone too.
LEMMA PhoneStep ==
  ASSUME JoinInv, NEW p \in Phones, NEW q, NEW j, NEW b,
         page' = [page EXCEPT ![p] = q], joining' = [joining EXCEPT ![p] = j],
         booking' = [booking EXCEPT ![p] = b],
         UNCHANGED <<spots, appts>>, astray \subseteq astray',
         \A u \in Phones : u # p => (u \in crossed' <=> u \in crossed),
         Pagelike(q), Joblike(j), Booklike(b), Fit(p, q, j, b, crossed'),
         Has(page[p], joining[p]) \subseteq Has(q, j) \cup astray'
  PROVE  JoinInv'
<1>1. Listing(appts')
  BY DEF JoinInv
<1>2. QED
  BY <1>1, PhoneStepAppts

\* The same, when what is pending does not change.
LEMMA PageStep ==
  ASSUME JoinInv, NEW p \in Phones, NEW q,
         page' = [page EXCEPT ![p] = q], UNCHANGED <<joining, booking, spots, appts, astray>>,
         \A u \in Phones : u # p => (u \in crossed' <=> u \in crossed),
         Pagelike(q), Fit(p, q, joining[p], booking[p], crossed'),
         q.ids = page[p].ids /\ q.urlIds = page[p].urlIds
  PROVE  JoinInv'
<1>1. joining' = [joining EXCEPT ![p] = joining[p]] /\ booking' = [booking EXCEPT ![p] = booking[p]]
  <2>1. joining = [u \in Phones |-> joining[u]] /\ booking = [u \in Phones |-> booking[u]]
    BY DEF JoinInv, Tables
  <2>2. QED
    BY <2>1
<1>2. Joblike(joining[p]) /\ Booklike(booking[p])
  BY DEF JoinInv, PhonesFit
<1>3. Has(page[p], joining[p]) \subseteq Has(q, joining[p]) \cup astray'
  BY DEF Has
<1>4. QED
  BY <1>1, <1>2, <1>3, PhoneStep

\* What a phone's page is and how it fits, spelled out.
LEMMA PhoneIs ==
  ASSUME JoinInv, NEW p \in Phones
  PROVE  /\ Pagelike(page[p]) /\ Joblike(joining[p]) /\ Booklike(booking[p])
         /\ Fit(p, page[p], joining[p], booking[p], crossed)
         /\ page = [u \in Phones |-> page[u]] /\ joining = [u \in Phones |-> joining[u]]
         /\ booking = [u \in Phones |-> booking[u]]
  BY DEF JoinInv, PhonesFit, Tables

\* What the page's own changes leave of it.
Alike(x, y) ==
  Pagelike(y) /\ y.ids = x.ids /\ y.appt = x.appt /\ y.urlIds = x.urlIds /\ y.urlAppt = x.urlAppt

LEMMA ListedPage ==
  ASSUME NEW x, Pagelike(x), NEW list, NEW y, y = [x EXCEPT !.people = list]
  PROVE  Alike(x, y) /\ y.step = x.step /\ y.mode = x.mode
  BY DEF Pagelike, Alike

LEMMA SteppedPage ==
  ASSUME NEW x, Pagelike(x), NEW step, NEW y, y = [x EXCEPT !.step = step]
  PROVE  Alike(x, y) /\ y.step = step /\ y.mode = x.mode
  BY DEF Pagelike, Alike

LEMMA ToldPage ==
  ASSUME NEW x, Pagelike(x), NEW told, NEW y, y = [x EXCEPT !.told = told]
  PROVE  Alike(x, y) /\ y.step = x.step /\ y.mode = x.mode
  BY DEF Pagelike, Alike

LEMMA CrossesOnlySelf ==
  ASSUME NEW p \in Phones, Crosses(p)
  PROVE  /\ \A u \in Phones : u # p => (u \in crossed' <=> u \in crossed)
         /\ joining[p] # NoJob \/ booking[p] # NoBook => p \in crossed'
         /\ p \in crossed => p \in crossed'
<1>1. crossed' = IF Idle(p) THEN crossed ELSE crossed \cup {p}
  BY DEF Crosses
<1>2. QED
  BY <1>1 DEF Idle

LEMMA EnterFlowKeeps ==
  ASSUME JoinInv, NEW p \in Phones, EnterFlow(p)
  PROVE  JoinInv'
<1>1. PICK mode, list :
        page' = [page EXCEPT ![p].step = "details", ![p].mode = mode, ![p].people = list]
  BY DEF EnterFlow
<1>2. page[p].step = "landing" /\ Crosses(p) /\ UNCHANGED <<spots, appts, joining, booking, astray>>
  BY DEF EnterFlow, server
<1> DEFINE q == [page[p] EXCEPT !.step = "details", !.mode = mode, !.people = list]
<1>3. page' = [page EXCEPT ![p] = q]
  BY <1>1, PhoneIs
<1>x. q = [page[p] EXCEPT !.step = "details", !.mode = mode, !.people = list]
  OBVIOUS
<1> HIDE DEF q
<1>y. Pagelike(page[p])
  BY PhoneIs
<1>4. Alike(page[p], q) /\ q.step = "details" /\ q.mode = mode
  <2> SUFFICES ASSUME NEW x, x = page[p], Pagelike(x), q = [x EXCEPT !.step = "details", !.mode = mode, !.people = list]
               PROVE  Alike(x, q) /\ q.step = "details" /\ q.mode = mode
    BY <1>x, <1>y
  <2>1. QED
    BY DEF Pagelike, Alike
<1>5. Pagelike(q) /\ q.ids = page[p].ids /\ q.urlIds = page[p].urlIds
  BY <1>4 DEF Alike
<1>6. Fit(p, q, joining[p], booking[p], crossed')
  BY <1>2, <1>4, <1>5, PhoneIs, CrossesOnlySelf DEF Fit, Alike
<1>7. QED
  BY <1>2, <1>3, <1>5, <1>6, CrossesOnlySelf, PageStep

\* A change of the list of people.
LEMMA ListKeeps ==
  ASSUME JoinInv, NEW p \in Phones, NEW list,
         page' = [page EXCEPT ![p] = [page[p] EXCEPT !.people = list]],
         UNCHANGED <<joining, booking, spots, appts, astray, crossed>>
  PROVE  JoinInv'
<1> DEFINE q == [page[p] EXCEPT !.people = list]
<1>1. page' = [page EXCEPT ![p] = q]
  OBVIOUS
<1>x. q = [page[p] EXCEPT !.people = list]
  OBVIOUS
<1> HIDE DEF q
<1>y. Pagelike(page[p])
  BY PhoneIs
<1>z. Alike(page[p], q) /\ q.step = page[p].step /\ q.mode = page[p].mode
  BY <1>x, <1>y, ListedPage
<1>2. /\ Pagelike(q) /\ q.ids = page[p].ids /\ q.urlIds = page[p].urlIds /\ q.step = page[p].step
      /\ q.mode = page[p].mode /\ q.appt = page[p].appt /\ q.urlAppt = page[p].urlAppt
  BY <1>z DEF Alike
<1>3. Fit(p, q, joining[p], booking[p], crossed')
  BY <1>2, PhoneIs DEF Fit, Brought
<1>4. QED
  BY <1>1, <1>2, <1>3, PageStep

LEMMA PickKeeps ==
  ASSUME JoinInv, NEW p \in Phones, Pick(p) \/ AddPerson(p)
  PROVE  JoinInv'
<1>1. UNCHANGED <<joining, booking, spots, appts, astray, crossed>>
  BY DEF Pick, AddPerson, server
<1>2. \E list : page' = [page EXCEPT ![p].people = list]
  <2>1. CASE Pick(p)
    <3>1. PICK i \in DOMAIN page[p].people :
            page' = [page EXCEPT ![p].people =
                  Marked(@, IF page[p].mode # "queue" THEN {i}
                            ELSE IF i \in Picked(p) THEN Picked(p) \ {i} ELSE Picked(p) \cup {i})]
      BY <2>1 DEF Pick
    <3>2. QED
      BY <3>1
  <2>2. CASE AddPerson(p)
    <3>1. PICK n \in Folk :
            page' = [page EXCEPT ![p].people =
                  IF \E i \in DOMAIN @ : @[i].name = n
                  THEN Marked(@, {i \in DOMAIN @ : i \in Picked(p) \/ @[i].name = n})
                  ELSE Append(@, Person(n, FALSE, TRUE))]
      BY <2>2 DEF AddPerson
    <3>2. QED
      BY <3>1
  <2>3. QED
    BY <2>1, <2>2
<1>3. PICK list : page' = [page EXCEPT ![p].people = list]
  BY <1>2
<1>4. page' = [page EXCEPT ![p] = [page[p] EXCEPT !.people = list]]
  BY <1>3, PhoneIs
<1>5. QED
  BY <1>1, <1>4, ListKeeps

LEMMA SwitchModeKeeps ==
  ASSUME JoinInv, NEW p \in Phones, SwitchMode(p)
  PROVE  JoinInv'
<1>1. \E mode, list : page' = [page EXCEPT ![p].mode = mode, ![p].people = list]
  BY DEF SwitchMode
<1>2. page[p].step = "details" /\ Crosses(p) /\ UNCHANGED <<spots, appts, joining, booking, astray>>
  BY DEF SwitchMode, server
<1>3. PICK mode, list : page' = [page EXCEPT ![p].mode = mode, ![p].people = list]
  BY <1>1
<1> DEFINE q == [page[p] EXCEPT !.mode = mode, !.people = list]
<1>4. page' = [page EXCEPT ![p] = q]
  BY <1>3, PhoneIs
<1>x. q = [page[p] EXCEPT !.mode = mode, !.people = list]
  OBVIOUS
<1> HIDE DEF q
<1>y. Pagelike(page[p])
  BY PhoneIs
<1>z. Alike(page[p], q) /\ q.step = page[p].step /\ q.mode = mode
  <2> SUFFICES ASSUME NEW x, x = page[p], Pagelike(x), q = [x EXCEPT !.mode = mode, !.people = list]
               PROVE  Alike(x, q) /\ q.step = x.step /\ q.mode = mode
    BY <1>x, <1>y
  <2>1. QED
    BY DEF Pagelike, Alike
<1>5. Pagelike(q) /\ q.ids = page[p].ids /\ q.urlIds = page[p].urlIds /\ q.step = page[p].step
  BY <1>z DEF Alike
<1>6. Fit(p, q, joining[p], booking[p], crossed')
  BY <1>2, <1>5, PhoneIs, CrossesOnlySelf DEF Fit
<1>7. QED
  BY <1>2, <1>4, <1>5, <1>6, CrossesOnlySelf, PageStep

LEMMA BackKeeps ==
  ASSUME JoinInv, NEW p \in Phones, Back(p)
  PROVE  JoinInv'
<1>1. page[p].step = "details" /\ page' = [page EXCEPT ![p].step = "landing"]
      /\ UNCHANGED <<spots, appts, joining, booking, astray, crossed>>
  BY DEF Back, server
<1> DEFINE q == [page[p] EXCEPT !.step = "landing"]
<1>2. page' = [page EXCEPT ![p] = q]
  BY <1>1, PhoneIs
<1>x. q = [page[p] EXCEPT !.step = "landing"]
  OBVIOUS
<1> HIDE DEF q
<1>y. Pagelike(page[p])
  BY PhoneIs
<1>z. Alike(page[p], q) /\ q.step = "landing" /\ q.mode = page[p].mode
  BY <1>x, <1>y, SteppedPage
<1>3. /\ Pagelike(q) /\ q.ids = page[p].ids /\ q.urlIds = page[p].urlIds /\ q.step = "landing"
      /\ q.mode = page[p].mode
  BY <1>z DEF Alike
<1>4. Fit(p, q, joining[p], booking[p], crossed')
  BY <1>1, <1>3, PhoneIs DEF Fit
<1>5. QED
  BY <1>1, <1>2, <1>3, <1>4, PageStep

-----------------------------------------------------------------------------
LEMMA JoinKeeps ==
  ASSUME JoinInv, NEW p \in Phones, Join(p)
  PROVE  JoinInv'
<1> DEFINE q == [page[p] EXCEPT !.told = FALSE]
           j == [phase |-> "sent", left |-> Selected(p), got |-> <<>>]
<1>1. /\ page[p].step = "details" /\ page[p].mode = "queue" /\ joining[p] = NoJob
      /\ joining' = [joining EXCEPT ![p] = j] /\ Crosses(p)
      /\ UNCHANGED <<spots, appts, booking, astray>>
  BY DEF Join, server
<1>2. page' = [page EXCEPT ![p] = q]
  BY PhoneIs DEF Join
<1>3. booking' = [booking EXCEPT ![p] = booking[p]]
  BY <1>1, PhoneIs
<1>4. Joblike(j) /\ j.got = <<>> /\ j.phase = "sent"
  BY NothingListed DEF Joblike, NoJob
<1>5. q = [page[p] EXCEPT !.told = FALSE] /\ Pagelike(page[p])
  BY PhoneIs
<1> HIDE DEF q, j
<1>6. Alike(page[p], q) /\ q.step = page[p].step /\ q.mode = page[p].mode
  BY <1>5, ToldPage
<1>7. Fit(p, q, j, booking[p], crossed')
  BY <1>1, <1>6, PhoneIs, CrossesOnlySelf DEF Fit, Alike
<1>8. Has(page[p], joining[p]) \subseteq Has(q, j) \cup astray'
  BY <1>1, <1>4, <1>6 DEF Has, Alike, NoJob
<1>9. Booklike(booking[p])
  BY PhoneIs
<1>10. QED
  BY <1>1, <1>2, <1>3, <1>4, <1>6, <1>7, <1>8, <1>9, CrossesOnlySelf, PhoneStep DEF Alike

\* A join ends: whoever is in line is on the page and in its URL.
LEMMA FinishKeeps ==
  ASSUME JoinInv, NEW p \in Phones, NEW got, NEW failed, joining[p] # NoJob, Finish(p, got, failed),
         joining' = [joining EXCEPT ![p] = NoJob], UNCHANGED <<spots, appts, booking, crossed>>,
         astray \subseteq astray',
         Range(joining[p].got) \cup (IF joining[p].phase = "done" THEN {joining[p].spot} ELSE {})
           \subseteq Range(got) \cup astray'
  PROVE  JoinInv'
<1> DEFINE q == IF got = <<>> THEN [page[p] EXCEPT !.told = failed]
                ELSE [page[p] EXCEPT !.told = failed, !.ids = got, !.urlIds = got, !.urlAppt = NoAppt,
                                     !.step = "confirmed"]
<1>1. page' = [page EXCEPT ![p] = q]
  BY DEF Finish
<1>2. booking' = [booking EXCEPT ![p] = booking[p]]
  BY PhoneIs
<1>3. Joblike(NoJob) /\ NoJob.got = <<>> /\ NoJob.phase = "none"
  BY NothingListed DEF Joblike, NoJob
<1>4. Pagelike(page[p]) /\ Booklike(booking[p]) /\ Fit(p, page[p], joining[p], booking[p], crossed)
  BY PhoneIs
<1>5. page[p].ids = <<>> /\ page[p].urlIds = <<>>
  BY <1>4 DEF Fit
<1>6. CASE got = <<>>
  <2>1. q = [page[p] EXCEPT !.told = failed]
    BY <1>6
  <2> HIDE DEF q
  <2>2. Alike(page[p], q) /\ q.step = page[p].step /\ q.mode = page[p].mode
    BY <1>4, <2>1, ToldPage
  <2>3. Fit(p, q, NoJob, booking[p], crossed')
    BY <1>4, <2>2 DEF Fit, Alike, Brought
  <2>4. Has(page[p], joining[p]) \subseteq Has(q, NoJob) \cup astray'
    BY <1>5, <1>6, NothingListed DEF Has
  <2>5. QED
    BY <1>1, <1>2, <1>3, <1>4, <2>2, <2>3, <2>4, PhoneStep DEF Alike
<1>7. CASE got # <<>>
  <2>1. q = [page[p] EXCEPT !.told = failed, !.ids = got, !.urlIds = got, !.urlAppt = NoAppt,
                            !.step = "confirmed"]
    BY <1>7
  <2> HIDE DEF q
  <2>2. /\ Pagelike(q) /\ q.ids = got /\ q.urlIds = got /\ q.urlAppt = NoAppt /\ q.step = "confirmed"
        /\ q.mode = page[p].mode
    <3> SUFFICES ASSUME NEW x, x = page[p], Pagelike(x),
                        q = [x EXCEPT !.told = failed, !.ids = got, !.urlIds = got, !.urlAppt = NoAppt,
                                      !.step = "confirmed"]
                 PROVE  /\ Pagelike(q) /\ q.ids = got /\ q.urlIds = got /\ q.urlAppt = NoAppt
                        /\ q.step = "confirmed" /\ q.mode = x.mode
      BY <1>4, <2>1
    <3>1. QED
      BY DEF Pagelike
  <2>3. Fit(p, q, NoJob, booking[p], crossed')
    BY <1>4, <1>7, <2>2 DEF Fit, Brought
  <2>4. Has(page[p], joining[p]) \subseteq Has(q, NoJob) \cup astray'
    BY <1>5, <2>2, NothingListed DEF Has
  <2>5. QED
    BY <1>1, <1>2, <1>3, <1>4, <2>2, <2>3, <2>4, PhoneStep
<1>8. QED
  BY <1>6, <1>7

LEMMA AnswerJoinKeeps ==
  ASSUME JoinInv, NEW p \in Phones, AnswerJoin(p)
  PROVE  JoinInv'
<1> DEFINE j   == joining[p]
           got == Append(j.got, j.spot)
<1>1. j.phase \in {"done", "refused"} /\ UNCHANGED <<spots, appts, booking, astray, crossed>>
  BY DEF AnswerJoin, server
<1>2. Joblike(j) /\ j # NoJob
  BY <1>1, PhoneIs DEF NoJob
<1>3. Listing(got) /\ Range(got) = Range(j.got) \cup {j.spot}
  BY <1>2, ListingAppend DEF Joblike
<1>4. CASE j.phase = "done" /\ Len(j.left) > 1
  <2> DEFINE k == [phase |-> "sent", left |-> Tail(j.left), got |-> got]
  <2>1. joining' = [joining EXCEPT ![p] = k] /\ page' = page
    BY <1>4 DEF AnswerJoin
  <2>2. page' = [page EXCEPT ![p] = page[p]] /\ booking' = [booking EXCEPT ![p] = booking[p]]
    BY <1>1, <2>1, PhoneIs
  <2>3. Joblike(k) /\ k.got = got /\ k.phase = "sent"
    BY <1>3 DEF Joblike, NoJob
  <2> HIDE DEF k
  <2>4. Pagelike(page[p]) /\ Booklike(booking[p]) /\ Fit(p, page[p], j, booking[p], crossed)
    BY PhoneIs
  <2>5. Fit(p, page[p], k, booking[p], crossed')
    BY <1>1, <1>2, <2>4 DEF Fit
  <2>6. Has(page[p], j) \subseteq Has(page[p], k) \cup astray'
    BY <1>3, <2>3 DEF Has
  <2>7. QED
    BY <1>1, <2>1, <2>2, <2>3, <2>4, <2>5, <2>6, PhoneStep
<1>5. CASE ~(j.phase = "done" /\ Len(j.left) > 1)
  <2>1. joining' = [joining EXCEPT ![p] = NoJob]
        /\ Finish(p, IF j.phase = "done" THEN got ELSE j.got, j.phase = "refused")
    BY <1>5 DEF AnswerJoin
  <2> DEFINE all == IF j.phase = "done" THEN got ELSE j.got
             no  == j.phase = "refused"
  <2>2. Finish(p, all, no)
    BY <2>1
  <2>3. Range(j.got) \cup (IF j.phase = "done" THEN {j.spot} ELSE {}) \subseteq Range(all) \cup astray'
    BY <1>3
  <2> HIDE DEF all, no
  <2>4. QED
    BY <1>1, <1>2, <2>1, <2>2, <2>3, FinishKeeps
<1>6. QED
  BY <1>4, <1>5

LEMMA LoseJoinKeeps ==
  ASSUME JoinInv, NEW p \in Phones, LoseJoin(p)
  PROVE  JoinInv'
<1>1. /\ joining[p] # NoJob /\ joining' = [joining EXCEPT ![p] = NoJob]
      /\ Finish(p, joining[p].got, TRUE)
      /\ astray' = IF joining[p].phase = "done" THEN astray \cup {joining[p].spot} ELSE astray
      /\ UNCHANGED <<spots, appts, booking, crossed>>
  BY DEF LoseJoin, server
<1>2. QED
  BY <1>1, FinishKeeps

LEMMA BookKeeps ==
  ASSUME JoinInv, NEW p \in Phones, Book(p)
  PROVE  JoinInv'
<1>1. /\ page[p].step = "details" /\ page[p].mode = "appointment" /\ booking[p] = NoBook /\ Crosses(p)
      /\ UNCHANGED <<spots, appts, page, joining, astray>>
  BY DEF Book, server
<1>2. PICK t \in Times :
        booking' = [booking EXCEPT ![p] = [phase |-> "sent", who |-> Selected(p)[1].name, time |-> t]]
  BY DEF Book
<1> DEFINE b == [phase |-> "sent", who |-> Selected(p)[1].name, time |-> t]
<1>3. Booklike(b)
  BY DEF Booklike, NoBook
<1>4. booking' = [booking EXCEPT ![p] = b]
  BY <1>2
<1> HIDE DEF b
<1>5. page' = [page EXCEPT ![p] = page[p]] /\ joining' = [joining EXCEPT ![p] = joining[p]]
  BY <1>1, PhoneIs
<1>6. Pagelike(page[p]) /\ Joblike(joining[p]) /\ Fit(p, page[p], joining[p], booking[p], crossed)
  BY PhoneIs
<1>7. Fit(p, page[p], joining[p], b, crossed')
  BY <1>1, <1>6, CrossesOnlySelf DEF Fit
<1>8. QED
  BY <1>1, <1>3, <1>4, <1>5, <1>6, <1>7, CrossesOnlySelf, PhoneStep

LEMMA AnswerBookingKeeps ==
  ASSUME JoinInv, NEW p \in Phones, AnswerBooking(p) \/ LoseBooking(p)
  PROVE  JoinInv'
<1>1. /\ booking' = [booking EXCEPT ![p] = NoBook] /\ booking[p] # NoBook
      /\ UNCHANGED <<spots, appts, joining, astray, crossed>>
  BY PhoneIs DEF AnswerBooking, LoseBooking, server, NoBook
<1>2. joining' = [joining EXCEPT ![p] = joining[p]]
  BY <1>1, PhoneIs
<1>3. /\ Pagelike(page[p]) /\ Joblike(joining[p]) /\ Booklike(NoBook) /\ Booklike(booking[p])
      /\ Fit(p, page[p], joining[p], booking[p], crossed)
  BY PhoneIs DEF Booklike, NoBook
<1>4. CASE page' = page
  <2>1. page' = [page EXCEPT ![p] = page[p]]
    BY <1>4, PhoneIs
  <2>2. Fit(p, page[p], joining[p], NoBook, crossed')
    BY <1>1, <1>3 DEF Fit
  <2>3. QED
    BY <1>1, <1>2, <1>3, <2>1, <2>2, PhoneStep
<1>5. CASE AnswerBooking(p) /\ booking[p].phase # "refused"
  <2> DEFINE a == booking[p].appt
             q == [page[p] EXCEPT !.appt = a, !.urlAppt = a, !.urlIds = <<>>, !.step = "confirmed"]
  <2>1. page' = [page EXCEPT ![p] = q]
    BY <1>5, PhoneIs DEF AnswerBooking
  <2>2. booking[p].phase = "done"
    BY <1>5 DEF AnswerBooking
  <2>3. a # NoAppt
    BY <1>3, <2>2 DEF Booklike
  <2>4. q = [page[p] EXCEPT !.appt = a, !.urlAppt = a, !.urlIds = <<>>, !.step = "confirmed"]
    OBVIOUS
  <2> HIDE DEF q, a
  <2>5. /\ Pagelike(q) /\ q.ids = page[p].ids /\ q.urlIds = <<>> /\ q.appt = a /\ q.urlAppt = a
        /\ q.step = "confirmed" /\ q.mode = page[p].mode
    <3> SUFFICES ASSUME NEW x, x = page[p], Pagelike(x),
                        q = [x EXCEPT !.appt = a, !.urlAppt = a, !.urlIds = <<>>, !.step = "confirmed"]
                 PROVE  /\ Pagelike(q) /\ q.ids = x.ids /\ q.urlIds = <<>> /\ q.appt = a
                        /\ q.urlAppt = a /\ q.step = "confirmed" /\ q.mode = x.mode
      BY <1>3, <2>4
    <3>1. QED
      BY DEF Pagelike
  <2>6. Fit(p, q, joining[p], NoBook, crossed')
    BY <1>1, <1>3, <2>3, <2>5 DEF Fit, Brought
  <2>7. Has(page[p], joining[p]) \subseteq Has(q, joining[p]) \cup astray'
    <3>1. Range(page[p].urlIds) \subseteq Range(page[p].ids)
      BY <1>3, NothingListed DEF Fit
    <3>2. QED
      BY <2>5, <3>1 DEF Has
  <2>8. QED
    BY <1>1, <1>2, <1>3, <2>1, <2>5, <2>6, <2>7, PhoneStep
<1>6. CASE AnswerBooking(p) /\ booking[p].phase = "refused"
  <2>1. page' = page
    BY <1>6, PhoneIs DEF AnswerBooking
  <2>2. QED
    BY <1>4, <2>1
<1>7. CASE LoseBooking(p)
  BY <1>4, <1>7 DEF LoseBooking
<1>8. QED
  BY <1>5, <1>6, <1>7

-----------------------------------------------------------------------------
\* Leaving the page, or opening it anew.
LEMMA BackToMainMenuKeeps ==
  ASSUME JoinInv, NEW p \in Phones, BackToMainMenu(p)
  PROVE  JoinInv'
<1> DEFINE told == page[p].told
           q == [Landing EXCEPT !.told = told]
<1>1. /\ page[p].step = "confirmed" /\ page' = [page EXCEPT ![p] = q]
      /\ astray' = astray \cup Range(page[p].ids) \cup Range(page[p].urlIds)
      /\ UNCHANGED <<spots, appts, joining, booking, crossed>>
  BY DEF BackToMainMenu, server
<1>2. joining' = [joining EXCEPT ![p] = joining[p]] /\ booking' = [booking EXCEPT ![p] = booking[p]]
  BY <1>1, PhoneIs
<1>3. /\ Pagelike(page[p]) /\ Joblike(joining[p]) /\ Booklike(booking[p])
      /\ Fit(p, page[p], joining[p], booking[p], crossed)
  BY PhoneIs
<1> HIDE DEF told
<1>4. /\ Pagelike(q) /\ q.step = "landing" /\ q.mode = "queue" /\ q.ids = <<>> /\ q.urlIds = <<>>
  BY DEF Pagelike, Landing
<1> HIDE DEF q
<1>5. Fit(p, q, joining[p], booking[p], crossed')
  BY <1>1, <1>3, <1>4 DEF Fit
<1>6. Has(page[p], joining[p]) \subseteq Has(q, joining[p]) \cup astray'
  BY <1>1 DEF Has
<1>7. QED
  BY <1>1, <1>2, <1>3, <1>4, <1>5, <1>6, PhoneStep

LEMMA ReloadKeeps ==
  ASSUME JoinInv, NEW p \in Phones, Reload(p)
  PROVE  JoinInv'
<1> DEFINE ids  == page[p].urlIds
           urlAppt == page[p].urlAppt
           q == IF ids # <<>> THEN [Landing EXCEPT !.step = "confirmed", !.ids = ids, !.urlIds = ids]
                ELSE IF urlAppt # NoAppt
                THEN [Landing EXCEPT !.step = "confirmed", !.mode = "appointment",
                                     !.appt = urlAppt, !.urlAppt = urlAppt]
                ELSE Landing
<1>1. /\ page' = [page EXCEPT ![p] = q]
      /\ joining' = [joining EXCEPT ![p] = NoJob] /\ booking' = [booking EXCEPT ![p] = NoBook]
      /\ astray' = astray \cup InFlight(p) \cup (IF p \in crossed THEN Range(page[p].ids) ELSE {})
      /\ crossed' = crossed \ {p} /\ UNCHANGED <<spots, appts>>
  BY DEF Reload, server
<1>2. Fit(p, page[p], joining[p], booking[p], crossed)
  BY PhoneIs
<1>3. Joblike(NoJob) /\ Booklike(NoBook)
  BY NothingListed DEF Joblike, NoJob, Booklike, NoBook
<1>4. ids = page[p].urlIds
  OBVIOUS
<1> HIDE DEF ids, urlAppt
<1>5. Pagelike(q) /\ q.ids = ids /\ q.urlIds = ids /\ Fit(p, q, NoJob, NoBook, crossed')
  <2>1. CASE ids # <<>>
    <3>1. q = [Landing EXCEPT !.step = "confirmed", !.ids = ids, !.urlIds = ids]
      BY <2>1
    <3> HIDE DEF q
    <3>2. /\ Pagelike(q) /\ q.ids = ids /\ q.urlIds = ids /\ q.step = "confirmed" /\ q.mode = "queue"
          /\ q.urlAppt = NoAppt
      BY <3>1 DEF Pagelike, Landing
    <3>3. QED
      BY <2>1, <3>2 DEF Fit, Brought
  <2>2. CASE ids = <<>> /\ urlAppt # NoAppt
    <3>1. q = [Landing EXCEPT !.step = "confirmed", !.mode = "appointment",
                              !.appt = urlAppt, !.urlAppt = urlAppt]
      BY <2>2
    <3> HIDE DEF q
    <3>2. /\ Pagelike(q) /\ q.ids = <<>> /\ q.urlIds = <<>> /\ q.step = "confirmed"
          /\ q.mode = "appointment" /\ q.appt = urlAppt /\ q.urlAppt = urlAppt
      BY <3>1 DEF Pagelike, Landing
    <3>3. QED
      BY <2>2, <3>2 DEF Fit, Brought
  <2>3. CASE ids = <<>> /\ urlAppt = NoAppt
    <3>1. q = Landing
      BY <2>3
    <3> HIDE DEF q
    <3>2. Pagelike(q) /\ q.ids = <<>> /\ q.urlIds = <<>> /\ q.step = "landing"
      BY <3>1 DEF Pagelike, Landing
    <3>3. QED
      BY <2>3, <3>2 DEF Fit
  <2>4. QED
    BY <2>1, <2>2, <2>3
<1> HIDE DEF q
<1>6. Has(page[p], joining[p]) \subseteq Has(q, NoJob) \cup astray'
  <2>1. Range(page[p].ids) \subseteq Range(ids) \cup astray'
    <3>1. CASE p \in crossed
      BY <1>1, <3>1
    <3>2. CASE p \notin crossed
      <4>1. page[p].ids = <<>> \/ page[p].ids = ids
        BY <1>2, <1>4, <3>2 DEF Fit
      <4>2. QED
        BY <4>1, NothingListed
    <3>3. QED
      BY <3>1, <3>2
  <2>2. InFlight(p) \subseteq astray'
    BY <1>1
  <2>3. QED
    BY <1>4, <1>5, <2>1, <2>2 DEF Has, InFlight
<1>7. QED
  BY <1>1, <1>3, <1>5, <1>6, PhoneStep

-----------------------------------------------------------------------------
\* The server changes the status of a spot, or an appointment.
LEMMA ServerStep ==
  ASSUME JoinInv, UNCHANGED <<page, joining, booking, astray, crossed>>, Listing(appts'),
         Listing(spots'), DOMAIN spots' = DOMAIN spots, \A i \in DOMAIN spots' : Spotlike(spots'[i]),
         \A i \in DOMAIN spots : /\ spots'[i].who = spots[i].who
                                 /\ spots'[i].status # "gone" => spots[i].status # "gone"
  PROVE  JoinInv'
<1>1. SpotsAreKept' /\ Tables' /\ PhonesFit'
  BY DEF JoinInv, SpotsAreKept, Tables, PhonesFit, InFlight
<1>2. OneLive'
  BY DEF JoinInv, OneLive
<1>3. QED
  BY <1>1, <1>2 DEF JoinInv

LEMMA SpotStep ==
  ASSUME JoinInv, UNCHANGED <<page, joining, booking, appts, astray, crossed>>,
         NEW i, NEW st \in {"in_service", "gone"}, spots[i].status # "gone",
         spots' = [spots EXCEPT ![i].status = st]
  PROVE  JoinInv'
<1>1. Listing(spots) /\ Listing(appts) /\ \A k \in DOMAIN spots : Spotlike(spots[k])
  BY DEF JoinInv
<1>2. spots = [k \in DOMAIN spots |-> spots[k]]
  BY <1>1, LenProperties DEF Listing
<1>3. CASE i \in DOMAIN spots
  <2> DEFINE s == [who |-> spots[i].who, status |-> st]
  <2>1. spots[i] = [who |-> spots[i].who, status |-> spots[i].status]
    BY <1>1, <1>3 DEF Spotlike
  <2>2. [spots[i] EXCEPT !.status = st] = s
    BY <2>1
  <2>3. spots' = [spots EXCEPT ![i] = s]
    BY <1>2, <2>2
  <2>4. Spotlike(s) /\ s.who = spots[i].who /\ s.status = st
    BY DEF Spotlike
  <2> HIDE DEF s
  <2>5. Listing(spots') /\ DOMAIN spots' = DOMAIN spots
    <3>1. Listing([spots EXCEPT ![i] = s]) /\ DOMAIN [spots EXCEPT ![i] = s] = DOMAIN spots
      BY <1>1, <1>3, ListingExcept
    <3>2. QED
      BY <2>3, <3>1, Zenon
  <2>6. \A k \in DOMAIN spots : spots'[k] = IF k = i THEN s ELSE spots[k]
    BY <2>3
  <2>7. \A k \in DOMAIN spots' : Spotlike(spots'[k])
    BY <1>1, <2>4, <2>5, <2>6
  <2>8. \A k \in DOMAIN spots : /\ spots'[k].who = spots[k].who
                                /\ spots'[k].status # "gone" => spots[k].status # "gone"
    BY <2>4, <2>6
  <2>9. QED
    BY <1>1, <2>5, <2>7, <2>8, ServerStep
<1>4. CASE i \notin DOMAIN spots
  <2>1. spots' = spots
    BY <1>2, <1>4
  <2>2. QED
    BY <1>1, <2>1, ServerStep
<1>5. QED
  BY <1>3, <1>4

LEMMA CancelSpotKeeps ==
  ASSUME JoinInv, NEW p \in Phones, CancelSpot(p)
  PROVE  JoinInv'
<1>1. PICK i \in Range(page[p].ids) :
        spots[i].status = "waiting" /\ spots' = [spots EXCEPT ![i].status = "gone"]
  BY DEF CancelSpot
<1>2. UNCHANGED <<page, joining, booking, appts, astray, crossed>>
  BY DEF CancelSpot
<1>3. QED
  BY <1>1, <1>2, SpotStep

LEMMA AdvanceKeeps ==
  ASSUME JoinInv, Advance
  PROVE  JoinInv'
<1>1. PICK i \in DOMAIN spots :
        /\ spots[i].status \in {"waiting", "in_service"}
        /\ spots' = [spots EXCEPT ![i].status = IF @ = "waiting" THEN "in_service" ELSE "gone"]
  BY DEF Advance
<1>2. UNCHANGED <<page, joining, booking, appts, astray, crossed>>
  BY DEF Advance
<1> DEFINE st == IF spots[i].status = "waiting" THEN "in_service" ELSE "gone"
<1>3. spots' = [spots EXCEPT ![i].status = st]
  BY <1>1
<1>4. st \in {"in_service", "gone"} /\ spots[i].status # "gone"
  BY <1>1
<1> HIDE DEF st
<1>5. QED
  BY <1>2, <1>3, <1>4, SpotStep

LEMMA ChangeApptKeeps ==
  ASSUME JoinInv, NEW p \in Phones, ChangeAppt(p) \/ CloseLine
  PROVE  JoinInv'
<1>1. UNCHANGED <<spots, page, joining, booking, astray, crossed>>
  BY DEF ChangeAppt, CloseLine
<1>2. Listing(spots) /\ Listing(appts) /\ \A k \in DOMAIN spots : Spotlike(spots[k])
  BY DEF JoinInv
<1>3. appts = [k \in DOMAIN appts |-> appts[k]]
  BY <1>2, LenProperties DEF Listing
<1>4. Listing(appts')
  <2>1. CASE appts' = appts
    BY <1>2, <2>1
  <2>2. CASE \E i, e : appts' = [appts EXCEPT ![i] = e]
    <3>1. PICK i, e : appts' = [appts EXCEPT ![i] = e]
      BY <2>2
    <3>2. CASE i \in DOMAIN appts
      BY <1>2, <3>1, <3>2, ListingExcept
    <3>3. CASE i \notin DOMAIN appts
      <4>1. appts' = appts
        BY <1>3, <3>1, <3>3
      <4>2. QED
        BY <2>1, <4>1
    <3>4. QED
      BY <3>2, <3>3
  <2>3. CASE ChangeAppt(p)
    <3> DEFINE i == page[p].appt
    <3>1. \/ appts' = [appts EXCEPT ![i].status = "cancelled"]
          \/ \E t : appts' = [appts EXCEPT ![i].time = t]
      BY <2>3 DEF ChangeAppt
    <3> HIDE DEF i
    <3>2. CASE appts' = [appts EXCEPT ![i].status = "cancelled"]
      <4>1. appts' = [appts EXCEPT ![i] = [appts[i] EXCEPT !.status = "cancelled"]]
        BY <3>2, <1>3
      <4>2. QED
        BY <2>2, <4>1
    <3>3. CASE \E t : appts' = [appts EXCEPT ![i].time = t]
      <4>1. PICK t : appts' = [appts EXCEPT ![i].time = t]
        BY <3>3
      <4>2. appts' = [appts EXCEPT ![i] = [appts[i] EXCEPT !.time = t]]
        BY <4>1, <1>3
      <4>3. QED
        BY <2>2, <4>2
    <3>4. QED
      BY <3>1, <3>2, <3>3
  <2>4. CASE CloseLine
    BY <2>1, <2>4 DEF CloseLine
  <2>5. QED
    BY <2>3, <2>4
<1>5. QED
  BY <1>1, <1>2, <1>4, ServerStep

LEMMA ServeBookingKeeps ==
  ASSUME JoinInv, NEW p \in Phones, ServeBooking(p)
  PROVE  JoinInv'
<1> DEFINE b == booking[p]
<1>1. b.phase = "sent" /\ UNCHANGED <<spots, page, joining, astray, crossed>>
  BY DEF ServeBooking
<1>2. page' = [page EXCEPT ![p] = page[p]] /\ joining' = [joining EXCEPT ![p] = joining[p]]
  BY <1>1, PhoneIs
<1>3. /\ Pagelike(page[p]) /\ Joblike(joining[p]) /\ Booklike(b)
      /\ Fit(p, page[p], joining[p], b, crossed)
  BY PhoneIs
<1>4. Listing(appts) /\ Len(appts) + 1 # 0
  BY ListingAppend DEF JoinInv
<1>5. b # NoBook
  BY <1>1 DEF NoBook
<1>6. \E c : /\ booking' = [booking EXCEPT ![p] = c] /\ Booklike(c) /\ Listing(appts')
  <2>1. CASE Taken(b.time)
    <3>1. booking' = [booking EXCEPT ![p].phase = "refused"] /\ appts' = appts
      BY <2>1 DEF ServeBooking
    <3>2. b = [phase |-> "sent", who |-> b.who, time |-> b.time]
      BY <1>1, <1>3 DEF Booklike
    <3> DEFINE c == [phase |-> "refused", who |-> b.who, time |-> b.time]
    <3>3. [b EXCEPT !.phase = "refused"] = c
      BY <3>2
    <3>4. booking' = [booking EXCEPT ![p] = [b EXCEPT !.phase = "refused"]]
      BY <3>1, PhoneIs
    <3>5. Booklike(c)
      BY DEF Booklike, NoBook
    <3>6. QED
      BY <1>4, <3>1, <3>3, <3>4, <3>5
  <2>2. CASE ~Taken(b.time)
    <3> DEFINE c == [phase |-> "done", appt |-> Len(appts) + 1]
    <3>1. /\ booking' = [booking EXCEPT ![p] = c]
          /\ \E n \in IF onFile = {} THEN {b.who} ELSE onFile :
               appts' = Append(appts, [who |-> n, picked |-> b.who, time |-> b.time,
                                       status |-> "booked"])
      BY <2>2 DEF ServeBooking
    <3>2. \E e : appts' = Append(appts, e)
      BY <3>1
    <3>3. PICK e : appts' = Append(appts, e)
      BY <3>2
    <3>4. Listing(appts')
      BY <1>4, <3>3, ListingAppend
    <3>5. Booklike(c)
      BY <1>4 DEF Booklike, NoBook, NoAppt
    <3>6. QED
      BY <3>1, <3>4, <3>5
  <2>3. QED
    BY <2>1, <2>2
<1>7. PICK c : /\ booking' = [booking EXCEPT ![p] = c] /\ Booklike(c) /\ Listing(appts')
  BY <1>6
<1>8. Fit(p, page[p], joining[p], c, crossed')
  BY <1>1, <1>3, <1>5 DEF Fit
<1>9. QED
  BY <1>1, <1>2, <1>3, <1>7, <1>8, PhoneStepAppts

-----------------------------------------------------------------------------
\* The row a client who is in line already has.
LEMMA LiveIsOne ==
  ASSUME JoinInv, NEW n, Live(n) # {}
  PROVE  Min(Live(n)) \in DOMAIN spots
<1>1. PICK i : i \in Live(n)
  OBVIOUS
<1>2. i \in DOMAIN spots /\ i \in Int
  BY <1>1, ListingAppend DEF Live, JoinInv
<1>3. Live(n) = {i}
  BY <1>1 DEF Live, JoinInv, OneLive
<1>4. Min({i}) = i
  BY <1>2 DEF Min
<1>5. QED
  BY <1>2, <1>3, <1>4

LEMMA ServeJoinKeeps ==
  ASSUME JoinInv, NEW p \in Phones, ServeJoin(p)
  PROVE  JoinInv'
<1> DEFINE j == joining[p]
           x == Head(j.left)
           n == x.name
           refused == ~open \/ (~x.known /\ x.name \in onFile)
           spot == IF Live(n) = {} THEN Len(spots) + 1 ELSE Min(Live(n))
           k == [phase |-> "done", left |-> j.left, got |-> j.got, spot |-> spot]
<1>1. j.phase = "sent" /\ UNCHANGED <<appts, page, booking, astray, crossed>>
  BY DEF ServeJoin
<1>2. page' = [page EXCEPT ![p] = page[p]] /\ booking' = [booking EXCEPT ![p] = booking[p]]
  BY <1>1, PhoneIs
<1>3. /\ Pagelike(page[p]) /\ Joblike(j) /\ Booklike(booking[p])
      /\ Fit(p, page[p], j, booking[p], crossed)
  BY PhoneIs
<1>4. j # NoJob
  BY <1>1 DEF NoJob
<1>5. \A c : c # NoJob => Fit(p, page[p], c, booking[p], crossed')
  BY <1>1, <1>3, <1>4 DEF Fit
<1>6. CASE refused
  <2> DEFINE c == [phase |-> "refused", left |-> j.left, got |-> j.got]
  <2>1. joining' = [joining EXCEPT ![p].phase = "refused"] /\ spots' = spots
    BY <1>6 DEF ServeJoin
  <2>2. j = [phase |-> "sent", left |-> j.left, got |-> j.got] /\ Listing(j.got)
    BY <1>1, <1>3 DEF Joblike
  <2>3. [j EXCEPT !.phase = "refused"] = c
    BY <2>2
  <2>4. joining' = [joining EXCEPT ![p] = [j EXCEPT !.phase = "refused"]]
    BY <2>1, PhoneIs
  <2>5. Joblike(c) /\ c # NoJob /\ c.got = j.got
    BY <2>2 DEF Joblike, NoJob
  <2>6. joining' = [joining EXCEPT ![p] = c]
    BY <2>3, <2>4
  <2> HIDE DEF c
  <2>7. Has(page[p], j) \subseteq Has(page[p], c) \cup astray'
    BY <1>1, <2>5 DEF Has
  <2>8. QED
    BY <1>1, <1>2, <1>3, <1>5, <2>1, <2>5, <2>6, <2>7, PhoneStep
<1>7. CASE ~refused
  <2> DEFINE e == [who |-> n, status |-> "waiting"]
  <2>1. /\ joining' = [joining EXCEPT ![p] = k]
        /\ spots' = IF spot \in DOMAIN spots THEN spots ELSE Append(spots, e)
    BY <1>7 DEF ServeJoin
  <2>2. Listing(j.got) /\ Listing(spots)
    BY <1>3 DEF Joblike, JoinInv
  <2>3. Live(n) = {} => spot = Len(spots) + 1
    OBVIOUS
  <2>4. Live(n) # {} => spot \in DOMAIN spots
    BY LiveIsOne
  <2> HIDE DEF spot
  <2>5. Joblike(k) /\ k # NoJob /\ k.phase = "done" /\ k.spot = spot /\ k.got = j.got
    BY <2>2 DEF Joblike, NoJob
  <2>6. Spotlike(e) /\ e.who = n
    BY DEF Spotlike
  <2> HIDE DEF k, e, n
  <2>7. Has(page[p], j) \subseteq Has(page[p], k) /\ spot \in Has(page[p], k)
    BY <1>1, <2>5 DEF Has
  <2>8. CASE spot \in DOMAIN spots
    <3>1. spots' = spots
      BY <2>1, <2>8
    <3>2. QED
      BY <1>1, <1>2, <1>3, <1>5, <2>1, <2>5, <2>7, <3>1, PhoneStep
  <2>9. CASE spot \notin DOMAIN spots
    <3>1. Live(n) = {} /\ spot = Len(spots) + 1 /\ spots' = Append(spots, e)
      BY <2>1, <2>3, <2>4, <2>9
    <3>2. /\ Listing(spots') /\ DOMAIN spots = 1..Len(spots) /\ Len(spots) \in Nat
          /\ DOMAIN spots' = 1..(Len(spots) + 1)
          /\ spots'[Len(spots) + 1] = e /\ \A i \in 1..Len(spots) : spots'[i] = spots[i]
      BY <2>2, <3>1, ListingAppend
    <3>3. /\ spots'[spot] = e /\ \A i \in DOMAIN spots : spots'[i] = spots[i]
          /\ \A i \in DOMAIN spots' : i \in DOMAIN spots \/ i = spot
      BY <3>1, <3>2
    <3>4. \A i \in DOMAIN spots' : Spotlike(spots'[i])
      BY <2>6, <3>3 DEF JoinInv
    <3>5. OneLive'
      <4>1. \A i \in DOMAIN spots : spots[i].who = n => spots[i].status = "gone"
        BY <3>1 DEF Live, JoinInv, Spotlike
      <4>2. QED
        BY <2>6, <3>3, <4>1 DEF JoinInv, OneLive
    <3>6. Tables' /\ PhonesFit'
      <4>1. Tables'
        BY <1>1, <2>1 DEF JoinInv, Tables
      <4>2. SUFFICES ASSUME NEW u \in Phones
                     PROVE  /\ Pagelike(page'[u]) /\ Joblike(joining'[u]) /\ Booklike(booking'[u])
                            /\ Fit(u, page'[u], joining'[u], booking'[u], crossed')
        BY <4>1 DEF PhonesFit
      <4>3. CASE u = p
        BY <1>1, <1>3, <1>5, <2>1, <2>5, <4>3, PhoneIs
      <4>4. CASE u # p
        BY <1>1, <2>1, <4>4, PhoneIs
      <4>5. QED
        BY <4>3, <4>4
    <3>7. joining'[p] = k /\ \A u \in Phones : u # p => joining'[u] = joining[u]
      BY <2>1, PhoneIs
    <3>8. SpotsAreKept'
      <4> SUFFICES ASSUME NEW i \in DOMAIN spots', i \notin astray'
                   PROVE  \E u \in Phones : i \in Has(page'[u], joining'[u])
        BY DEF SpotsAreKept, Has, InFlight
      <4>1. CASE i = spot
        BY <1>1, <2>7, <3>7, <4>1
      <4>2. CASE i \in DOMAIN spots
        <5>1. PICK u \in Phones : i \in Has(page[u], joining[u])
          BY <1>1, <4>2 DEF JoinInv, SpotsAreKept, Has, InFlight
        <5>2. CASE u = p
          BY <1>1, <2>7, <3>7, <5>1, <5>2
        <5>3. CASE u # p
          BY <1>1, <3>7, <5>1, <5>3
        <5>4. QED
          BY <5>2, <5>3
      <4>3. QED
        BY <3>3, <4>1, <4>2
    <3>9. Listing(appts')
      BY <1>1 DEF JoinInv
    <3>10. QED
      BY <3>2, <3>4, <3>5, <3>6, <3>8, <3>9 DEF JoinInv
  <2>10. QED
    BY <2>8, <2>9
<1>8. QED
  BY <1>6, <1>7

-----------------------------------------------------------------------------
LEMMA JoinStep == JoinInv /\ [JoinPageNext]_joinVars => JoinInv'
<1> SUFFICES ASSUME JoinInv, [JoinPageNext]_joinVars PROVE JoinInv'
  OBVIOUS
<1>1. CASE UNCHANGED joinVars
  BY <1>1 DEF joinVars, JoinInv, Tables, PhonesFit, SpotsAreKept, InFlight, OneLive
<1>2. CASE Advance
  BY <1>2, AdvanceKeeps
<1>3. ASSUME NEW p \in Phones, CloseLine \/ ChangeAppt(p) PROVE JoinInv'
  BY <1>3, ChangeApptKeeps
<1>4. ASSUME NEW p \in Phones, EnterFlow(p) \/ Pick(p) \/ AddPerson(p) \/ SwitchMode(p) \/ Back(p)
      PROVE  JoinInv'
  BY <1>4, EnterFlowKeeps, PickKeeps, SwitchModeKeeps, BackKeeps
<1>5. ASSUME NEW p \in Phones, Join(p) \/ AnswerJoin(p) \/ LoseJoin(p) \/ ServeJoin(p) \/ CancelSpot(p)
      PROVE  JoinInv'
  BY <1>5, JoinKeeps, AnswerJoinKeeps, LoseJoinKeeps, ServeJoinKeeps, CancelSpotKeeps
<1>6. ASSUME NEW p \in Phones, Book(p) \/ AnswerBooking(p) \/ LoseBooking(p) \/ ServeBooking(p)
      PROVE  JoinInv'
  BY <1>6, BookKeeps, AnswerBookingKeeps, ServeBookingKeeps
<1>7. ASSUME NEW p \in Phones, BackToMainMenu(p) \/ Reload(p) PROVE JoinInv'
  BY <1>7, BackToMainMenuKeeps, ReloadKeeps
<1>8. CASE CloseLine
  <2>1. UNCHANGED <<spots, appts, page, joining, booking, astray, crossed>>
    BY <1>8 DEF CloseLine
  <2>2. QED
    BY <2>1, ServerStep DEF JoinInv
<1>9. QED
  BY <1>1, <1>2, <1>3, <1>4, <1>5, <1>6, <1>7, <1>8 DEF JoinPageNext

LEMMA JoinInvHolds == JoinInv => JoinPageHolds
<1> SUFFICES ASSUME JoinInv PROVE JoinPageHolds
  OBVIOUS
<1>1. OneSpotEach
  <2> SUFFICES ASSUME NEW n \in Folk
               PROVE  Cardinality({i \in DOMAIN spots : spots[i].who = n /\ spots[i].status # "gone"}) <= 1
    BY DEF OneSpotEach
  <2> DEFINE S == {i \in DOMAIN spots : spots[i].who = n /\ spots[i].status # "gone"}
  <2>1. CASE S = {}
    BY <2>1, FS_EmptySet
  <2>2. CASE S # {}
    <3>1. PICK i : i \in S
      BY <2>2
    <3>2. S = {i}
      BY <3>1 DEF JoinInv, OneLive
    <3>3. Cardinality(S) = 1
      BY <3>2, FS_Singleton
    <3>4. QED
      BY <3>3
  <2>3. QED
    BY <2>1, <2>2
<1>2. UrlBringsItBack
  <2> SUFFICES ASSUME NEW p \in Phones, p \notin crossed, page[p].step = "confirmed"
               PROVE  Brought(page[p])
    BY DEF UrlBringsItBack, Brought
  <2>1. QED
    BY PhoneIs DEF Fit
<1>3. QED
  BY <1>1, <1>2 DEF JoinInv, JoinPageHolds

\* Whatever the household, the times offered and the phones it uses: nobody of it is in line twice,
\* whoever a join put in line is on a page or in its URL unless the answer was lost or the page left,
\* and what a page says it has done is what its URL brings back unless something else was begun while
\* a join or a booking was pending (book/[locationId]/page.tsx joinQueue and bookAppointment;
\* queue.service checkIn).
THEOREM HouseholdKept == JoinPageSpec => []JoinPageHolds
<1>1. JoinPageInit => JoinInv
  BY JoinStarts
<1>2. JoinInv /\ [JoinPageNext]_joinVars => JoinInv'
  BY JoinStep
<1>3. JoinInv => JoinPageHolds
  BY JoinInvHolds
<1>4. QED
  BY <1>1, <1>2, <1>3, PTL DEF JoinPageSpec

Household == [name : Folk, known : BOOLEAN, selected : BOOLEAN]
SpotRow   == [who : Folk, status : {"waiting", "in_service", "gone"}]
Reserved  == [who : Folk, picked : Folk, time : Times, status : {"booked", "cancelled"}]

\* What a page shows are spots of S and an appointment of A.
ShownTyped(q, S, A) ==
  /\ q.step \in {"landing", "details", "confirmed"} /\ q.mode \in {"queue", "appointment"}
  /\ q.people \in Seq(Household)
  /\ Range(q.ids) \subseteq S /\ Range(q.urlIds) \subseteq S
  /\ q.appt \in {NoAppt} \cup A /\ q.urlAppt \in {NoAppt} \cup A

JobTyped(j, S) ==
  /\ j # NoJob => j.left \in Seq(Household) /\ j.left # <<>>
  /\ Range(j.got) \subseteq S
  /\ j.phase = "done" => j.spot \in S

BookTyped(b, A) ==
  /\ b.phase \in {"sent", "refused"} => b.who \in Folk /\ b.time \in Times
  /\ b.phase = "done" => b.appt \in A

PhoneTyped(q, j, b, S, A) == ShownTyped(q, S, A) /\ JobTyped(j, S) /\ BookTyped(b, A)

ServerTyped ==
  /\ onFile \subseteq Folk /\ open \in BOOLEAN /\ spots \in Seq(SpotRow) /\ appts \in Seq(Reserved)
AsideTyped == crossed \subseteq Phones /\ astray \subseteq DOMAIN spots

JoinTyped ==
  /\ JoinInv /\ ServerTyped /\ AsideTyped
  /\ \A p \in Phones : PhoneTyped(page[p], joining[p], booking[p], DOMAIN spots, DOMAIN appts)

LEMMA NoListing == <<>> \in Seq(Household) /\ <<>> \in Seq(SpotRow) /\ <<>> \in Seq(Reserved)
  OBVIOUS

LEMMA LandingTyped ==
  ASSUME NEW S, NEW A
  PROVE  ShownTyped(Landing, S, A) /\ JobTyped(NoJob, S) /\ BookTyped(NoBook, A)
  BY NoListing, NothingListed DEF ShownTyped, JobTyped, BookTyped, Landing, NoJob, NoBook

LEMMA JoinStartsTyped == JoinPageInit => JoinTyped
<1> SUFFICES ASSUME JoinPageInit PROVE JoinTyped
  OBVIOUS
<1>1. JoinInv
  BY JoinStarts
<1>2. ServerTyped
  BY NoListing, JoinPageConstants DEF ServerTyped, JoinPageInit
<1>3. AsideTyped
  BY DEF AsideTyped, JoinPageInit
<1>4. ASSUME NEW p \in Phones PROVE page[p] = Landing /\ joining[p] = NoJob /\ booking[p] = NoBook
  BY DEF JoinPageInit
<1> QED BY <1>1, <1>2, <1>3, <1>4, LandingTyped DEF JoinTyped, PhoneTyped

\* A step of one phone, that may add rows.
LEMMA PhoneStepTyped ==
  ASSUME JoinTyped, JoinInv', NEW p \in Phones, NEW q, NEW j, NEW b,
         page' = [page EXCEPT ![p] = q], joining' = [joining EXCEPT ![p] = j],
         booking' = [booking EXCEPT ![p] = b], ServerTyped', AsideTyped',
         DOMAIN spots \subseteq DOMAIN spots', DOMAIN appts \subseteq DOMAIN appts',
         PhoneTyped(q, j, b, DOMAIN spots', DOMAIN appts')
  PROVE  JoinTyped'
<1>1. /\ page'[p] = q /\ joining'[p] = j /\ booking'[p] = b
      /\ \A u \in Phones : u # p => page'[u] = page[u] /\ joining'[u] = joining[u] /\ booking'[u] = booking[u]
  BY DEF JoinTyped, JoinInv, Tables
<1>2. ASSUME NEW u \in Phones
      PROVE  PhoneTyped(page'[u], joining'[u], booking'[u], DOMAIN spots', DOMAIN appts')
  <2>1. CASE u = p
    BY <1>1, <2>1
  <2>2. CASE u # p
    <3>1. PhoneTyped(page[u], joining[u], booking[u], DOMAIN spots, DOMAIN appts)
      BY DEF JoinTyped
    <3>2. PhoneTyped(page[u], joining[u], booking[u], DOMAIN spots', DOMAIN appts')
      BY <3>1 DEF PhoneTyped, ShownTyped, JobTyped, BookTyped
    <3> QED BY <1>1, <2>2, <3>2
  <2> QED BY <2>1, <2>2
<1> QED BY <1>2 DEF JoinTyped

\* The same, when the tables stay as they are.
LEMMA PhoneAloneTyped ==
  ASSUME JoinTyped, JoinInv', NEW p \in Phones, NEW q, NEW j, NEW b,
         page' = [page EXCEPT ![p] = q], joining' = [joining EXCEPT ![p] = j],
         booking' = [booking EXCEPT ![p] = b], UNCHANGED server, AsideTyped',
         PhoneTyped(q, j, b, DOMAIN spots, DOMAIN appts)
  PROVE  JoinTyped'
<1>1. ServerTyped' /\ spots' = spots /\ appts' = appts
  BY DEF JoinTyped, ServerTyped, server
<1>2. PhoneTyped(q, j, b, DOMAIN spots', DOMAIN appts') /\ DOMAIN spots \subseteq DOMAIN spots'
      /\ DOMAIN appts \subseteq DOMAIN appts'
  BY <1>1
<1> QED BY <1>1, <1>2, PhoneStepTyped

\* The same, when only the page changes.
LEMMA PageAloneTyped ==
  ASSUME JoinTyped, JoinInv', NEW p \in Phones, NEW q, page' = [page EXCEPT ![p] = q],
         UNCHANGED <<server, joining, booking, astray>>, crossed' = crossed \/ Crosses(p),
         ShownTyped(q, DOMAIN spots, DOMAIN appts)
  PROVE  JoinTyped'
<1>1. joining' = [joining EXCEPT ![p] = joining[p]] /\ booking' = [booking EXCEPT ![p] = booking[p]]
  <2>1. joining = [u \in Phones |-> joining[u]] /\ booking = [u \in Phones |-> booking[u]]
    BY DEF JoinTyped, JoinInv, Tables
  <2> QED BY <2>1
<1>2. PhoneTyped(q, joining[p], booking[p], DOMAIN spots, DOMAIN appts)
  BY DEF JoinTyped, PhoneTyped
<1>3. AsideTyped'
  BY DEF JoinTyped, AsideTyped, Crosses, server
<1>4. UNCHANGED server
  OBVIOUS
<1> DEFINE j == joining[p]
           b == booking[p]
<1>5. joining' = [joining EXCEPT ![p] = j] /\ booking' = [booking EXCEPT ![p] = b]
      /\ PhoneTyped(q, j, b, DOMAIN spots, DOMAIN appts)
  BY <1>1, <1>2
<1> HIDE DEF j, b
<1> QED BY <1>3, <1>4, <1>5, PhoneAloneTyped

LEMMA PhoneHas ==
  ASSUME JoinTyped, NEW p \in Phones
  PROVE  /\ ShownTyped(page[p], DOMAIN spots, DOMAIN appts) /\ Pagelike(page[p])
         /\ JobTyped(joining[p], DOMAIN spots) /\ Joblike(joining[p])
         /\ BookTyped(booking[p], DOMAIN appts) /\ Booklike(booking[p])
         /\ page = [u \in Phones |-> page[u]] /\ joining = [u \in Phones |-> joining[u]]
         /\ booking = [u \in Phones |-> booking[u]]
  BY PhoneIs DEF JoinTyped, PhoneTyped

-----------------------------------------------------------------------------
\* A list of people with other marks on it.
LEMMA MarkedList ==
  ASSUME NEW s \in Seq(Household), NEW S
  PROVE  Marked(s, S) \in Seq(Household)
<1>1. Len(s) \in Nat /\ DOMAIN s = 1 .. Len(s) /\ \A i \in 1 .. Len(s) : s[i] \in Household
  BY LenProperties, ElementOfSeq
<1>2. \A x \in Household : \A v \in BOOLEAN : [x EXCEPT !.selected = v] \in Household
  BY DEF Household
<1> DEFINE g == [i \in DOMAIN s |-> i \in S]
           t == [i \in DOMAIN s |-> [s[i] EXCEPT !.selected = g[i]]]
<1>3. \A i \in DOMAIN s : g[i] \in BOOLEAN
  OBVIOUS
<1>4. t = Marked(s, S)
  BY DEF Marked
<1>5. t \in [1 .. Len(s) -> Household]
  <2> HIDE DEF g
  <2> QED BY <1>1, <1>2, <1>3
<1> HIDE DEF t
<1> QED BY <1>1, <1>4, <1>5, SeqOfFunction

LEMMA ListedTyped ==
  ASSUME NEW S, S \subseteq Folk, NEW selected \in BOOLEAN
  PROVE  Listed(S, selected) \in Seq(Household)
<1> DEFINE f == [n \in S |-> Person(n, TRUE, selected)]
           T == ImageOf(f, S)
<1>1. IsFiniteSet(S)
  BY JoinPageConstants, FS_Subset
<1>2. IsFiniteSet(T)
  <2> HIDE DEF f
  <2> QED BY <1>1, ImageIsSmaller
<1>3. T \subseteq Household
  <2>1. ASSUME NEW n \in S PROVE f[n] \in Household
    BY DEF Person, Household
  <2> HIDE DEF f
  <2> QED BY <2>1 DEF ImageOf
<1>x. Listed(S, selected) = SetToSeq(T)
  <2>1. {Person(n, TRUE, selected) : n \in S} = T
    BY DEF ImageOf
  <2> HIDE DEF T
  <2> QED BY <2>1 DEF Listed
<1> HIDE DEF T
<1>4. PICK n \in Nat : ExistsBijection(1 .. n, T)
  BY <1>2, FS_NatBijection
<1>5. Cardinality(T) = n
  BY <1>2, <1>4, FS_CountingElements
<1>6. \E g \in [1 .. Cardinality(T) -> T] : IsInjective(g)
  BY <1>4, <1>5 DEF ExistsBijection, Bijection, Injection
<1>7. SetToSeq(T) \in [1 .. n -> T]
  BY <1>5, <1>6 DEF SetToSeq
<1>8. SetToSeq(T) \in [1 .. n -> Household]
  BY <1>3, <1>7
<1>9. SetToSeq(T) \in Seq(Household)
  BY <1>8, SeqOfFunction
<1> QED BY <1>x, <1>9

LEMMA SelectedTyped ==
  ASSUME JoinTyped, NEW p \in Phones
  PROVE  /\ Selected(p) \in Seq(Household)
         /\ Selected(p) # <<>> => Selected(p)[1] \in Household
<1>1. page[p].people \in Seq(Household)
  BY PhoneHas DEF ShownTyped
<1>2. Picked(p) \subseteq DOMAIN page[p].people
  BY DEF Picked
<1>3. Selected(p) \in Seq(Household)
  BY <1>1, <1>2, KeptLists DEF Selected
<1> QED BY <1>3

LEMMA EnterFlowTyped ==
  ASSUME JoinTyped, JoinInv', NEW p \in Phones, EnterFlow(p)
  PROVE  JoinTyped'
<1>1. PICK mode \in {"queue", "appointment"} : \E list \in
       {Listed(onFile, TRUE)} \cup
       {IF n \in onFile THEN Listed({n}, TRUE) ELSE <<Person(n, FALSE, TRUE)>> : n \in Folk} :
       page' = [page EXCEPT ![p].step = "details", ![p].mode = mode, ![p].people = list]
  BY DEF EnterFlow
<1>2. PICK list \in
       {Listed(onFile, TRUE)} \cup
       {IF n \in onFile THEN Listed({n}, TRUE) ELSE <<Person(n, FALSE, TRUE)>> : n \in Folk} :
       page' = [page EXCEPT ![p].step = "details", ![p].mode = mode, ![p].people = list]
  BY <1>1
<1>3. list \in Seq(Household)
  <2>1. Listed(onFile, TRUE) \in Seq(Household)
    BY ListedTyped DEF JoinTyped, ServerTyped
  <2>2. ASSUME NEW n \in Folk PROVE Listed({n}, TRUE) \in Seq(Household)
    BY ListedTyped
  <2>3. ASSUME NEW n \in Folk PROVE <<Person(n, FALSE, TRUE)>> \in Seq(Household)
    <3> DEFINE x == Person(n, FALSE, TRUE)
    <3>1. x \in Household
      BY DEF Person, Household
    <3> HIDE DEF x
    <3>2. <<x>> \in Seq(Household)
      BY <3>1
    <3> QED BY <3>2 DEF x
  <2> QED BY <2>1, <2>2, <2>3
<1>4. UNCHANGED <<server, joining, booking, astray>> /\ Crosses(p)
  BY DEF EnterFlow
<1> DEFINE x == page[p]
           q == [x EXCEPT !.step = "details", !.mode = mode, !.people = list]
<1>5. page' = [page EXCEPT ![p] = q]
  BY <1>2, PhoneHas
<1>6. Pagelike(x) /\ ShownTyped(x, DOMAIN spots, DOMAIN appts)
  BY PhoneHas
<1> HIDE DEF x
<1>7. ShownTyped(q, DOMAIN spots, DOMAIN appts)
  BY <1>3, <1>6 DEF Pagelike, ShownTyped
<1> HIDE DEF q
<1> QED BY <1>4, <1>5, <1>7, PageAloneTyped

\* Other people are listed, in either mode.
LEMMA ListTyped ==
  ASSUME JoinTyped, JoinInv', NEW p \in Phones, NEW mode \in {"queue", "appointment"}, NEW list \in Seq(Household),
         page' = [page EXCEPT ![p] = [page[p] EXCEPT !.mode = mode, !.people = list]],
         UNCHANGED <<server, joining, booking, astray>>, crossed' = crossed \/ Crosses(p)
  PROVE  JoinTyped'
<1> DEFINE x == page[p]
           q == [x EXCEPT !.mode = mode, !.people = list]
<1>1. page' = [page EXCEPT ![p] = q]
  OBVIOUS
<1>2. Pagelike(x) /\ ShownTyped(x, DOMAIN spots, DOMAIN appts)
  BY PhoneHas
<1> HIDE DEF x
<1>3. ShownTyped(q, DOMAIN spots, DOMAIN appts)
  BY <1>2 DEF Pagelike, ShownTyped
<1> HIDE DEF q
<1> QED BY <1>1, <1>3, PageAloneTyped

\* A page whose list is replaced keeps its mode.
LEMMA ModeKept ==
  ASSUME JoinTyped, NEW p \in Phones, NEW list
  PROVE  /\ [page EXCEPT ![p].people = list]
              = [page EXCEPT ![p] = [page[p] EXCEPT !.mode = page[p].mode, !.people = list]]
         /\ page[p].mode \in {"queue", "appointment"}
<1> DEFINE x == page[p]
<1>1. Pagelike(x) /\ page[p].mode \in {"queue", "appointment"} /\ page = [u \in Phones |-> page[u]]
  BY PhoneHas DEF ShownTyped
<1>2. [page EXCEPT ![p].people = list] = [page EXCEPT ![p] = [x EXCEPT !.people = list]]
  BY <1>1
<1> HIDE DEF x
<1>3. [x EXCEPT !.people = list] = [x EXCEPT !.mode = x.mode, !.people = list]
  BY <1>1 DEF Pagelike
<1> QED BY <1>1, <1>2, <1>3 DEF x

LEMMA PickTyped ==
  ASSUME JoinTyped, JoinInv', NEW p \in Phones, Pick(p) \/ AddPerson(p)
  PROVE  JoinTyped'
<1> DEFINE s == page[p].people
<1>1. s \in Seq(Household)
  BY PhoneHas DEF ShownTyped
<1>2. UNCHANGED <<server, joining, booking, astray, crossed>>
  BY DEF Pick, AddPerson
<1>3. \A S : Marked(s, S) \in Seq(Household)
  <2> HIDE DEF s
  <2> QED BY <1>1, MarkedList
<1>4. ASSUME Pick(p) PROVE \E list \in Seq(Household) : page' = [page EXCEPT ![p].people = list]
  <2>1. \E S : page' = [page EXCEPT ![p].people = Marked(s, S)]
    BY <1>4 DEF Pick
  <2> QED BY <1>3, <2>1
<1>5. ASSUME AddPerson(p) PROVE \E list \in Seq(Household) : page' = [page EXCEPT ![p].people = list]
  <2>1. PICK n \in Folk :
          page' = [page EXCEPT ![p].people =
                  IF \E i \in DOMAIN @ : @[i].name = n
                  THEN Marked(@, {i \in DOMAIN @ : i \in Picked(p) \/ @[i].name = n})
                  ELSE Append(@, Person(n, FALSE, TRUE))]
    BY <1>5 DEF AddPerson
  <2> DEFINE more == Append(s, Person(n, FALSE, TRUE))
             all  == Marked(s, {i \in DOMAIN s : i \in Picked(p) \/ s[i].name = n})
  <2>2. more \in Seq(Household)
    <3> DEFINE x == Person(n, FALSE, TRUE)
    <3>1. x \in Household
      BY DEF Person, Household
    <3> HIDE DEF s, x
    <3>2. Append(s, x) \in Seq(Household)
      BY <1>1, <3>1
    <3> QED BY <3>2 DEF x
  <2>3. all \in Seq(Household)
    BY <1>3
  <2>4. page' = [page EXCEPT ![p].people = IF \E i \in DOMAIN s : s[i].name = n THEN all ELSE more]
    BY <2>1
  <2> HIDE DEF all, more
  <2> QED BY <2>2, <2>3, <2>4
<1>6. PICK list \in Seq(Household) : page' = [page EXCEPT ![p].people = list]
  BY <1>4, <1>5
<1>7. page' = [page EXCEPT ![p] = [page[p] EXCEPT !.mode = page[p].mode, !.people = list]]
      /\ page[p].mode \in {"queue", "appointment"}
  BY <1>6, ModeKept
<1> QED BY <1>2, <1>7, ListTyped

LEMMA SwitchModeTyped ==
  ASSUME JoinTyped, JoinInv', NEW p \in Phones, SwitchMode(p)
  PROVE  JoinTyped'
<1> DEFINE s == page[p].people
           first == IF Picked(p) = {} THEN 1 ELSE Min(Picked(p))
           mode == IF page[p].mode = "queue" THEN "appointment" ELSE "queue"
           list == IF page[p].mode = "appointment" THEN s ELSE Marked(s, {first})
<1>1. UNCHANGED <<server, joining, booking, astray>> /\ Crosses(p)
  BY DEF SwitchMode
<1>2. page' = [page EXCEPT ![p].mode = mode, ![p].people = list]
  BY DEF SwitchMode
<1>3. s \in Seq(Household)
  BY PhoneHas DEF ShownTyped
<1>4. list \in Seq(Household) /\ mode \in {"queue", "appointment"}
  <2> HIDE DEF s, first
  <2> QED BY <1>3, MarkedList
<1> HIDE DEF list, mode
<1>5. page' = [page EXCEPT ![p] = [page[p] EXCEPT !.mode = mode, !.people = list]]
  BY <1>2, PhoneHas
<1> QED BY <1>1, <1>4, <1>5, ListTyped

LEMMA BackTyped ==
  ASSUME JoinTyped, JoinInv', NEW p \in Phones, Back(p)
  PROVE  JoinTyped'
<1> DEFINE x == page[p]
           q == [x EXCEPT !.step = "landing"]
<1>1. UNCHANGED <<server, joining, booking, astray, crossed>>
  BY DEF Back
<1>2. page' = [page EXCEPT ![p] = q]
  BY PhoneHas DEF Back
<1>3. Pagelike(x) /\ ShownTyped(x, DOMAIN spots, DOMAIN appts)
  BY PhoneHas
<1> HIDE DEF x
<1>4. ShownTyped(q, DOMAIN spots, DOMAIN appts)
  BY <1>3 DEF Pagelike, ShownTyped
<1> HIDE DEF q
<1> QED BY <1>1, <1>2, <1>4, PageAloneTyped

-----------------------------------------------------------------------------
\* A join or a booking that changes, and the page with it or not.
LEMMA JoinTypedStep ==
  ASSUME JoinTyped, NEW p \in Phones, Join(p), JoinInv'
  PROVE  JoinTyped'
<1> DEFINE x == page[p]
           q == [x EXCEPT !.told = FALSE]
           j == [phase |-> "sent", left |-> Selected(p), got |-> <<>>]
           b == booking[p]
<1>1. /\ joining' = [joining EXCEPT ![p] = j] /\ Selected(p) # <<>> /\ Crosses(p)
      /\ UNCHANGED server /\ UNCHANGED booking /\ UNCHANGED astray
      /\ page' = [page EXCEPT ![p].told = FALSE]
  BY DEF Join
<1>2. page' = [page EXCEPT ![p] = q] /\ booking' = [booking EXCEPT ![p] = b]
  BY <1>1, PhoneHas
<1>3. Pagelike(x) /\ ShownTyped(x, DOMAIN spots, DOMAIN appts) /\ BookTyped(b, DOMAIN appts)
  BY PhoneHas
<1>4. JobTyped(j, DOMAIN spots)
  BY <1>1, SelectedTyped, NothingListed DEF JobTyped
<1>5. AsideTyped'
  BY <1>1 DEF JoinTyped, AsideTyped, Crosses, server
<1> HIDE DEF x, j, b
<1>6. ShownTyped(q, DOMAIN spots, DOMAIN appts)
  BY <1>3 DEF Pagelike, ShownTyped
<1> HIDE DEF q
<1>7. PhoneTyped(q, j, b, DOMAIN spots, DOMAIN appts)
  BY <1>3, <1>4, <1>6 DEF PhoneTyped
<1> QED BY <1>1, <1>2, <1>5, <1>7, PhoneAloneTyped

LEMMA FinishTyped ==
  ASSUME JoinTyped, JoinInv', NEW p \in Phones, NEW got, NEW failed, Finish(p, got, failed),
         Range(got) \subseteq DOMAIN spots, joining' = [joining EXCEPT ![p] = NoJob],
         UNCHANGED server, UNCHANGED booking, AsideTyped'
  PROVE  JoinTyped'
<1> DEFINE x == page[p]
           q == IF got = <<>> THEN [x EXCEPT !.told = failed]
                ELSE [x EXCEPT !.told = failed, !.ids = got, !.urlIds = got, !.urlAppt = NoAppt,
                               !.step = "confirmed"]
           b == booking[p]
<1>1. page' = [page EXCEPT ![p] = q] /\ booking' = [booking EXCEPT ![p] = b]
  BY PhoneHas DEF Finish
<1>2. Pagelike(x) /\ ShownTyped(x, DOMAIN spots, DOMAIN appts) /\ BookTyped(b, DOMAIN appts)
  BY PhoneHas
<1>3. JobTyped(NoJob, DOMAIN spots)
  BY LandingTyped
<1> HIDE DEF x, b
<1>4. ShownTyped(q, DOMAIN spots, DOMAIN appts)
  <2>1. CASE got = <<>>
    BY <1>2, <2>1 DEF Pagelike, ShownTyped
  <2>2. CASE got # <<>>
    BY <1>2, <2>2 DEF Pagelike, ShownTyped
  <2> QED BY <2>1, <2>2
<1> HIDE DEF q
<1>5. PhoneTyped(q, NoJob, b, DOMAIN spots, DOMAIN appts)
  BY <1>2, <1>3, <1>4 DEF PhoneTyped
<1> QED BY <1>1, <1>5, PhoneAloneTyped

LEMMA AnswerJoinTyped ==
  ASSUME JoinTyped, JoinInv', NEW p \in Phones, AnswerJoin(p)
  PROVE  JoinTyped'
<1> DEFINE j == joining[p]
           got == Append(j.got, j.spot)
<1>1. j.phase \in {"done", "refused"} /\ UNCHANGED server /\ UNCHANGED booking /\ UNCHANGED astray
      /\ UNCHANGED crossed
  BY DEF AnswerJoin
<1>2. JobTyped(j, DOMAIN spots) /\ Listing(j.got) /\ j # NoJob
  BY <1>1, PhoneHas DEF Joblike, NoJob
<1>3. Range(got) = Range(j.got) \cup {j.spot}
  BY <1>2, ListingAppend
<1>4. AsideTyped'
  BY <1>1 DEF JoinTyped, AsideTyped, server
<1>5. CASE j.phase = "done" /\ Len(j.left) > 1
  <2> DEFINE k == [phase |-> "sent", left |-> Tail(j.left), got |-> got]
             q == page[p]
             b == booking[p]
  <2>1. joining' = [joining EXCEPT ![p] = k] /\ page' = page
    BY <1>5 DEF AnswerJoin
  <2>2. page' = [page EXCEPT ![p] = q] /\ booking' = [booking EXCEPT ![p] = b]
    BY <1>1, <2>1, PhoneHas
  <2>3. ShownTyped(q, DOMAIN spots, DOMAIN appts) /\ BookTyped(b, DOMAIN appts)
    BY PhoneHas
  <2>4. j.left \in Seq(Household) /\ Len(j.left) > 1
    BY <1>2, <1>5 DEF JobTyped
  <2>5. Tail(j.left) \in Seq(Household) /\ Tail(j.left) # <<>>
    <3> DEFINE s == j.left
    <3> HIDE DEF s
    <3>1. s \in Seq(Household) /\ Len(s) > 1 => Tail(s) \in Seq(Household) /\ Tail(s) # <<>>
      OBVIOUS
    <3> QED BY <2>4, <3>1 DEF s
  <2>6. Range(got) \subseteq DOMAIN spots
    BY <1>2, <1>3, <1>5 DEF JobTyped
  <2>7. JobTyped(k, DOMAIN spots)
    <3> HIDE DEF got
    <3> QED BY <2>5, <2>6 DEF JobTyped
  <2> HIDE DEF k, q, b
  <2>8. PhoneTyped(q, k, b, DOMAIN spots, DOMAIN appts)
    BY <2>3, <2>7 DEF PhoneTyped
  <2> QED BY <1>1, <1>4, <2>1, <2>2, <2>8, PhoneAloneTyped
<1>6. CASE ~(j.phase = "done" /\ Len(j.left) > 1)
  <2> DEFINE all == IF j.phase = "done" THEN got ELSE j.got
             no  == j.phase = "refused"
  <2>1. joining' = [joining EXCEPT ![p] = NoJob] /\ Finish(p, all, no)
    BY <1>6 DEF AnswerJoin
  <2>2. Range(all) \subseteq DOMAIN spots
    BY <1>2, <1>3 DEF JobTyped
  <2> HIDE DEF all, no
  <2> QED BY <1>1, <1>4, <2>1, <2>2, FinishTyped
<1> QED BY <1>5, <1>6

LEMMA LoseJoinTyped ==
  ASSUME JoinTyped, JoinInv', NEW p \in Phones, LoseJoin(p)
  PROVE  JoinTyped'
<1> DEFINE got == joining[p].got
<1>1. /\ joining' = [joining EXCEPT ![p] = NoJob] /\ Finish(p, got, TRUE)
      /\ astray' = IF joining[p].phase = "done" THEN astray \cup {joining[p].spot} ELSE astray
      /\ UNCHANGED server /\ UNCHANGED booking /\ UNCHANGED crossed
  BY DEF LoseJoin
<1>2. JobTyped(joining[p], DOMAIN spots)
  BY PhoneHas
<1>3. AsideTyped'
  BY <1>1, <1>2 DEF JoinTyped, AsideTyped, JobTyped, server
<1>4. Range(got) \subseteq DOMAIN spots
  BY <1>2 DEF JobTyped
<1> HIDE DEF got
<1> QED BY <1>1, <1>3, <1>4, FinishTyped

LEMMA BookTypedStep ==
  ASSUME JoinTyped, JoinInv', NEW p \in Phones, Book(p)
  PROVE  JoinTyped'
<1>1. PICK t \in Times :
        booking' = [booking EXCEPT ![p] = [phase |-> "sent", who |-> Selected(p)[1].name, time |-> t]]
  BY DEF Book
<1> DEFINE q == page[p]
           j == joining[p]
           b == [phase |-> "sent", who |-> Selected(p)[1].name, time |-> t]
<1>2. /\ Selected(p) # <<>> /\ Crosses(p)
      /\ UNCHANGED server /\ UNCHANGED page /\ UNCHANGED joining /\ UNCHANGED astray
  BY DEF Book
<1>3. page' = [page EXCEPT ![p] = q] /\ joining' = [joining EXCEPT ![p] = j]
      /\ booking' = [booking EXCEPT ![p] = b]
  BY <1>1, <1>2, PhoneHas
<1>4. ShownTyped(q, DOMAIN spots, DOMAIN appts) /\ JobTyped(j, DOMAIN spots)
  BY PhoneHas
<1>5. Selected(p)[1].name \in Folk
  <2>1. Selected(p)[1] \in Household
    BY <1>2, SelectedTyped
  <2> QED BY <2>1 DEF Household
<1>6. BookTyped(b, DOMAIN appts)
  BY <1>5 DEF BookTyped
<1>7. AsideTyped'
  BY <1>2 DEF JoinTyped, AsideTyped, Crosses, server
<1> HIDE DEF q, j, b
<1>8. PhoneTyped(q, j, b, DOMAIN spots, DOMAIN appts)
  BY <1>4, <1>6 DEF PhoneTyped
<1> QED BY <1>2, <1>3, <1>7, <1>8, PhoneAloneTyped

LEMMA AnswerBookingTyped ==
  ASSUME JoinTyped, JoinInv', NEW p \in Phones, AnswerBooking(p) \/ LoseBooking(p)
  PROVE  JoinTyped'
<1> DEFINE x == page[p]
           a == booking[p].appt
           y == [x EXCEPT !.appt = a, !.urlAppt = a, !.urlIds = <<>>, !.step = "confirmed"]
           j == joining[p]
<1>1. /\ booking' = [booking EXCEPT ![p] = NoBook]
      /\ UNCHANGED server /\ UNCHANGED joining /\ UNCHANGED astray /\ UNCHANGED crossed
  BY DEF AnswerBooking, LoseBooking
<1>2. joining' = [joining EXCEPT ![p] = j]
  BY <1>1, PhoneHas
<1>3. page' = [page EXCEPT ![p] = x] \/ (page' = [page EXCEPT ![p] = y] /\ booking[p].phase = "done")
  <2>1. CASE LoseBooking(p)
    BY <2>1, PhoneHas DEF LoseBooking
  <2>2. CASE AnswerBooking(p) /\ booking[p].phase = "refused"
    BY <2>2, PhoneHas DEF AnswerBooking
  <2>3. CASE AnswerBooking(p) /\ booking[p].phase # "refused"
    BY <2>3, PhoneHas DEF AnswerBooking
  <2> QED BY <2>1, <2>2, <2>3
<1>4. /\ Pagelike(x) /\ ShownTyped(x, DOMAIN spots, DOMAIN appts) /\ JobTyped(j, DOMAIN spots)
      /\ booking[p].phase = "done" => a \in DOMAIN appts
  BY PhoneHas DEF BookTyped
<1>5. BookTyped(NoBook, DOMAIN appts) /\ AsideTyped'
  BY <1>1, LandingTyped DEF JoinTyped, AsideTyped, server
<1> HIDE DEF x, a, j
<1>6. booking[p].phase = "done" => ShownTyped(y, DOMAIN spots, DOMAIN appts)
  BY <1>4, NothingListed DEF Pagelike, ShownTyped
<1> HIDE DEF y
<1>7. CASE page' = [page EXCEPT ![p] = x]
  <2>1. PhoneTyped(x, j, NoBook, DOMAIN spots, DOMAIN appts)
    BY <1>4, <1>5 DEF PhoneTyped
  <2> QED BY <1>1, <1>2, <1>5, <1>7, <2>1, PhoneAloneTyped
<1>8. CASE page' = [page EXCEPT ![p] = y] /\ booking[p].phase = "done"
  <2>1. PhoneTyped(y, j, NoBook, DOMAIN spots, DOMAIN appts)
    BY <1>4, <1>5, <1>6, <1>8 DEF PhoneTyped
  <2> QED BY <1>1, <1>2, <1>5, <1>8, <2>1, PhoneAloneTyped
<1> QED BY <1>3, <1>7, <1>8

LEMMA BackToMainMenuTyped ==
  ASSUME JoinTyped, JoinInv', NEW p \in Phones, BackToMainMenu(p)
  PROVE  JoinTyped'
<1> DEFINE told == page[p].told
           q == [Landing EXCEPT !.told = told]
           j == joining[p]
           b == booking[p]
<1>1. /\ page' = [page EXCEPT ![p] = q]
      /\ astray' = astray \cup Range(page[p].ids) \cup Range(page[p].urlIds)
      /\ UNCHANGED server /\ UNCHANGED joining /\ UNCHANGED booking /\ UNCHANGED crossed
  BY DEF BackToMainMenu
<1>2. joining' = [joining EXCEPT ![p] = j] /\ booking' = [booking EXCEPT ![p] = b]
  BY <1>1, PhoneHas
<1>3. ShownTyped(page[p], DOMAIN spots, DOMAIN appts) /\ JobTyped(j, DOMAIN spots) /\ BookTyped(b, DOMAIN appts)
  BY PhoneHas
<1>4. AsideTyped'
  BY <1>1, <1>3 DEF JoinTyped, AsideTyped, ShownTyped, server
<1> HIDE DEF told, j, b
<1>5. ShownTyped(q, DOMAIN spots, DOMAIN appts)
  BY NoListing, NothingListed DEF Landing, ShownTyped
<1> HIDE DEF q
<1>6. PhoneTyped(q, j, b, DOMAIN spots, DOMAIN appts)
  BY <1>3, <1>5 DEF PhoneTyped
<1> QED BY <1>1, <1>2, <1>4, <1>6, PhoneAloneTyped

LEMMA ReloadTyped ==
  ASSUME JoinTyped, JoinInv', NEW p \in Phones, Reload(p)
  PROVE  JoinTyped'
<1> DEFINE ids  == page[p].urlIds
           urlAppt == page[p].urlAppt
           q == IF ids # <<>> THEN [Landing EXCEPT !.step = "confirmed", !.ids = ids, !.urlIds = ids]
                ELSE IF urlAppt # NoAppt
                THEN [Landing EXCEPT !.step = "confirmed", !.mode = "appointment",
                                     !.appt = urlAppt, !.urlAppt = urlAppt]
                ELSE Landing
<1>1. /\ page' = [page EXCEPT ![p] = q]
      /\ joining' = [joining EXCEPT ![p] = NoJob] /\ booking' = [booking EXCEPT ![p] = NoBook]
      /\ astray' = astray \cup InFlight(p) \cup (IF p \in crossed THEN Range(page[p].ids) ELSE {})
      /\ crossed' = crossed \ {p} /\ UNCHANGED server
  BY DEF Reload
<1>2. ShownTyped(page[p], DOMAIN spots, DOMAIN appts) /\ JobTyped(joining[p], DOMAIN spots)
  BY PhoneHas
<1>3. InFlight(p) \subseteq DOMAIN spots
  BY <1>2 DEF InFlight, JobTyped
<1>4. AsideTyped'
  BY <1>1, <1>2, <1>3 DEF JoinTyped, AsideTyped, ShownTyped, server
<1>5. Range(ids) \subseteq DOMAIN spots /\ urlAppt \in {NoAppt} \cup DOMAIN appts
  BY <1>2 DEF ShownTyped
<1> HIDE DEF ids, urlAppt
<1>6. ShownTyped(q, DOMAIN spots, DOMAIN appts)
  <2>1. CASE ids # <<>>
    BY <1>5, <2>1, NoListing DEF ShownTyped, Landing
  <2>2. CASE ids = <<>> /\ urlAppt # NoAppt
    BY <1>5, <2>2, NoListing, NothingListed DEF ShownTyped, Landing
  <2>3. CASE ids = <<>> /\ urlAppt = NoAppt
    BY <2>3, LandingTyped
  <2> QED BY <2>1, <2>2, <2>3
<1> HIDE DEF q
<1>7. PhoneTyped(q, NoJob, NoBook, DOMAIN spots, DOMAIN appts)
  BY <1>6, LandingTyped DEF PhoneTyped
<1> QED BY <1>1, <1>4, <1>7, PhoneAloneTyped

-----------------------------------------------------------------------------
\* The server's steps.
LEMMA ServeBookingTyped ==
  ASSUME JoinTyped, JoinInv', NEW p \in Phones, ServeBooking(p)
  PROVE  JoinTyped'
<1> DEFINE q == page[p]
           j == joining[p]
           b == booking[p]
<1>1. /\ b.phase = "sent" /\ UNCHANGED spots /\ UNCHANGED open /\ UNCHANGED page /\ UNCHANGED joining
      /\ UNCHANGED astray /\ UNCHANGED crossed
  BY DEF ServeBooking
<1>2. page' = [page EXCEPT ![p] = q] /\ joining' = [joining EXCEPT ![p] = j]
  BY <1>1, PhoneHas
<1>3. /\ ShownTyped(q, DOMAIN spots, DOMAIN appts) /\ JobTyped(j, DOMAIN spots)
      /\ BookTyped(b, DOMAIN appts) /\ Booklike(b)
  BY PhoneHas
<1>4. b = [phase |-> "sent", who |-> b.who, time |-> b.time] /\ b.who \in Folk /\ b.time \in Times
  BY <1>1, <1>3 DEF BookTyped, Booklike
<1>5. appts \in Seq(Reserved) /\ onFile \subseteq Folk
  BY DEF JoinTyped, ServerTyped
<1>6. AsideTyped'
  BY <1>1 DEF JoinTyped, AsideTyped
<1>7. CASE Taken(b.time)
  <2> DEFINE c == [phase |-> "refused", who |-> b.who, time |-> b.time]
  <2>1. booking' = [booking EXCEPT ![p].phase = "refused"] /\ appts' = appts /\ onFile' = onFile
    BY <1>7 DEF ServeBooking
  <2>2. booking' = [booking EXCEPT ![p] = [b EXCEPT !.phase = "refused"]]
    BY <2>1, PhoneHas
  <2>3. [b EXCEPT !.phase = "refused"] = c
    BY <1>4
  <2>4. booking' = [booking EXCEPT ![p] = c]
    BY <2>2, <2>3
  <2>5. BookTyped(c, DOMAIN appts)
    BY <1>4 DEF BookTyped
  <2>6. UNCHANGED server
    BY <1>1, <2>1 DEF server
  <2> HIDE DEF q, j, b, c
  <2>7. PhoneTyped(q, j, c, DOMAIN spots, DOMAIN appts)
    BY <1>3, <2>5 DEF PhoneTyped
  <2> QED BY <1>2, <1>6, <2>4, <2>6, <2>7, PhoneAloneTyped
<1>8. CASE ~Taken(b.time)
  <2> DEFINE c == [phase |-> "done", appt |-> Len(appts) + 1]
             rowOf(n) == [who |-> n, picked |-> b.who, time |-> b.time, status |-> "booked"]
  <2>1. /\ booking' = [booking EXCEPT ![p] = c]
        /\ \E n \in IF onFile = {} THEN {b.who} ELSE onFile : appts' = Append(appts, rowOf(n))
        /\ onFile' = IF onFile = {} THEN {b.who} ELSE onFile
    BY <1>8 DEF ServeBooking
  <2>2. PICK n \in IF onFile = {} THEN {b.who} ELSE onFile : appts' = Append(appts, rowOf(n))
    BY <2>1
  <2>3. rowOf(n) \in Reserved
    BY <1>4, <1>5 DEF Reserved
  <2>4. onFile' \subseteq Folk
    BY <1>4, <1>5, <2>1
  <2> DEFINE e == rowOf(n)
  <2>5. e \in Reserved /\ appts' = Append(appts, e)
    BY <2>2, <2>3
  <2> HIDE DEF rowOf, e, b
  <2>6. /\ appts' \in Seq(Reserved) /\ DOMAIN appts \subseteq DOMAIN appts'
        /\ Len(appts) + 1 \in DOMAIN appts'
    <3>1. Len(appts) \in Nat /\ DOMAIN appts = 1 .. Len(appts)
      BY <1>5, LenProperties
    <3>2. appts' \in Seq(Reserved) /\ Len(appts') = Len(appts) + 1
      BY <1>5, <2>5
    <3>3. DOMAIN appts' = 1 .. Len(appts')
      BY <3>2, LenProperties
    <3> QED BY <3>1, <3>2, <3>3
  <2>7. ServerTyped'
    BY <1>1, <2>4, <2>6 DEF JoinTyped, ServerTyped
  <2>8. BookTyped(c, DOMAIN appts')
    BY <2>6 DEF BookTyped
  <2>9. DOMAIN spots \subseteq DOMAIN spots' /\ ShownTyped(q, DOMAIN spots', DOMAIN appts') /\ JobTyped(j, DOMAIN spots')
    BY <1>1, <1>3, <2>6 DEF ShownTyped, JobTyped
  <2> HIDE DEF q, j, c
  <2>10. PhoneTyped(q, j, c, DOMAIN spots', DOMAIN appts')
    BY <2>8, <2>9 DEF PhoneTyped
  <2> QED BY <1>2, <1>6, <2>1, <2>6, <2>7, <2>9, <2>10, PhoneStepTyped
<1> QED BY <1>7, <1>8

LEMMA ServeJoinTyped ==
  ASSUME JoinTyped, JoinInv', NEW p \in Phones, ServeJoin(p)
  PROVE  JoinTyped'
<1> DEFINE q == page[p]
           j == joining[p]
           b == booking[p]
           x == Head(j.left)
           n == x.name
           refused == ~open \/ (~x.known /\ x.name \in onFile)
           spot == IF Live(n) = {} THEN Len(spots) + 1 ELSE Min(Live(n))
           k == [phase |-> "done", left |-> j.left, got |-> j.got, spot |-> spot]
<1>1. /\ j.phase = "sent" /\ UNCHANGED appts /\ UNCHANGED open /\ UNCHANGED page /\ UNCHANGED booking
      /\ UNCHANGED astray /\ UNCHANGED crossed
  BY DEF ServeJoin
<1>2. page' = [page EXCEPT ![p] = q] /\ booking' = [booking EXCEPT ![p] = b]
  BY <1>1, PhoneHas
<1>3. /\ ShownTyped(q, DOMAIN spots, DOMAIN appts) /\ JobTyped(j, DOMAIN spots)
      /\ BookTyped(b, DOMAIN appts) /\ Joblike(j)
  BY PhoneHas
<1>4. j = [phase |-> "sent", left |-> j.left, got |-> j.got]
      /\ j.left \in Seq(Household) /\ j.left # <<>> /\ Range(j.got) \subseteq DOMAIN spots
  BY <1>1, <1>3 DEF JobTyped, Joblike, NoJob
<1>5. spots \in Seq(SpotRow) /\ onFile \subseteq Folk /\ astray \subseteq DOMAIN spots /\ crossed \subseteq Phones
  BY DEF JoinTyped, ServerTyped, AsideTyped
<1>6. CASE refused
  <2> DEFINE c == [phase |-> "refused", left |-> j.left, got |-> j.got]
  <2>1. joining' = [joining EXCEPT ![p].phase = "refused"] /\ spots' = spots /\ onFile' = onFile
    BY <1>6 DEF ServeJoin
  <2>2. joining' = [joining EXCEPT ![p] = [j EXCEPT !.phase = "refused"]]
    BY <2>1, PhoneHas
  <2>3. [j EXCEPT !.phase = "refused"] = c
    BY <1>4
  <2>4. joining' = [joining EXCEPT ![p] = c]
    BY <2>2, <2>3
  <2>5. JobTyped(c, DOMAIN spots)
    BY <1>4 DEF JobTyped
  <2>6. UNCHANGED server
    BY <1>1, <2>1 DEF server
  <2>7. AsideTyped'
    BY <1>1, <1>5, <2>1 DEF AsideTyped
  <2> HIDE DEF q, j, b, c
  <2>8. PhoneTyped(q, c, b, DOMAIN spots, DOMAIN appts)
    BY <1>3, <2>5 DEF PhoneTyped
  <2> QED BY <1>2, <2>4, <2>6, <2>7, <2>8, PhoneAloneTyped
<1>7. CASE ~refused
  <2> DEFINE e == [who |-> n, status |-> "waiting"]
  <2>1. /\ joining' = [joining EXCEPT ![p] = k]
        /\ spots' = IF spot \in DOMAIN spots THEN spots ELSE Append(spots, e)
        /\ onFile' = onFile \cup {n}
    BY <1>7 DEF ServeJoin
  <2>2. n \in Folk
    <3> DEFINE l == j.left
    <3>1. l \in Seq(Household) /\ l # <<>>
      BY <1>4
    <3> HIDE DEF l
    <3>2. Head(l) \in Household
      BY <3>1
    <3> QED BY <3>2 DEF Household, l
  <2>3. Live(n) # {} => spot \in DOMAIN spots
    BY LiveIsOne DEF JoinTyped
  <2>4. Live(n) = {} => spot = Len(spots) + 1
    OBVIOUS
  <2>5. e \in SpotRow
    BY <2>2 DEF SpotRow
  <2>6. onFile' \subseteq Folk
    BY <1>5, <2>1, <2>2
  <2> HIDE DEF spot, e, n
  <2>7. /\ spots' \in Seq(SpotRow) /\ DOMAIN spots \subseteq DOMAIN spots' /\ spot \in DOMAIN spots'
    <3>1. Len(spots) \in Nat /\ DOMAIN spots = 1 .. Len(spots)
      BY <1>5, LenProperties
    <3>2. CASE spot \in DOMAIN spots
      BY <1>5, <2>1, <3>2
    <3>3. CASE spot \notin DOMAIN spots
      <4>1. spot = Len(spots) + 1 /\ spots' = Append(spots, e)
        BY <2>1, <2>3, <2>4, <3>3
      <4>2. spots' \in Seq(SpotRow) /\ Len(spots') = Len(spots) + 1
        BY <1>5, <2>5, <4>1
      <4>3. DOMAIN spots' = 1 .. Len(spots')
        BY <4>2, LenProperties
      <4> QED BY <3>1, <4>1, <4>2, <4>3
    <3> QED BY <3>2, <3>3
  <2>8. ServerTyped'
    BY <1>1, <2>6, <2>7 DEF JoinTyped, ServerTyped
  <2>9. AsideTyped'
    BY <1>1, <1>5, <2>7 DEF AsideTyped
  <2>10. JobTyped(k, DOMAIN spots')
    BY <1>4, <2>7 DEF JobTyped
  <2>11. DOMAIN appts \subseteq DOMAIN appts' /\ ShownTyped(q, DOMAIN spots', DOMAIN appts') /\ BookTyped(b, DOMAIN appts')
    BY <1>1, <1>3, <2>7 DEF ShownTyped, BookTyped
  <2> HIDE DEF q, b, k
  <2>12. PhoneTyped(q, k, b, DOMAIN spots', DOMAIN appts')
    BY <2>10, <2>11 DEF PhoneTyped
  <2> QED BY <1>2, <2>1, <2>7, <2>8, <2>9, <2>11, <2>12, PhoneStepTyped
<1> QED BY <1>6, <1>7

\* The rows change and the phones do not.
LEMMA RowsTyped ==
  ASSUME JoinTyped, JoinInv', UNCHANGED page, UNCHANGED joining, UNCHANGED booking, UNCHANGED astray,
         UNCHANGED crossed, ServerTyped', DOMAIN spots' = DOMAIN spots, DOMAIN appts' = DOMAIN appts
  PROVE  JoinTyped'
<1>1. AsideTyped'
  BY DEF JoinTyped, AsideTyped
<1>2. ASSUME NEW p \in Phones
      PROVE  PhoneTyped(page'[p], joining'[p], booking'[p], DOMAIN spots', DOMAIN appts')
  BY DEF JoinTyped
<1> QED BY <1>1, <1>2 DEF JoinTyped

LEMMA SpotAloneTyped ==
  ASSUME JoinTyped, JoinInv', UNCHANGED page, UNCHANGED joining, UNCHANGED booking, UNCHANGED astray,
         UNCHANGED crossed, UNCHANGED onFile, UNCHANGED appts, UNCHANGED open,
         NEW i, NEW st \in {"in_service", "gone"}, spots' = [spots EXCEPT ![i].status = st]
  PROVE  JoinTyped'
<1>1. spots \in Seq(SpotRow)
  BY DEF JoinTyped, ServerTyped
<1>2. Len(spots) \in Nat /\ DOMAIN spots = 1 .. Len(spots) /\ \A k \in 1 .. Len(spots) : spots[k] \in SpotRow
  BY <1>1, LenProperties, ElementOfSeq
<1> DEFINE x == spots[i]
           y == [x EXCEPT !.status = st]
<1>3. spots' \in Seq(SpotRow) /\ DOMAIN spots' = DOMAIN spots
  <2>1. CASE i \in DOMAIN spots
    <3>1. x \in SpotRow
      BY <1>2, <2>1
    <3>2. spots' = [spots EXCEPT ![i] = y]
      BY <1>1
    <3> HIDE DEF x
    <3>3. y \in SpotRow
      BY <3>1 DEF SpotRow
    <3> HIDE DEF y
    <3>4. [spots EXCEPT ![i] = y] \in Seq(SpotRow) /\ Len([spots EXCEPT ![i] = y]) = Len(spots)
      BY <1>1, <1>2, <2>1, <3>3, ExceptSeq
    <3>5. Len(spots') = Len(spots) /\ spots' \in Seq(SpotRow)
      BY <3>2, <3>4
    <3>6. DOMAIN spots' = 1 .. Len(spots')
      BY <3>5, LenProperties
    <3> QED BY <1>2, <3>5, <3>6
  <2>2. CASE i \notin DOMAIN spots
    <3>1. spots = [k \in DOMAIN spots |-> spots[k]]
      BY <1>1, <1>2
    <3>2. spots' = spots
      BY <2>2, <3>1
    <3> QED BY <1>1, <3>2
  <2> QED BY <2>1, <2>2
<1>4. ServerTyped' /\ DOMAIN appts' = DOMAIN appts
  BY <1>3 DEF JoinTyped, ServerTyped
<1> QED BY <1>3, <1>4, RowsTyped

LEMMA CancelSpotTyped ==
  ASSUME JoinTyped, JoinInv', NEW p \in Phones, CancelSpot(p)
  PROVE  JoinTyped'
<1>1. PICK i \in Range(page[p].ids) : spots' = [spots EXCEPT ![i].status = "gone"]
  BY DEF CancelSpot
<1>2. /\ UNCHANGED page /\ UNCHANGED joining /\ UNCHANGED booking /\ UNCHANGED astray
      /\ UNCHANGED crossed /\ UNCHANGED onFile /\ UNCHANGED appts /\ UNCHANGED open
  BY DEF CancelSpot
<1> DEFINE st == "gone"
<1>3. st \in {"in_service", "gone"} /\ spots' = [spots EXCEPT ![i].status = st]
  BY <1>1
<1> HIDE DEF st
<1> QED BY <1>2, <1>3, SpotAloneTyped

LEMMA AdvanceTyped ==
  ASSUME JoinTyped, JoinInv', Advance
  PROVE  JoinTyped'
<1>1. PICK i \in DOMAIN spots :
        spots' = [spots EXCEPT ![i].status = IF @ = "waiting" THEN "in_service" ELSE "gone"]
  BY DEF Advance
<1>2. /\ UNCHANGED page /\ UNCHANGED joining /\ UNCHANGED booking /\ UNCHANGED astray
      /\ UNCHANGED crossed /\ UNCHANGED onFile /\ UNCHANGED appts /\ UNCHANGED open
  BY DEF Advance
<1> DEFINE st == IF spots[i].status = "waiting" THEN "in_service" ELSE "gone"
<1>3. st \in {"in_service", "gone"} /\ spots' = [spots EXCEPT ![i].status = st]
  BY <1>1
<1> HIDE DEF st
<1> QED BY <1>2, <1>3, SpotAloneTyped

LEMMA ChangeApptTyped ==
  ASSUME JoinTyped, JoinInv', NEW p \in Phones, ChangeAppt(p)
  PROVE  JoinTyped'
<1> DEFINE i == page[p].appt
           x == appts[i]
<1>1. /\ UNCHANGED page /\ UNCHANGED joining /\ UNCHANGED booking /\ UNCHANGED astray
      /\ UNCHANGED crossed /\ UNCHANGED onFile /\ UNCHANGED spots /\ UNCHANGED open /\ i # NoAppt
      /\ \/ appts' = [appts EXCEPT ![i].status = "cancelled"]
         \/ \E t \in Times : appts' = [appts EXCEPT ![i].time = t]
  BY DEF ChangeAppt
<1>2. appts \in Seq(Reserved)
  BY DEF JoinTyped, ServerTyped
<1>3. Len(appts) \in Nat /\ DOMAIN appts = 1 .. Len(appts) /\ \A k \in 1 .. Len(appts) : appts[k] \in Reserved
  BY <1>2, LenProperties, ElementOfSeq
<1>4. i \in DOMAIN appts
  BY <1>1, PhoneHas DEF ShownTyped
<1>5. x \in Reserved
  BY <1>3, <1>4
<1>6. \/ appts' = [appts EXCEPT ![i] = [x EXCEPT !.status = "cancelled"]]
      \/ \E t \in Times : appts' = [appts EXCEPT ![i] = [x EXCEPT !.time = t]]
  BY <1>1
<1>7. \E y \in Reserved : appts' = [appts EXCEPT ![i] = y]
  <2> HIDE DEF i, x
  <2>1. [x EXCEPT !.status = "cancelled"] \in Reserved
    BY <1>5 DEF Reserved
  <2>2. \A t \in Times : [x EXCEPT !.time = t] \in Reserved
    BY <1>5 DEF Reserved
  <2> QED BY <1>6, <2>1, <2>2
<1>8. PICK y \in Reserved : appts' = [appts EXCEPT ![i] = y]
  BY <1>7
<1> HIDE DEF i
<1>9. appts' \in Seq(Reserved) /\ Len(appts') = Len(appts)
  BY <1>2, <1>3, <1>4, <1>8, ExceptSeq
<1>10. DOMAIN appts' = DOMAIN appts
  BY <1>3, <1>9, LenProperties
<1>11. ServerTyped' /\ DOMAIN spots' = DOMAIN spots
  BY <1>1, <1>9 DEF JoinTyped, ServerTyped
<1> QED BY <1>1, <1>10, <1>11, RowsTyped

LEMMA CloseLineTyped ==
  ASSUME JoinTyped, JoinInv', CloseLine \/ UNCHANGED joinVars
  PROVE  JoinTyped'
<1>1. /\ UNCHANGED page /\ UNCHANGED joining /\ UNCHANGED booking /\ UNCHANGED astray
      /\ UNCHANGED crossed /\ UNCHANGED onFile /\ UNCHANGED spots /\ UNCHANGED appts
      /\ open' \in {open, FALSE}
  BY DEF CloseLine, joinVars
<1>2. ServerTyped' /\ DOMAIN spots' = DOMAIN spots /\ DOMAIN appts' = DOMAIN appts
  BY <1>1 DEF JoinTyped, ServerTyped
<1> QED BY <1>1, <1>2, RowsTyped

LEMMA JoinTypedKept == JoinTyped /\ [JoinPageNext]_joinVars => JoinTyped'
<1> SUFFICES ASSUME JoinTyped, [JoinPageNext]_joinVars PROVE JoinTyped'
  OBVIOUS
<1>1. JoinInv'
  BY JoinStep DEF JoinTyped
<1>2. ASSUME NEW p \in Phones, EnterFlow(p) \/ Pick(p) \/ AddPerson(p) \/ SwitchMode(p) \/ Back(p)
      PROVE  JoinTyped'
  BY <1>1, <1>2, EnterFlowTyped, PickTyped, SwitchModeTyped, BackTyped
<1>3. ASSUME NEW p \in Phones, Join(p) \/ AnswerJoin(p) \/ LoseJoin(p) \/ ServeJoin(p) \/ CancelSpot(p)
      PROVE  JoinTyped'
  BY <1>1, <1>3, JoinTypedStep, AnswerJoinTyped, LoseJoinTyped, ServeJoinTyped, CancelSpotTyped
<1>4. ASSUME NEW p \in Phones, Book(p) \/ AnswerBooking(p) \/ LoseBooking(p) \/ ServeBooking(p) \/ ChangeAppt(p)
      PROVE  JoinTyped'
  BY <1>1, <1>4, BookTypedStep, AnswerBookingTyped, ServeBookingTyped, ChangeApptTyped
<1>5. ASSUME NEW p \in Phones, BackToMainMenu(p) \/ Reload(p)
      PROVE  JoinTyped'
  BY <1>1, <1>5, BackToMainMenuTyped, ReloadTyped
<1>6. CASE Advance \/ CloseLine \/ UNCHANGED joinVars
  BY <1>1, <1>6, AdvanceTyped, CloseLineTyped
<1> QED BY <1>2, <1>3, <1>4, <1>5, <1>6 DEF JoinPageNext

LEMMA JoinIsTyped == JoinTyped => JoinPageTypeOK
<1> SUFFICES ASSUME JoinTyped PROVE JoinPageTypeOK
  OBVIOUS
<1>1. onFile \subseteq Folk /\ open \in BOOLEAN /\ crossed \subseteq Phones
  BY DEF JoinTyped, ServerTyped, AsideTyped
<1>2. ASSUME NEW i \in DOMAIN spots
      PROVE  spots[i].who \in Folk /\ spots[i].status \in {"waiting", "in_service", "gone"}
  <2>1. spots[i] \in SpotRow
    BY ElementOfSeq, LenProperties DEF JoinTyped, ServerTyped
  <2> QED BY <2>1 DEF SpotRow
<1>3. ASSUME NEW i \in DOMAIN appts PROVE appts[i].who \in Folk /\ appts[i].time \in Times
  <2>1. appts[i] \in Reserved
    BY ElementOfSeq, LenProperties DEF JoinTyped, ServerTyped
  <2> QED BY <2>1 DEF Reserved
<1>4. ASSUME NEW p \in Phones
      PROVE  /\ page[p].step \in {"landing", "details", "confirmed"}
             /\ page[p].mode \in {"queue", "appointment"}
             /\ page[p].appt \in {NoAppt} \cup DOMAIN appts
             /\ Range(page[p].ids) \cup astray \subseteq DOMAIN spots
  BY PhoneHas DEF ShownTyped, JoinTyped, AsideTyped
<1> QED BY <1>1, <1>2, <1>3, <1>4 DEF JoinPageTypeOK

\* The page lists people of the household, shows spots and an appointment there are, and whatever left it
\* astray is a row of the line.
THEOREM JoinPageTyped == JoinPageSpec => []JoinPageTypeOK
<1>1. JoinPageSpec => []JoinTyped
  BY JoinStartsTyped, JoinTypedKept, PTL DEF JoinPageSpec
<1>2. QED BY <1>1, JoinIsTyped, PTL

-----------------------------------------------------------------------------
(***************************************************************************)
(* The office.  A step of it is a step of one component and of no other,   *)
(* so it implements every component's specification and keeps what they    *)
(* promise.                                                                *)
(***************************************************************************)

LEMMA OfficeStarts ==
  OfficeInit => /\ RefundInit /\ ShopDayInit /\ FloorInit /\ BookingInit /\ ClientInit
                /\ FloorPageInit /\ JoinPageInit
  BY DEF OfficeInit

LEMMA OfficeSteps ==
  [OfficeNext]_officeVars =>
    /\ [RefundNext]_refundVars /\ [ShopDayNext]_shopDayVars /\ [FloorNext]_floorVars
    /\ [BookingNext]_bookingVars /\ [ClientNext]_clientVars /\ [FloorPageNext]_pageVars
    /\ [JoinPageNext]_joinVars
  BY DEF OfficeNext, Elsewhere, officeVars

\* At each desk the office runs the component's own specification; the tablets' fairness is stated for
\* the behaviours that are spent at their desk.
THEOREM EveryDeskItsOwn ==
  OfficeSpec => /\ RefundSpec /\ ShopDaySpec /\ FloorSpec /\ BookingSpec /\ ClientSpec /\ JoinPageSpec
                /\ FloorPageInit /\ [][FloorPageNext]_pageVars
  BY OfficeStarts, OfficeSteps, PTL
  DEF OfficeSpec, RefundSpec, ShopDaySpec, FloorSpec, BookingSpec, ClientSpec, JoinPageSpec

AtSomeDesk == desk \in {"refunds", "shopDay", "floor", "booking", "clients", "floorPage", "joinPage"}

\* Every variable of the component at work holds a value of its kind, whatever component that is.
THEOREM OfficeTyped == OfficeSpec => []OfficeTypeOK
<1>1. OfficeInit => AtSomeDesk
  BY DEF OfficeInit, AtSomeDesk
<1>2. AtSomeDesk /\ [OfficeNext]_officeVars => AtSomeDesk'
  BY DEF AtSomeDesk, OfficeNext, officeVars
<1>3. PageTyped => FloorPageTypeOK
  BY DEF PageTyped, FloorPageTypeOK, PageRequests, PagePhases
<1>4. /\ AtSomeDesk /\ RefundTypeOK /\ ShopDayTypeOK /\ FloorTypeOK /\ BookingTypeOK /\ ClientTypeOK
      /\ FloorPageTypeOK /\ JoinPageTypeOK
      => OfficeTypeOK
  BY DEF AtSomeDesk, OfficeTypeOK
<1>5. OfficeSpec => []AtSomeDesk
  BY <1>1, <1>2, PTL DEF OfficeSpec
<1>6. OfficeSpec => []FloorPageTypeOK
  BY <1>3, EveryDeskItsOwn, PageTypedStarts, PageTypedStep, PTL
<1> QED
  BY <1>4, <1>5, <1>6, EveryDeskItsOwn, RefundsTyped, ShopDayTyped, FloorTyped, BookingsTyped, ClientsTyped,
     JoinPageTyped, PTL

\* So the office as a whole keeps what its components promise.
THEOREM OfficeKeepsItsPromises ==
  OfficeSpec => /\ []RefundsFit /\ []PaidBackIsAccounted /\ []VarianceExplained /\ []DirectoryHolds
                /\ []BusyAloneOnlyByOverlap /\ []CycleNeedsReturnOrReassign /\ ImplementsEventLog
                /\ []NoDoubleBooking /\ []FloorFollowsCalendar /\ FinalUnlessReadBefore
                /\ []FloorPageHolds /\ []JoinPageHolds
<1>1. OfficeSpec => []FloorPageHolds
  BY EveryDeskItsOwn, FloorPageStarts, FloorPageStep, PageTypedStarts, PageTypedStep, TabletsTell, PTL
<1> QED
  BY <1>1, EveryDeskItsOwn, NothingOverpaid, RefundsAccounted, DrawerExplained, DirectoryKept,
     BusyAloneByOverlap, CyclesNeedTwoOrders, EventLogImplemented, NobodyTwice, LineFollows, FinalStays,
     HouseholdKept, PTL
=============================================================================
