------------------------------ MODULE Refunds ------------------------------
(***************************************************************************)
(* payments.service.ts:refund.  A request runs in a READ COMMITTED         *)
(* transaction of its own and locks nothing it reads: it looks for a       *)
(* refund with its key, adds up what the sale has already given back,      *)
(* asks the processor when the sale was paid by card, and inserts its row. *)
(* The unique index on the key is all that two requests meet in.           *)
(***************************************************************************)
EXTENDS Integers, FiniteSets, Functions

CONSTANTS
  Refunds,    \* refund requests
  CardSales,  \* sales paid by card, whose processor reference is on the row
  CashSales,  \* sales paid in cash
  SaleTotal,  \* transactions.total of each
  Asks        \* what the requests may ask for: a key, a sale and an amount; a bound on the model

Sales == CardSales \cup CashSales
Ask   == [key: Nat, sale: Sales, amount: Nat]

ASSUME RefundConstants ==
  /\ Asks \subseteq [Refunds -> Ask] /\ Asks # {}
  /\ CardSales \cap CashSales = {} /\ SaleTotal \in [Sales -> Nat]

VARIABLES
  ask,       \* what each refund request asks for
  refundPc,  \* the statement each handler is about to execute
  summed,    \* the refunds each handler added up
  paidBack,  \* the requests whose refund the processor has made
  inserted,  \* the requests whose row is written and not committed
  booked     \* the requests whose row is committed

refundVars == <<ask, refundPc, summed, paidBack, inserted, booked>>

RefundInit ==
  /\ ask \in Asks
  /\ refundPc = [r \in Refunds |-> "idle"]
  /\ summed = [r \in Refunds |-> {}]
  /\ paidBack = {} /\ inserted = {} /\ booked = {}

-----------------------------------------------------------------------------
Due       == [r \in Refunds |-> ask[r].amount]
Amount(R) == SumFunctionOnSet(Due, R)
Of(R, s)  == {r \in R : ask[r].sale = s}
WithKey(R, k) == {r \in R : ask[r].key = k}

RefundGoto(r, step) == refundPc' = [refundPc EXCEPT ![r] = step]

\* The answer to a key that has a refund is that refund.
LookForKey(r) ==
  /\ refundPc[r] = "idle"
  /\ RefundGoto(r, IF WithKey(booked, ask[r].key) = {} THEN "sum" ELSE "done")
  /\ UNCHANGED <<ask, summed, paidBack, inserted, booked>>

\* What is left of the sale is read without a lock.
SumRefunds(r) ==
  /\ refundPc[r] = "sum"
  /\ summed' = [summed EXCEPT ![r] = Of(booked, ask[r].sale)]
  /\ LET remaining == SaleTotal[ask[r].sale] - Amount(Of(booked, ask[r].sale))
     IN  RefundGoto(r, IF ask[r].amount \notin 1..remaining THEN "refused"
                       ELSE IF ask[r].sale \in CardSales THEN "pay" ELSE "insert")
  /\ UNCHANGED <<ask, paidBack, inserted, booked>>

\* The processor makes one refund for a key, refuses the key for another refund, and gives
\* back no more than it was paid.
ProcessorAccepts(r) ==
  LET same == WithKey(paidBack, ask[r].key)
  IN  IF same # {} THEN \A p \in same : ask[p] = ask[r]
      ELSE Amount(Of(paidBack, ask[r].sale)) + ask[r].amount <= SaleTotal[ask[r].sale]

ProcessorPays(r) ==
  paidBack' = IF WithKey(paidBack, ask[r].key) # {} THEN paidBack ELSE paidBack \cup {r}

PayBack_BookedFirst(r) ==
  /\ refundPc[r] = "pay"
  /\ RefundGoto(r, "insert")
  /\ UNCHANGED <<ask, summed, paidBack, inserted, booked>>

\* The adapters take "succeeded" and "pending" for a success and everything they catch for a
\* refusal, an answer that was lost on the way included.
PayBack(r) ==
  /\ refundPc[r] = "pay"
  /\ \/ ProcessorAccepts(r) /\ ProcessorPays(r) /\ RefundGoto(r, "insert")
     \/ ProcessorAccepts(r) /\ ProcessorPays(r) /\ RefundGoto(r, "unanswered")
     \/ RefundGoto(r, "refused") /\ UNCHANGED paidBack /\ r \notin paidBack
  /\ UNCHANGED <<ask, summed, inserted, booked>>

InsertRefund_NoWait(r) ==
  /\ refundPc[r] = "insert"
  /\ IF WithKey(booked \cup inserted, ask[r].key) = {}
     THEN inserted' = inserted \cup {r} /\ RefundGoto(r, "commit")
     ELSE UNCHANGED inserted /\ RefundGoto(r, "refused")
  /\ UNCHANGED <<ask, summed, paidBack, booked>>

\* The unique index makes a second row with the key wait for the first transaction, and
\* fail when that one commits.
InsertRefund(r) ==
  /\ refundPc[r] = "insert"
  /\ WithKey(inserted, ask[r].key) = {}
  /\ IF WithKey(booked, ask[r].key) = {}
     THEN inserted' = inserted \cup {r} /\ RefundGoto(r, "commit")
     ELSE UNCHANGED inserted /\ RefundGoto(r, "refused")
  /\ UNCHANGED <<ask, summed, paidBack, booked>>

\* The transaction commits after the answer.
CommitRefund(r) ==
  /\ refundPc[r] = "commit"
  /\ inserted' = inserted \ {r}
  /\ booked' = booked \cup {r}
  /\ RefundGoto(r, "done")
  /\ UNCHANGED <<ask, summed, paidBack>>

\* The client hangs up, the server stops or COMMIT fails: the transaction is gone, not so
\* what the processor did.
DropRefund(r) ==
  /\ refundPc[r] \in {"sum", "pay", "insert", "commit"}
  /\ inserted' = inserted \ {r}
  /\ RefundGoto(r, "dropped")
  /\ UNCHANGED <<ask, summed, paidBack, booked>>

RefundNext ==
  \E r \in Refunds :
    \/ LookForKey(r) \/ SumRefunds(r) \/ PayBack(r) \/ InsertRefund(r)
    \/ CommitRefund(r) \/ DropRefund(r)

RefundSpec == RefundInit /\ [][RefundNext]_refundVars

RefundTypeOK ==
  /\ ask \in [Refunds -> Ask]
  /\ refundPc \in [Refunds -> {"idle", "sum", "pay", "insert", "commit", "done", "refused",
                               "unanswered", "dropped"}]
  /\ summed \in [Refunds -> SUBSET Refunds]
  /\ paidBack \subseteq Refunds /\ inserted \subseteq Refunds /\ booked \subseteq Refunds

\* The card refunds that are booked and those the processor has made without a row (the
\* answer was lost, the transaction was dropped) fit in the sale together: whatever the other
\* requests do, the retry of a refund that was made is not refused for want of a remainder.
PaidStillFits ==
  \A s \in CardSales :
    LET unbooked == {p \in Of(paidBack, s) : WithKey(booked, ask[p].key) = {}}
    IN  Amount(Of(booked, s)) + Amount(unbooked) <= SaleTotal[s]

\* A refund the processor has made and answered is booked, about to be, or was dropped with
\* its transaction; it is never turned down by another request with its key that fails later.
PaidBackIsAccounted ==
  \A p \in paidBack :
    \/ refundPc[p] \in {"insert", "commit", "dropped", "unanswered"}
    \/ WithKey(booked, ask[p].key) # {}

\* Cash refunds come to more than the sale only when two of them were under way together and
\* neither added the other up.
CashOverpaidOnlyTogether ==
  \A s \in CashSales :
    Amount(Of(booked, s)) > SaleTotal[s] =>
      \E a, b \in Of(booked, s) : a # b /\ a \notin summed[b] /\ b \notin summed[a]

\* Nothing is given back beyond the sale: by card never, in cash only by two refunds at once.
RefundsFit == PaidStillFits /\ CashOverpaidOnlyTogether
=============================================================================
