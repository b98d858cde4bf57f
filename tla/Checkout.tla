------------------------------ MODULE Checkout ------------------------------
(***************************************************************************)
(* Checkouts that overlap: payments.service.ts:checkout, statement by      *)
(* statement, each request in the READ COMMITTED transaction that          *)
(* rls-transaction.middleware.ts opens for it on a pooled connection.  The *)
(* card processor is called inside the transaction, and COMMIT comes after *)
(* the response.                                                           *)
(*                                                                         *)
(* When the client of a request is gone the middleware rolls back and      *)
(* gives the connection away, but nothing stops the handler.  What it      *)
(* still executes runs on the connection it was given: it fails while the  *)
(* connection is in the pool, as the row-level policies know no location,  *)
(* and belongs to the transaction of whoever has the connection next.      *)
(***************************************************************************)
EXTENDS Integers, FiniteSets

CONSTANTS
  Requests,   \* checkout requests, of one location
  Keys,       \* idempotency keys, one for every checkout form a tablet opens
  Visits,     \* queue_entries rows that may be checked out
  Products,   \* retail products
  Conns,      \* the connections of the pool
  None,       \* no product, no connection, no owner
  Impatient,  \* the requests whose clients may be gone before the handler has finished
  Batches,    \* what the requests may ask for, a bound on the model
  Counts      \* stock counts, a bound on the model

Order == [key: Keys, visit: Visits, product: Products \cup {None}, qty: Nat,
          card: BOOLEAN, newService: BOOLEAN]
Locks == Keys \cup Visits \cup Products

ASSUME CheckoutConstants ==
  /\ Batches \subseteq [Requests -> Order]
  /\ Counts \subseteq Nat
  /\ Impatient \subseteq Requests
  /\ None \notin Products \cup Conns \cup Requests
  /\ Keys \cap Visits = {} /\ Keys \cap Products = {} /\ Visits \cap Products = {}

VARIABLES
  order,     \* what each request asks for: a retry has the key of the request it repeats
  visit,     \* queue_entries.status
  stock,     \* products.stock_qty
  attempts,  \* the requests whose payment_attempts row is committed
  sales,     \* the requests whose transactions row is committed
  charged,   \* the keys the processor has taken money for
  pc,        \* the statement each handler is about to execute
  conn,      \* the connection each handler was given
  owner,     \* the request whose transaction is open on each connection
  txn,       \* the uncommitted work on each connection
  gone,      \* the requests whose client hung up before it had the response
  saw        \* the sales of the visit that a handler could see when it read the row again

db   == <<visit, stock, attempts, sales>>
vars == <<order, db, charged, pc, conn, owner, txn, gone, saw>>

Statuses   == {"waiting", "in_service", "completed"}
Statements == {"entry", "service", "stock", "attempt", "finish", "complete"}
Running    == Statements \cup {"charge", "respond"}

\* failed: a statement failed, and PostgreSQL refuses everything but the end.
Txn == [locks: SUBSET Locks, attempts: SUBSET Requests, sales: SUBSET Requests,
        visits: SUBSET Visits, taken: [Products -> Nat], failed: BOOLEAN]

NoTxn == [locks |-> {}, attempts |-> {}, sales |-> {}, visits |-> {},
          taken |-> [p \in Products |-> 0], failed |-> FALSE]

-----------------------------------------------------------------------------
SoldKeys == {order[s].key : s \in sales}

\* A transaction sees what is committed and what it wrote itself.
Attempted(c, k) == \E a \in attempts \cup txn[c].attempts : order[a].key = k
StatusIn(c, v)  == IF v \in txn[c].visits THEN "completed" ELSE visit[v]
StockIn(c, p)   == stock[p] - txn[c].taken[p]
SalesIn(c, v)   == {s \in sales \cup txn[c].sales : order[s].visit = v}

Free(c, L)  == \A d \in Conns \ {c} : L \cap txn[d].locks = {}
Goods(r)    == {order[r].product} \ {None}
Usable(r)   == owner[conn[r]] # None /\ ~txn[conn[r]].failed
At(r, step) == pc[r] = step /\ Usable(r)

\* The locks the next statement of r has to wait for.
Needed(r) ==
  IF ~Usable(r) THEN {} ELSE
  CASE pc[r] \in {"service", "complete"} -> {order[r].visit}
    [] pc[r] \in {"stock", "finish"}     -> Goods(r)
    [] pc[r] = "attempt"                 -> {order[r].key}
    [] OTHER -> {}

WaitsFor(r, d) == d # conn[r] /\ Needed(r) \cap txn[d].locks # {}

\* Connections each of which waits for another of the set, and no fewer of them.
Circle(S) ==
  LET Stuck(T) == \A c \in T : \E r \in Requests, d \in T :
                    pc[r] \in Running /\ conn[r] = c /\ WaitsFor(r, d)
  IN  S # {} /\ Stuck(S) /\ \A T \in SUBSET S \ {S, {}} : ~Stuck(T)

-----------------------------------------------------------------------------
Goto(r, step) == pc' = [pc EXCEPT ![r] = step]
Write(r, t)   == txn' = [txn EXCEPT ![conn[r]] = t] /\ UNCHANGED owner
Lock(r, L)    == Write(r, [txn[conn[r]] EXCEPT !.locks = @ \cup L])

Release_KeepsLocks(r) == owner' = [owner EXCEPT ![conn[r]] = None] /\ UNCHANGED txn

\* The end of the transaction, and of the use of its connection.
Release(r) ==
  /\ txn' = [txn EXCEPT ![conn[r]] = NoTxn]
  /\ owner' = [owner EXCEPT ![conn[r]] = None]

Refuse_KeepsConnection(r) ==
  /\ Goto(r, "done")
  /\ UNCHANGED owner
  /\ IF r \in gone THEN UNCHANGED txn ELSE txn' = [txn EXCEPT ![conn[r]] = NoTxn]

\* The handler throws: the response is an error, and an error rolls back, unless there is
\* no transaction of its own to roll back.
Refuse(r) ==
  /\ Goto(r, "done")
  /\ IF r \in gone THEN UNCHANGED <<txn, owner>> ELSE Release(r)

\* PostgreSQL fails the statement and with it the transaction it runs in.
Abort(r) ==
  IF r \in gone
  THEN Goto(r, "done") /\ Write(r, [NoTxn EXCEPT !.failed = TRUE])
  ELSE Refuse(r)

\* The request takes a connection that is free.  A key with an attempt is answered with
\* its sale, or refused.
Begin(r) ==
  /\ pc[r] = "idle"
  /\ \E c \in Conns :
       /\ owner[c] = None
       /\ \/ /\ ~Attempted(c, order[r].key)
             /\ Goto(r, "entry")
             /\ conn' = [conn EXCEPT ![r] = c]
             /\ owner' = [owner EXCEPT ![c] = r]
          \/ /\ Attempted(c, order[r].key)
             /\ Goto(r, "done")
             /\ UNCHANGED <<conn, owner>>
  /\ UNCHANGED <<order, db, charged, txn, gone, saw>>

ReadEntry(r) ==
  /\ At(r, "entry")
  /\ \/ /\ StatusIn(conn[r], order[r].visit) = "in_service"
        /\ Goto(r, IF order[r].newService THEN "service" ELSE "stock")
        /\ UNCHANGED <<txn, owner>>
     \/ StatusIn(conn[r], order[r].visit) # "in_service" /\ Refuse(r)
  /\ UNCHANGED <<order, db, charged, conn, gone, saw>>

\* The visit's service is replaced before anything else is checked.
ReplaceService(r) ==
  /\ At(r, "service")
  /\ Free(conn[r], {order[r].visit})
  /\ Lock(r, {order[r].visit})
  /\ Goto(r, "stock")
  /\ UNCHANGED <<order, db, charged, conn, gone, saw>>

InStock(r) == \A p \in Goods(r) : StockIn(conn[r], p) >= order[r].qty

LockStock_ReadOnly(r) ==
  /\ At(r, "stock")
  /\ \/ InStock(r) /\ Goto(r, "attempt") /\ UNCHANGED <<txn, owner>>
     \/ ~InStock(r) /\ Refuse(r)
  /\ UNCHANGED <<order, db, charged, conn, gone, saw>>

\* SELECT ... FOR UPDATE of the product, then the check of the count it returned.
LockStock(r) ==
  /\ At(r, "stock")
  /\ Free(conn[r], Goods(r))
  /\ \/ InStock(r) /\ Goto(r, "attempt") /\ Lock(r, Goods(r))
     \/ ~InStock(r) /\ Refuse(r)
  /\ UNCHANGED <<order, db, charged, conn, gone, saw>>

WithAttempt(r) ==
  [txn[conn[r]] EXCEPT !.locks = @ \cup {order[r].key}, !.attempts = @ \cup {r}]

AfterAttempt(r) == Goto(r, IF order[r].card THEN "charge" ELSE "finish")

InsertAttempt_NoIndex(r) ==
  /\ At(r, "attempt")
  /\ Write(r, WithAttempt(r))
  /\ AfterAttempt(r)
  /\ UNCHANGED <<order, db, charged, conn, gone, saw>>

\* The unique index makes a second attempt with the key wait for the first transaction,
\* and fails it once that one has committed.
InsertAttempt(r) ==
  /\ At(r, "attempt")
  /\ Free(conn[r], {order[r].key})
  /\ \/ /\ ~Attempted(conn[r], order[r].key)
        /\ Write(r, WithAttempt(r))
        /\ AfterAttempt(r)
     \/ Attempted(conn[r], order[r].key) /\ Abort(r)
  /\ UNCHANGED <<order, db, charged, conn, gone, saw>>

\* The processor takes the money for a key once.  An adapter reports an answer that was
\* lost as a failure, so a refusal may come with or without the money.
Charge(r) ==
  /\ pc[r] = "charge"
  /\ charged' \in {charged, charged \cup {order[r].key}}
  /\ \/ order[r].key \in charged' /\ Goto(r, "finish") /\ UNCHANGED <<txn, owner>>
     \/ Refuse(r)
  /\ UNCHANGED <<order, db, conn, gone, saw>>

WithSale(r) ==
  [txn[conn[r]] EXCEPT !.locks = @ \cup Goods(r), !.sales = @ \cup {r},
     !.taken = [p \in Products |-> @[p] + IF p \in Goods(r) THEN order[r].qty ELSE 0]]

Look(r) == saw' = [saw EXCEPT ![r] = SalesIn(conn[r], order[r].visit)]

FinishSale_Unchecked(r) ==
  /\ At(r, "finish")
  /\ Free(conn[r], Goods(r))
  /\ Look(r)
  /\ Write(r, WithSale(r))
  /\ Goto(r, "complete")
  /\ UNCHANGED <<order, db, charged, conn, gone>>

\* The sale is written and the stock taken, then finalizeCompletion reads the row again.
FinishSale(r) ==
  LET unchanged == StatusIn(conn[r], order[r].visit) = "in_service" IN
  /\ At(r, "finish")
  /\ Free(conn[r], Goods(r))
  /\ Look(r)
  /\ \/ unchanged  /\ Write(r, WithSale(r)) /\ Goto(r, "complete")
     \/ ~unchanged /\ r \in gone    /\ Write(r, WithSale(r)) /\ Goto(r, "done")
     \/ ~unchanged /\ r \notin gone /\ Refuse(r)
  /\ UNCHANGED <<order, db, charged, conn, gone>>

\* UPDATE queue_entries waits for the row and does not look at the status it finds.
Complete(r) ==
  /\ At(r, "complete")
  /\ Free(conn[r], {order[r].visit})
  /\ Write(r, [txn[conn[r]] EXCEPT !.locks = @ \cup {order[r].visit},
                                   !.visits = @ \cup {order[r].visit}])
  /\ Goto(r, IF r \in gone THEN "done" ELSE "respond")
  /\ UNCHANGED <<order, db, charged, conn, gone, saw>>

Commit(r) ==
  LET t == txn[conn[r]] IN
  /\ At(r, "respond")
  /\ visit' = [v \in Visits |-> StatusIn(conn[r], v)]
  /\ stock' = [p \in Products |-> StockIn(conn[r], p)]
  /\ attempts' = attempts \cup t.attempts
  /\ sales' = sales \cup t.sales
  /\ Goto(r, "done")
  /\ Release(r)
  /\ UNCHANGED <<order, charged, conn, gone, saw>>

\* The middleware swallows the error of a COMMIT that failed.
CommitFails(r) ==
  /\ pc[r] = "respond"
  /\ Refuse(r)
  /\ UNCHANGED <<order, db, charged, conn, gone, saw>>

\* There is no transaction, or there is one that failed.
StatementFails(r) ==
  /\ pc[r] \in Statements
  /\ ~Usable(r)
  /\ Refuse(r)
  /\ UNCHANGED <<order, db, charged, conn, gone, saw>>

\* PostgreSQL fails a statement that is part of a circle.
BreakDeadlock(r) ==
  /\ \E S \in SUBSET Conns : Circle(S) /\ conn[r] \in S /\ \E d \in S : WaitsFor(r, d)
  /\ Abort(r)
  /\ UNCHANGED <<order, db, charged, conn, gone, saw>>

\* The client is gone: ROLLBACK, behind the statement under way, and the connection is
\* free.  The handler does not hear of it.
HangUp(r) ==
  /\ pc[r] \in IF r \in Impatient THEN Running ELSE {"respond"}
  /\ r \notin gone
  /\ \A d \in Conns : ~WaitsFor(r, d)
  /\ gone' = gone \cup {r}
  /\ IF pc[r] = "respond" THEN Goto(r, "done") ELSE UNCHANGED pc
  /\ Release(r)
  /\ UNCHANGED <<order, db, charged, conn, saw>>

-----------------------------------------------------------------------------
(* What other requests do meanwhile. *)

\* The floor starts a visit, or takes one back: LiveQueue has the details.
MoveVisit(v) ==
  /\ Free(None, {v})
  /\ visit[v] # "completed"
  /\ visit' = [visit EXCEPT ![v] = IF @ = "waiting" THEN "in_service" ELSE "waiting"]
  /\ UNCHANGED <<order, stock, attempts, sales, charged, pc, conn, owner, txn, gone, saw>>

\* The manager saves a product with the count the form shows.
UpdateProduct(p, n) ==
  /\ Free(None, {p})
  /\ stock' = [stock EXCEPT ![p] = n]
  /\ UNCHANGED <<order, visit, attempts, sales, charged, pc, conn, owner, txn, gone, saw>>

-----------------------------------------------------------------------------
Init ==
  /\ order \in Batches
  /\ visit = [v \in Visits |-> "in_service"]
  /\ stock \in [Products -> Counts]
  /\ attempts = {} /\ sales = {} /\ charged = {} /\ gone = {}
  /\ pc = [r \in Requests |-> "idle"]
  /\ conn = [r \in Requests |-> None]
  /\ owner = [c \in Conns |-> None]
  /\ txn = [c \in Conns |-> NoTxn]
  /\ saw = [r \in Requests |-> {}]

\* What the pool, the server, the database and the processor do for a request.
Serve(r) ==
  \/ Begin(r) \/ ReadEntry(r) \/ ReplaceService(r) \/ LockStock(r) \/ InsertAttempt(r)
  \/ Charge(r) \/ FinishSale(r) \/ Complete(r) \/ Commit(r) \/ CommitFails(r)
  \/ StatementFails(r) \/ BreakDeadlock(r)

Next ==
  \/ \E r \in Requests : Serve(r) \/ HangUp(r)
  \/ \E v \in Visits : MoveVisit(v)
  \/ \E p \in Products, n \in Counts : UpdateProduct(p, n)

\* The pool gives a free connection to who waits for one, the server executes the next
\* statement of a handler, the database gives a free lock to who waits and looks for
\* deadlocks, and a call of the processor times out.
Fairness == \A r \in Requests : WF_vars(Serve(r))

Spec == Init /\ [][Next]_vars /\ Fairness

-----------------------------------------------------------------------------
TypeOK ==
  /\ order \in [Requests -> Order]
  /\ visit \in [Visits -> Statuses]
  /\ stock \in [Products -> Int]
  /\ attempts \subseteq Requests /\ sales \subseteq Requests /\ gone \subseteq Requests
  /\ charged \subseteq Keys
  /\ pc \in [Requests -> Running \cup {"idle", "done"}]
  /\ conn \in [Requests -> Conns \cup {None}]
  /\ owner \in [Conns -> Requests \cup {None}]
  /\ txn \in [Conns -> Txn]
  /\ saw \in [Requests -> SUBSET Requests]

\* A connection that is out of the pool belongs to a request that is still served, a
\* connection in the pool has no transaction open, and no lock has two holders: nothing
\* a request does, or leaves behind, uses up the pool.
PoolIntact ==
  /\ \A r \in Requests :
       /\ pc[r] \in {"idle", "respond"} => r \notin gone
       /\ pc[r] \in Running => conn[r] \in Conns
       /\ pc[r] \in Running /\ r \notin gone => owner[conn[r]] = r
  /\ \A c \in Conns :
       /\ owner[c] = None => txn[c] = NoTxn
       /\ owner[c] # None =>
            pc[owner[c]] \in Running /\ conn[owner[c]] = c /\ owner[c] \notin gone
  /\ \A c, d \in Conns : c # d => txn[c].locks \cap txn[d].locks = {}

\* Without handlers that outlive their transaction: from the insert of its attempt on a
\* request has its key to itself, from the check of the stock on it has its product, and
\* it writes a card sale only after the processor took the money.
PastStock   == {"attempt", "charge", "finish", "complete", "respond"}
PastAttempt == {"charge", "finish", "complete", "respond"}
PastCharge  == {"finish", "complete", "respond"}
PastSale    == {"complete", "respond"}

Work(r) ==
  LET t == txn[conn[r]] IN
  /\ ~t.failed
  /\ t.attempts = IF pc[r] \in PastAttempt THEN {r} ELSE {}
  /\ t.sales    = IF pc[r] \in PastSale THEN {r} ELSE {}
  /\ t.taken    = [p \in Products |->
                     IF pc[r] \in PastSale /\ p \in Goods(r) THEN order[r].qty ELSE 0]

Covered(r) ==
  /\ r \notin gone
  /\ Work(r)
  /\ pc[r] \in PastAttempt =>
       /\ order[r].key \in txn[conn[r]].locks
       /\ \A a \in attempts : order[a].key # order[r].key
  /\ pc[r] \in PastStock =>
       \A p \in Goods(r) : p \in txn[conn[r]].locks /\ stock[p] >= order[r].qty
  /\ pc[r] \in PastCharge /\ order[r].card => order[r].key \in charged

Guarded == sales \subseteq attempts /\ \A r \in Requests : pc[r] \in Running => Covered(r)

IInv == TypeOK /\ PoolIntact /\ (Impatient = {} => Guarded)

\* If no handler outlives its transaction, every key sells at most once, a card sale on
\* the books is paid and no item is sold that is not in stock, however checkouts, retries,
\* lost answers, deadlocks, failed commits and a manager's recounts interleave.
T == INSTANCE Till
ImplementsTill == T!Spec

\* A visit is never sold to a request that could see an earlier sale of it: the second
\* look at the row catches every checkout that does not overlap the first to the end.
NotSoldTwiceKnowingly ==
  \A q, r \in sales : q # r /\ order[q].visit = order[r].visit => q \notin saw[r]

\* Every request comes to an end, whoever hangs up: no lock and no connection is kept by a
\* request that is over, and every circle of waiting requests is broken.
Answered == \A r \in Requests : <>(pc[r] = "done")

\* payments.service.ts:87: only an in-service entry can be checked out, so a visit that is
\* not reopened has one sale.
VisitSoldOnce == \A q, r \in sales : order[q].visit = order[r].visit => q = r

\* rls-transaction.middleware.ts:27-34: the transaction is held across the handler and
\* closed exactly once, on a client disconnect as well, so a request whose client left
\* before the response is rolled back as a whole.
DisconnectRollsBack == \A r \in gone : r \notin sales

=============================================================================
