--------------------------- MODULE CheckoutProofs ---------------------------
(***************************************************************************)
(* What is proved of Checkout for any number of requests, keys, visits,    *)
(* products and connections.                                               *)
(*                                                                         *)
(* Each statement changes at most the transaction on its own connection.   *)
(* The pool's part of the invariant holds whoever hangs up.  The till's    *)
(* part needs a transaction for each handler, and then no other handler    *)
(* writes in it: the promise holds at the COMMIT because the request still *)
(* has the locks under which it checked.                                   *)
(***************************************************************************)
EXTENDS Checkout, TLAPS

-----------------------------------------------------------------------------
(* Types of the transactions a statement leaves. *)

LEMMA NoTxnType == NoTxn \in Txn
  BY DEF NoTxn, Txn

LEMMA FailedType == [NoTxn EXCEPT !.failed = TRUE] \in Txn
  BY DEF NoTxn, Txn

LEMMA LockedType ==
  ASSUME NEW t \in Txn, NEW L \in SUBSET Locks
  PROVE  [t EXCEPT !.locks = @ \cup L] \in Txn
  BY DEF Txn

\* What a request wants is a thing that can be locked.
LEMMA OrderTypes ==
  ASSUME TypeOK, NEW r \in Requests
  PROVE  /\ order[r].key \in Keys /\ order[r].visit \in Visits /\ order[r].qty \in Nat
         /\ Goods(r) \subseteq Products
         /\ {order[r].key} \in SUBSET Locks /\ {order[r].visit} \in SUBSET Locks
         /\ Goods(r) \in SUBSET Locks
<1>1. order[r] \in Order
  BY DEF TypeOK
<1>2. /\ order[r].key \in Keys /\ order[r].visit \in Visits /\ order[r].qty \in Nat
      /\ order[r].product \in Products \cup {None}
  BY <1>1 DEF Order
<1>3. QED
  BY <1>2 DEF Goods, Locks

LEMMA AttemptType ==
  ASSUME TypeOK, NEW r \in Requests, conn[r] \in Conns
  PROVE  WithAttempt(r) \in Txn
<1>1. txn[conn[r]] \in Txn
  BY DEF TypeOK
<1>2. QED
  BY <1>1, OrderTypes DEF WithAttempt, Txn

LEMMA CompletedType ==
  ASSUME NEW t \in Txn, NEW v \in Visits
  PROVE  [t EXCEPT !.locks = @ \cup {v}, !.visits = @ \cup {v}] \in Txn
  BY DEF Txn, Locks

LEMMA SoldType ==
  ASSUME NEW t \in Txn, NEW L \in SUBSET Locks, NEW r \in Requests,
         NEW more \in [Products -> Nat]
  PROVE  [t EXCEPT !.locks = t.locks \cup L, !.sales = t.sales \cup {r}, !.taken = more] \in Txn
  BY DEF Txn

LEMMA SaleType ==
  ASSUME TypeOK, NEW r \in Requests, conn[r] \in Conns
  PROVE  WithSale(r) \in Txn
<1> DEFINE t == txn[conn[r]]
           more == [p \in Products |-> t.taken[p] + IF p \in Goods(r) THEN order[r].qty ELSE 0]
<1>1. t \in Txn
  BY DEF TypeOK
<1>2. t.taken \in [Products -> Nat]
  BY <1>1 DEF Txn
<1>3. more \in [Products -> Nat]
  BY <1>2, OrderTypes
<1>4. WithSale(r) = [t EXCEPT !.locks = t.locks \cup Goods(r), !.sales = t.sales \cup {r},
                              !.taken = more]
  BY DEF WithSale
<1>5. Goods(r) \in SUBSET Locks
  BY OrderTypes
<1> HIDE DEF more, t
<1>6. [t EXCEPT !.locks = t.locks \cup Goods(r), !.sales = t.sales \cup {r}, !.taken = more]
        \in Txn
  BY <1>1, <1>3, <1>5, SoldType
<1>7. QED
  BY <1>4, <1>6, Zenon

-----------------------------------------------------------------------------
(* Kinds of steps. *)

\* A step that leaves r running, or finished behind a rollback, writing t.
LEMMA WriteKeepsPool ==
  ASSUME TypeOK, PoolIntact, NEW r \in Requests, pc[r] \in Running, Usable(r),
         NEW t \in Txn, NEW L, Free(conn[r], L), t.locks \subseteq txn[conn[r]].locks \cup L,
         NEW s \in Running \cup {"done"}, s = "done" => r \in gone, s = "respond" => r \notin gone,
         Write(r, t), Goto(r, s), UNCHANGED <<conn, gone>>
  PROVE  /\ txn' \in [Conns -> Txn] /\ owner' \in [Conns -> Requests \cup {None}]
         /\ pc' \in [Requests -> Running \cup {"idle", "done"}]
         /\ PoolIntact'
<1> DEFINE c == conn[r]
<1>1. c \in Conns /\ owner[c] # None
  BY DEF PoolIntact, Usable
<1>2. txn' = [txn EXCEPT ![c] = t] /\ owner' = owner /\ pc' = [pc EXCEPT ![r] = s]
      /\ conn' = conn /\ gone' = gone
  BY DEF Write, Goto
<1>3. txn' \in [Conns -> Txn] /\ owner' \in [Conns -> Requests \cup {None}]
  BY <1>1, <1>2 DEF TypeOK
<1>4. pc' \in [Requests -> Running \cup {"idle", "done"}]
  BY <1>2 DEF TypeOK
<1>5. \A q \in Requests :
        /\ pc'[q] \in {"idle", "respond"} => q \notin gone
        /\ pc'[q] \in Running => conn[q] \in Conns
        /\ pc'[q] \in Running /\ q \notin gone => owner[conn[q]] = q
  BY <1>2 DEF TypeOK, PoolIntact, Running, Statements
<1>6. \A d \in Conns :
        /\ owner[d] = None => txn'[d] = NoTxn
        /\ owner[d] # None => pc'[owner[d]] \in Running /\ conn[owner[d]] = d /\ owner[d] \notin gone
  <2> SUFFICES ASSUME NEW d \in Conns
               PROVE  /\ owner[d] = None => txn'[d] = NoTxn
                      /\ owner[d] # None => /\ pc'[owner[d]] \in Running
                                            /\ conn[owner[d]] = d /\ owner[d] \notin gone
    OBVIOUS
  <2>1. owner[d] = None => txn'[d] = NoTxn
    BY <1>1, <1>2 DEF TypeOK, PoolIntact
  <2>2. owner[d] # None => pc[owner[d]] \in Running /\ conn[owner[d]] = d /\ owner[d] \notin gone
    BY DEF PoolIntact
  <2>3. owner[d] # None => pc'[owner[d]] \in Running
    BY <1>2, <2>2 DEF TypeOK
  <2>4. QED
    BY <2>1, <2>2, <2>3
<1>7. \A d \in Conns \ {c} : t.locks \cap txn[d].locks = {}
  BY <1>1 DEF Free, PoolIntact
<1>8. \A d, e \in Conns : d # e => txn'[d].locks \cap txn'[e].locks = {}
  BY <1>1, <1>2, <1>7 DEF TypeOK, PoolIntact
<1>9. QED
  BY <1>2, <1>3, <1>4, <1>5, <1>6, <1>8 DEF PoolIntact

\* A step that takes r from one point to another and writes nothing.
LEMMA GotoKeepsPool ==
  ASSUME TypeOK, PoolIntact, NEW r \in Requests, pc[r] \in Running,
         NEW s \in Running \cup {"done"}, s = "done" => r \in gone, s = "respond" => r \notin gone,
         Goto(r, s), UNCHANGED <<txn, owner, conn, gone>>
  PROVE  pc' \in [Requests -> Running \cup {"idle", "done"}] /\ PoolIntact'
<1>1. pc' = [pc EXCEPT ![r] = s] /\ pc' \in [Requests -> Running \cup {"idle", "done"}]
  BY DEF Goto, TypeOK
<1>2. \A q \in Requests :
        /\ pc'[q] \in {"idle", "respond"} => q \notin gone
        /\ pc'[q] \in Running => conn[q] \in Conns
        /\ pc'[q] \in Running /\ q \notin gone => owner[conn[q]] = q
  BY <1>1 DEF TypeOK, PoolIntact, Running, Statements
<1>3. \A d \in Conns : owner[d] # None =>
        pc'[owner[d]] \in Running /\ conn[owner[d]] = d /\ owner[d] \notin gone
  BY <1>1 DEF TypeOK, PoolIntact
<1>4. QED
  BY <1>1, <1>2, <1>3 DEF PoolIntact

\* The end of a request that has its transaction: by an answer, or by a client that left.
LEMMA ReleaseKeepsPool ==
  ASSUME CheckoutConstants, TypeOK, PoolIntact, NEW r \in Requests, pc[r] \in Running, r \notin gone,
         Release(r), UNCHANGED conn,
         \/ Goto(r, "done") /\ gone' \in {gone, gone \cup {r}}
         \/ pc[r] # "respond" /\ UNCHANGED pc /\ gone' = gone \cup {r}
  PROVE  /\ txn' \in [Conns -> Txn] /\ owner' \in [Conns -> Requests \cup {None}]
         /\ pc' \in [Requests -> Running \cup {"idle", "done"}]
         /\ PoolIntact'
<1> DEFINE c == conn[r]
<1>1. c \in Conns /\ owner[c] = r
  BY DEF PoolIntact
<1>2. txn' = [txn EXCEPT ![c] = NoTxn] /\ owner' = [owner EXCEPT ![c] = None] /\ conn' = conn
  BY DEF Release
<1>3. /\ pc' \in [Requests -> Running \cup {"idle", "done"}]
      /\ pc'[r] = "done" \/ r \in gone'
      /\ \A q \in Requests \ {r} : pc'[q] = pc[q] /\ (q \in gone' <=> q \in gone)
  BY DEF Goto, TypeOK
<1>4. txn' \in [Conns -> Txn] /\ owner' \in [Conns -> Requests \cup {None}]
  BY <1>1, <1>2, NoTxnType DEF TypeOK
<1>5. None \notin Requests
  BY DEF CheckoutConstants
<1>6. \A q \in Requests \ {r} :
        pc[q] \in Running /\ q \notin gone => conn[q] \in Conns \ {c} /\ owner[conn[q]] = q
  BY <1>1 DEF PoolIntact
<1>7. \A q \in Requests : pc'[q] \in Running =>
        conn[q] \in Conns /\ (q \notin gone' => owner'[conn[q]] = q)
  <2> SUFFICES ASSUME NEW q \in Requests, pc'[q] \in Running
               PROVE  conn[q] \in Conns /\ (q \notin gone' => owner'[conn[q]] = q)
    OBVIOUS
  <2>1. CASE q = r
    BY <1>1, <1>3, <2>1 DEF Running, Statements
  <2>2. CASE q # r
    BY <1>2, <1>3, <1>6, <2>2 DEF TypeOK, PoolIntact
  <2>3. QED
    BY <2>1, <2>2
<1>8. \A d \in Conns :
        /\ owner'[d] = None => txn'[d] = NoTxn
        /\ owner'[d] # None =>
             pc'[owner'[d]] \in Running /\ conn[owner'[d]] = d /\ owner'[d] \notin gone'
  <2> SUFFICES ASSUME NEW d \in Conns
               PROVE  /\ owner'[d] = None => txn'[d] = NoTxn
                      /\ owner'[d] # None => /\ pc'[owner'[d]] \in Running
                                             /\ conn[owner'[d]] = d /\ owner'[d] \notin gone'
    OBVIOUS
  <2>1. CASE d = c
    BY <1>1, <1>2, <2>1 DEF TypeOK
  <2>2. CASE d # c
    <3>1. owner'[d] = owner[d] /\ txn'[d] = txn[d]
      BY <1>2, <2>2 DEF TypeOK
    <3>2. owner[d] # None => owner[d] \in Requests \ {r}
      BY <2>2 DEF TypeOK, PoolIntact
    <3>3. QED
      BY <1>3, <3>1, <3>2 DEF PoolIntact
  <2>3. QED
    BY <2>1, <2>2
<1>9. \A d, e \in Conns : d # e => txn'[d].locks \cap txn'[e].locks = {}
  BY <1>1, <1>2 DEF TypeOK, PoolIntact, NoTxn
<1>10. \A q \in Requests : pc'[q] \in {"idle", "respond"} => q \notin gone'
  BY <1>3 DEF Goto, TypeOK, PoolIntact, Running, Statements
<1>11. QED
  BY <1>2, <1>3, <1>4, <1>7, <1>8, <1>9, <1>10 DEF PoolIntact

\* An error response.
LEMMA RefuseKeepsPool ==
  ASSUME CheckoutConstants, TypeOK, PoolIntact, NEW r \in Requests, pc[r] \in Running, Refuse(r),
         UNCHANGED <<conn, gone>>
  PROVE  /\ txn' \in [Conns -> Txn] /\ owner' \in [Conns -> Requests \cup {None}]
         /\ pc' \in [Requests -> Running \cup {"idle", "done"}]
         /\ PoolIntact'
<1>1. CASE r \in gone
  BY <1>1, GotoKeepsPool DEF Refuse, TypeOK
<1>2. CASE r \notin gone
  BY <1>2, ReleaseKeepsPool DEF Refuse
<1>3. QED
  BY <1>1, <1>2

LEMMA AbortKeepsPool ==
  ASSUME CheckoutConstants, TypeOK, PoolIntact, NEW r \in Requests, pc[r] \in Running, Usable(r),
         Abort(r), UNCHANGED <<conn, gone>>
  PROVE  /\ txn' \in [Conns -> Txn] /\ owner' \in [Conns -> Requests \cup {None}]
         /\ pc' \in [Requests -> Running \cup {"idle", "done"}]
         /\ PoolIntact'
<1>1. CASE r \in gone
  <2> DEFINE t == [NoTxn EXCEPT !.failed = TRUE]
  <2>1. t \in Txn /\ t.locks = {}
    BY FailedType DEF NoTxn
  <2>2. Free(conn[r], {})
    BY DEF Free
  <2>3. Goto(r, "done") /\ Write(r, t)
    BY <1>1 DEF Abort
  <2> HIDE DEF t
  <2>4. QED
    BY <1>1, <2>1, <2>2, <2>3, WriteKeepsPool
<1>2. CASE r \notin gone
  BY <1>2, RefuseKeepsPool DEF Abort
<1>3. QED
  BY <1>1, <1>2

-----------------------------------------------------------------------------
(* The pool, whoever hangs up. *)

\* The part of the invariant the pool's lemmas need and give.
Pool == TypeOK /\ PoolIntact

LEMMA BeginPool ==
  ASSUME CheckoutConstants, Pool, NEW r \in Requests, Begin(r)
  PROVE  Pool'
<1>1. PICK c \in Conns :
        /\ owner[c] = None
        /\ \/ /\ Goto(r, "entry")
              /\ conn' = [conn EXCEPT ![r] = c]
              /\ owner' = [owner EXCEPT ![c] = r]
           \/ Goto(r, "done") /\ UNCHANGED <<conn, owner>>
  BY DEF Begin
<1>2. /\ pc[r] = "idle" /\ UNCHANGED <<order, visit, stock, attempts, sales, charged, txn, gone, saw>>
  BY DEF Begin, db
<1>3. \A d \in Conns : owner[d] # r
  BY <1>2 DEF Pool, PoolIntact, Running, Statements
<1>4. TypeOK'
  BY <1>1, <1>2 DEF Pool, TypeOK, Goto, Running, Statements
<1>5. CASE Goto(r, "entry") /\ conn' = [conn EXCEPT ![r] = c] /\ owner' = [owner EXCEPT ![c] = r]
  <2>1. \A q \in Requests :
          /\ pc'[q] \in Running => conn'[q] \in Conns
          /\ pc'[q] \in Running /\ q \notin gone => owner'[conn'[q]] = q
    <3> SUFFICES ASSUME NEW q \in Requests, pc'[q] \in Running
                 PROVE  conn'[q] \in Conns /\ (q \notin gone => owner'[conn'[q]] = q)
      OBVIOUS
    <3>1. CASE q = r
      BY <1>5, <3>1 DEF Pool, TypeOK
    <3>2. CASE q # r
      <4>1. pc[q] \in Running /\ conn'[q] = conn[q]
        BY <1>5, <3>2 DEF Pool, TypeOK, Goto
      <4>2. conn[q] \in Conns /\ (q \notin gone => owner[conn[q]] = q)
        BY <4>1 DEF Pool, PoolIntact
      <4>3. q \notin gone => conn[q] # c
        BY <1>1, <4>2 DEF CheckoutConstants
      <4>4. QED
        BY <1>5, <4>1, <4>2, <4>3 DEF Pool, TypeOK
    <3>3. QED
      BY <3>1, <3>2
  <2>2. \A d \in Conns :
          /\ owner'[d] = None => txn[d] = NoTxn
          /\ owner'[d] # None =>
               pc'[owner'[d]] \in Running /\ conn'[owner'[d]] = d /\ owner'[d] \notin gone
    <3> SUFFICES ASSUME NEW d \in Conns
                 PROVE  /\ owner'[d] = None => txn[d] = NoTxn
                        /\ owner'[d] # None => /\ pc'[owner'[d]] \in Running
                                               /\ conn'[owner'[d]] = d /\ owner'[d] \notin gone
      OBVIOUS
    <3>1. CASE d = c
      <4>1. owner'[d] = r /\ pc'[r] = "entry" /\ conn'[r] = d
        BY <1>5, <3>1 DEF Pool, TypeOK, Goto
      <4>2. r \notin gone
        BY <1>2 DEF Pool, PoolIntact
      <4>3. QED
        BY <4>1, <4>2 DEF Running, Statements, CheckoutConstants
    <3>2. CASE d # c
      <4>1. owner'[d] = owner[d]
        BY <1>5, <3>2 DEF Pool, TypeOK
      <4>2. owner[d] # None => owner[d] \in Requests \ {r}
        BY <1>3 DEF Pool, TypeOK
      <4>3. owner[d] # None => pc'[owner[d]] = pc[owner[d]] /\ conn'[owner[d]] = conn[owner[d]]
        BY <1>5, <4>2 DEF Pool, TypeOK, Goto
      <4>4. QED
        BY <4>1, <4>3 DEF Pool, PoolIntact
    <3>3. QED
      BY <3>1, <3>2
  <2>3. \A q \in Requests : pc'[q] \in {"idle", "respond"} => q \notin gone
    BY <1>5 DEF Pool, TypeOK, PoolIntact, Goto
  <2>4. QED
    BY <1>2, <1>4, <2>1, <2>2, <2>3 DEF Pool, PoolIntact
<1>6. CASE Goto(r, "done") /\ UNCHANGED <<conn, owner>>
  <2>1. \A q \in Requests : /\ pc'[q] \in Running => pc[q] \in Running
                            /\ pc'[q] \in {"idle", "respond"} => pc'[q] = pc[q]
    BY <1>6 DEF Pool, TypeOK, Goto, Running, Statements
  <2>2. \A d \in Conns : owner[d] # None => pc'[owner[d]] = pc[owner[d]]
    BY <1>3, <1>6 DEF Pool, TypeOK, Goto
  <2>3. QED
    BY <1>2, <1>4, <1>6, <2>1, <2>2 DEF Pool, PoolIntact
<1>7. QED
  BY <1>1, <1>5, <1>6

\* What a statement does not touch keeps its type.
LEMMA StatementTypes ==
  ASSUME TypeOK, txn' \in [Conns -> Txn], owner' \in [Conns -> Requests \cup {None}],
         pc' \in [Requests -> Running \cup {"idle", "done"}],
         saw' \in [Requests -> SUBSET Requests], charged' \subseteq Keys,
         UNCHANGED <<order, db, conn, gone>>
  PROVE  TypeOK'
  BY DEF TypeOK, db

LEMMA StatementPool ==
  ASSUME CheckoutConstants, Pool, NEW r \in Requests,
         \/ ReadEntry(r) \/ ReplaceService(r) \/ LockStock(r) \/ InsertAttempt(r)
         \/ Charge(r) \/ FinishSale(r) \/ Complete(r) \/ CommitFails(r)
         \/ StatementFails(r) \/ BreakDeadlock(r)
  PROVE  Pool'
<1> DEFINE c == conn[r]
           Fine == /\ txn' \in [Conns -> Txn] /\ owner' \in [Conns -> Requests \cup {None}]
                   /\ pc' \in [Requests -> Running \cup {"idle", "done"}]
                   /\ PoolIntact'
<1>1. TypeOK /\ PoolIntact
  BY DEF Pool
<1>2. pc[r] \in Running => c \in Conns /\ txn[c] \in Txn
  BY <1>1 DEF TypeOK, PoolIntact
<1>3. UNCHANGED <<order, db, conn, gone>> /\ saw' \in [Requests -> SUBSET Requests]
      /\ charged' \subseteq Keys
  <2>1. \A v : SalesIn(c, v) \in SUBSET Requests \/ pc[r] \notin Running
    BY <1>1, <1>2 DEF SalesIn, TypeOK, Txn
  <2>2. order[r].key \in Keys
    BY <1>1, OrderTypes
  <2>3. CASE FinishSale(r)
    BY <1>1, <2>1, <2>3 DEF FinishSale, At, Look, TypeOK, Running, Statements
  <2>4. CASE Charge(r)
    BY <1>1, <2>2, <2>4 DEF Charge, TypeOK
  <2>5. CASE ~FinishSale(r) /\ ~Charge(r)
    BY <1>1, <2>5 DEF ReadEntry, ReplaceService, LockStock, InsertAttempt, Complete,
         CommitFails, StatementFails, BreakDeadlock, TypeOK
  <2>6. QED
    BY <2>3, <2>4, <2>5
<1>4. UNCHANGED <<conn, gone>>
  BY <1>3
<1>5. ASSUME Refuse(r), pc[r] \in Running
      PROVE  Fine
  BY <1>1, <1>4, <1>5, RefuseKeepsPool
<1>6. ASSUME Abort(r), pc[r] \in Running, Usable(r)
      PROVE  Fine
  BY <1>1, <1>4, <1>6, AbortKeepsPool
<1>7. ASSUME NEW s \in Running \ {"respond"}, Goto(r, s), pc[r] \in Running, UNCHANGED <<txn, owner>>
      PROVE  Fine
  <2>1. s \in Running \cup {"done"} /\ (s = "done" => r \in gone) /\ (s = "respond" => r \notin gone)
    BY DEF Running, Statements
  <2>2. UNCHANGED <<txn, owner, conn, gone>>
    BY <1>4, <1>7
  <2>3. pc' \in [Requests -> Running \cup {"idle", "done"}] /\ PoolIntact'
    BY <1>1, <1>7, <2>1, <2>2, GotoKeepsPool
  <2>4. QED
    BY <1>1, <2>3, <2>2 DEF TypeOK
<1>8. ASSUME NEW s \in Running \cup {"done"}, s = "done" => r \in gone,
             s = "respond" => r \notin gone, NEW t \in Txn, NEW L, Free(c, L), t.locks \subseteq txn[c].locks \cup L,
             Write(r, t), Goto(r, s), pc[r] \in Running, Usable(r)
      PROVE  Fine
  BY <1>1, <1>4, <1>8, WriteKeepsPool
<1>9. ASSUME NEW s \in Running \ {"respond"}, NEW L \in SUBSET Locks,
             Free(c, L), Lock(r, L), Goto(r, s), pc[r] \in Running, Usable(r)
      PROVE  Fine
  <2> DEFINE t == [txn[c] EXCEPT !.locks = @ \cup L]
  <2>1. t \in Txn
    BY <1>2, <1>9, LockedType
  <2>2. t.locks \subseteq txn[c].locks \cup L
    BY <1>2, <1>9 DEF Txn
  <2>3. Write(r, t) /\ (s = "done" => r \in gone) /\ (s = "respond" => r \notin gone)
    BY <1>9 DEF Lock, Running, Statements
  <2> HIDE DEF t
  <2>4. QED
    BY <1>8, <1>9, <2>1, <2>2, <2>3
<1> SUFFICES Fine
  BY <1>1, <1>3, StatementTypes DEF Pool
<1> HIDE DEF Fine
<1>10. CASE ReadEntry(r)
  <2>1. pc[r] \in Running
    BY <1>10 DEF ReadEntry, At, Running, Statements
  <2>2. CASE Refuse(r)
    BY <1>5, <2>1, <2>2
  <2>3. CASE ~Refuse(r)
    <3>1. \E s \in Running \ {"respond"} : Goto(r, s) /\ UNCHANGED <<txn, owner>>
      BY <1>10, <2>3 DEF ReadEntry, Running, Statements
    <3>2. QED
      BY <1>7, <2>1, <3>1
  <2>4. QED
    BY <2>2, <2>3
<1>11. CASE ReplaceService(r)
  <2>1. pc[r] \in Running /\ "stock" \in Running \ {"respond"} /\ Usable(r)
    BY <1>11 DEF ReplaceService, At, Running, Statements
  <2>2. {order[r].visit} \in SUBSET Locks
    BY <1>1, OrderTypes
  <2>3. QED
    BY <1>9, <1>11, <2>1, <2>2 DEF ReplaceService
<1>12. CASE LockStock(r)
  <2>1. pc[r] \in Running /\ "attempt" \in Running \ {"respond"} /\ Usable(r)
    BY <1>12 DEF LockStock, At, Running, Statements
  <2>2. Goods(r) \in SUBSET Locks
    BY <1>1, OrderTypes
  <2>3. QED
    BY <1>5, <1>9, <1>12, <2>1, <2>2 DEF LockStock
<1>13. CASE InsertAttempt(r)
  <2>1. pc[r] \in Running /\ Usable(r) /\ Free(c, {order[r].key})
    BY <1>13 DEF InsertAttempt, At, Running, Statements
  <2>2. CASE Abort(r)
    BY <1>6, <2>1, <2>2
  <2>3. CASE ~Abort(r)
    <3>1. PICK s \in Running \ {"respond"} : Goto(r, s) /\ Write(r, WithAttempt(r))
      BY <1>13, <2>3 DEF InsertAttempt, AfterAttempt, Running, Statements
    <3>2. WithAttempt(r) \in Txn
      BY <1>1, <1>2, <2>1, AttemptType
    <3>3. WithAttempt(r).locks \subseteq txn[c].locks \cup {order[r].key}
      BY <1>2, <2>1 DEF WithAttempt, Txn
    <3>4. s \in Running \cup {"done"} /\ (s = "done" => r \in gone) /\ (s = "respond" => r \notin gone)
      BY DEF Running, Statements
    <3>5. QED
      BY <1>8, <2>1, <3>1, <3>2, <3>3, <3>4
  <2>4. QED
    BY <2>2, <2>3
<1>14. CASE Charge(r)
  <2>1. pc[r] \in Running /\ "finish" \in Running \ {"respond"}
    BY <1>14 DEF Charge, Running, Statements
  <2>2. QED
    BY <1>5, <1>7, <1>14, <2>1 DEF Charge
<1>15. CASE FinishSale(r)
  <2>1. pc[r] \in Running /\ Usable(r) /\ Free(c, Goods(r))
    BY <1>15 DEF FinishSale, At, Running, Statements
  <2>2. CASE Refuse(r)
    BY <1>5, <2>1, <2>2
  <2>3. CASE ~Refuse(r)
    <3>1. PICK s \in Running \cup {"done"} :
            /\ (s = "done" => r \in gone) /\ (s = "respond" => r \notin gone)
            /\ Goto(r, s) /\ Write(r, WithSale(r))
      <4>1. \/ Goto(r, "complete") /\ Write(r, WithSale(r))
            \/ r \in gone /\ Goto(r, "done") /\ Write(r, WithSale(r))
        BY <1>15, <2>3 DEF FinishSale
      <4>2. "complete" \in Running
        BY DEF Running, Statements
      <4>3. QED
        BY <4>1, <4>2
    <3>2. WithSale(r) \in Txn
      BY <1>1, <1>2, <2>1, SaleType
    <3>3. WithSale(r).locks \subseteq txn[c].locks \cup Goods(r)
      BY <1>2, <2>1 DEF WithSale, Txn
    <3>4. QED
      BY <1>8, <2>1, <3>1, <3>2, <3>3
  <2>4. QED
    BY <2>2, <2>3
<1>16. CASE Complete(r)
  <2> DEFINE t == [txn[c] EXCEPT !.locks = @ \cup {order[r].visit}, !.visits = @ \cup {order[r].visit}]
             s == IF r \in gone THEN "done" ELSE "respond"
  <2>1. pc[r] \in Running /\ Usable(r) /\ Free(c, {order[r].visit})
    BY <1>16 DEF Complete, At, Running, Statements
  <2>2. t \in Txn /\ t.locks \subseteq txn[c].locks \cup {order[r].visit}
    <3>1. order[r].visit \in Visits
      BY <1>1, OrderTypes
    <3>2. t \in Txn
      BY <1>2, <2>1, <3>1, CompletedType
    <3>3. t.locks = txn[c].locks \cup {order[r].visit}
      BY <1>2, <2>1 DEF Txn
    <3>4. QED
      BY <3>2, <3>3
  <2>3. s \in Running \cup {"done"} /\ (s = "done" => r \in gone) /\ (s = "respond" => r \notin gone)
    BY DEF Running, Statements
  <2>4. Write(r, t) /\ Goto(r, s)
    BY <1>16 DEF Complete
  <2> HIDE DEF t, s
  <2>5. QED
    BY <1>8, <2>1, <2>2, <2>3, <2>4
<1>17. CASE CommitFails(r)
  BY <1>5, <1>17 DEF CommitFails, Running
<1>18. CASE StatementFails(r)
  BY <1>5, <1>18 DEF StatementFails, Running
<1>19. CASE BreakDeadlock(r)
  <2>1. PICK d : WaitsFor(r, d)
    BY <1>19 DEF BreakDeadlock
  <2>2. pc[r] \in Running /\ Usable(r)
    BY <2>1 DEF WaitsFor, Needed, Running, Statements
  <2>3. QED
    BY <1>6, <1>19, <2>2 DEF BreakDeadlock
<1>20. QED
  BY <1>10, <1>11, <1>12, <1>13, <1>14, <1>15, <1>16, <1>17, <1>18, <1>19

LEMMA CommitPool ==
  ASSUME CheckoutConstants, Pool, NEW r \in Requests, Commit(r)
  PROVE  Pool'
<1> DEFINE c == conn[r]
<1>1. TypeOK /\ PoolIntact
  BY DEF Pool
<1>2. pc[r] = "respond" /\ pc[r] \in Running /\ Usable(r)
  BY DEF Commit, At, Running
<1>3. c \in Conns /\ txn[c] \in Txn
  BY <1>1, <1>2 DEF TypeOK, PoolIntact
<1>4. UNCHANGED <<order, charged, conn, gone, saw>> /\ Goto(r, "done")
  BY DEF Commit
<1>5. /\ txn' \in [Conns -> Txn] /\ owner' \in [Conns -> Requests \cup {None}]
      /\ pc' \in [Requests -> Running \cup {"idle", "done"}]
      /\ PoolIntact'
  <2>1. r \notin gone
    BY <1>1, <1>2 DEF PoolIntact
  <2>2. QED
    BY <1>1, <1>2, <1>4, <2>1, ReleaseKeepsPool DEF Commit
<1>6. visit' \in [Visits -> Statuses]
  BY <1>1 DEF Commit, StatusIn, TypeOK, Statuses
<1>7. stock' \in [Products -> Int]
  <2>1. \A p \in Products : stock[p] \in Int /\ txn[c].taken[p] \in Nat
    BY <1>1, <1>3 DEF TypeOK, Txn
  <2>2. \A p \in Products : StockIn(c, p) \in Int
    BY <2>1 DEF StockIn
  <2>3. QED
    BY <2>2 DEF Commit
<1>8. attempts' \subseteq Requests /\ sales' \subseteq Requests
  BY <1>1, <1>3 DEF Commit, TypeOK, Txn
<1>9. QED
  BY <1>1, <1>4, <1>5, <1>6, <1>7, <1>8 DEF TypeOK, Pool

LEMMA HangUpPool ==
  ASSUME CheckoutConstants, Pool, NEW r \in Requests, HangUp(r)
  PROVE  Pool'
<1>1. TypeOK /\ PoolIntact
  BY DEF Pool
<1>2. pc[r] \in Running /\ r \notin gone
  BY DEF HangUp, Running
<1>3. UNCHANGED <<order, db, charged, conn, saw>> /\ gone' = gone \cup {r} /\ Release(r)
  BY DEF HangUp
<1>4. /\ txn' \in [Conns -> Txn] /\ owner' \in [Conns -> Requests \cup {None}]
      /\ pc' \in [Requests -> Running \cup {"idle", "done"}]
      /\ PoolIntact'
  BY <1>1, <1>2, <1>3, ReleaseKeepsPool DEF HangUp
<1>5. QED
  BY <1>1, <1>3, <1>4 DEF Pool, TypeOK, db

LEMMA WorldPool ==
  ASSUME CheckoutConstants, Pool,
         \/ \E v \in Visits : MoveVisit(v)
         \/ \E p \in Products, n \in Counts : UpdateProduct(p, n)
         \/ UNCHANGED vars
  PROVE  Pool'
<1>1. UNCHANGED <<order, attempts, sales, charged, pc, conn, owner, txn, gone, saw>>
  BY DEF MoveVisit, UpdateProduct, vars, db
<1>2. PoolIntact'
  BY <1>1 DEF Pool, PoolIntact
<1>3. visit' \in [Visits -> Statuses] /\ stock' \in [Products -> Int]
  <2>1. CASE \E v \in Visits : MoveVisit(v)
    BY <2>1 DEF MoveVisit, Pool, TypeOK, Statuses
  <2>2. CASE \E p \in Products, n \in Counts : UpdateProduct(p, n)
    <3>1. Counts \subseteq Int
      BY DEF CheckoutConstants
    <3>2. QED
      BY <2>2, <3>1 DEF UpdateProduct, Pool, TypeOK
  <2>3. CASE UNCHANGED vars
    BY <2>3 DEF vars, db, Pool, TypeOK
  <2>4. QED
    BY <2>1, <2>2, <2>3
<1>4. QED
  BY <1>1, <1>2, <1>3 DEF Pool, TypeOK

LEMMA InitPool ==
  ASSUME CheckoutConstants, Init
  PROVE  Pool
<1>1. order \in [Requests -> Order]
  BY DEF CheckoutConstants, Init
<1>2. stock \in [Products -> Int]
  <2>1. Counts \subseteq Int
    BY DEF CheckoutConstants
  <2>2. QED
    BY <2>1 DEF Init
<1>3. /\ pc \in [Requests -> Running \cup {"idle", "done"}]
      /\ txn \in [Conns -> Txn] /\ owner \in [Conns -> Requests \cup {None}]
      /\ visit \in [Visits -> Statuses]
  BY NoTxnType DEF Init, Statuses
<1>4. TypeOK
  BY <1>1, <1>3, <1>2 DEF Init, TypeOK
<1>5. PoolIntact
  BY <1>3 DEF Init, PoolIntact, NoTxn, Running, Statements
<1>6. QED
  BY <1>4, <1>5 DEF Pool

LEMMA StepPool ==
  ASSUME CheckoutConstants, Pool, [Next]_vars
  PROVE  Pool'
<1>1. ASSUME NEW r \in Requests, Serve(r)
      PROVE  Pool'
  <2>1. CASE Begin(r)
    BY <2>1, BeginPool
  <2>2. CASE Commit(r)
    BY <2>2, CommitPool
  <2>3. CASE ~Begin(r) /\ ~Commit(r)
    BY <1>1, <2>3, StatementPool DEF Serve
  <2>4. QED
    BY <2>1, <2>2, <2>3
<1>2. QED
  BY <1>1, HangUpPool, WorldPool DEF Next

-----------------------------------------------------------------------------
(* The till, when no handler outlives its transaction. *)

\* Each handler has its transaction to itself.
LEMMA OwnTransaction ==
  ASSUME Pool, Guarded, NEW r \in Requests, pc[r] \in Running
  PROVE  /\ conn[r] \in Conns /\ txn[conn[r]] \in Txn /\ owner[conn[r]] = r
         /\ r \notin gone /\ Covered(r)
         /\ \A q \in Requests \ {r} : pc[q] \in Running => conn[q] # conn[r]
<1>1. \A q \in Requests : pc[q] \in Running =>
        conn[q] \in Conns /\ owner[conn[q]] = q /\ q \notin gone /\ Covered(q)
  BY DEF Guarded, Covered, Pool, PoolIntact
<1>2. QED
  BY <1>1 DEF Pool, TypeOK

\* A handler keeps what it has when its transaction, the stock it locked and the attempts
\* with its key stay as they are.
LEMMA StaysCovered ==
  ASSUME NEW q, Covered(q), UNCHANGED order,
         q \notin gone', conn'[q] = conn[q], pc'[q] = pc[q], txn'[conn[q]] = txn[conn[q]],
         charged \subseteq charged',
         pc[q] \in PastAttempt => \A a \in attempts' \ attempts : order[a].key # order[q].key,
         pc[q] \in PastStock => \A p \in Goods(q) : stock'[p] = stock[p]
  PROVE  Covered(q)'
<1>1. Goods(q)' = Goods(q)
  BY DEF Goods
<1>2. Work(q)'
  BY <1>1 DEF Covered, Work
<1>3. QED
  BY <1>1, <1>2 DEF Covered

\* A statement of r changes no transaction but its own.
LEMMA OthersCovered ==
  ASSUME Pool, Guarded, NEW r \in Requests, pc[r] \in Running, NEW s, Goto(r, s),
         \A d \in Conns \ {conn[r]} : txn'[d] = txn[d],
         charged \subseteq charged', UNCHANGED <<order, db, conn, gone>>,
         s \in Running => Covered(r)'
  PROVE  Guarded'
<1>1. sales' \subseteq attempts'
  BY DEF Guarded, db
<1>2. ASSUME NEW q \in Requests, pc'[q] \in Running
      PROVE  Covered(q)'
  <2>1. CASE q = r
    BY <1>2, <2>1 DEF Goto, Pool, TypeOK
  <2>2. CASE q # r
    <3>1. pc'[q] = pc[q] /\ pc[q] \in Running
      BY <1>2, <2>2 DEF Goto, Pool, TypeOK
    <3>2. Covered(q) /\ conn[q] \in Conns \ {conn[r]} /\ q \notin gone
      BY <2>2, <3>1, OwnTransaction
    <3>3. QED
      BY <3>1, <3>2, StaysCovered DEF db
  <2>3. QED
    BY <2>1, <2>2
<1>3. QED
  BY <1>1, <1>2 DEF Guarded

LEMMA RefuseGuarded ==
  ASSUME Pool, Guarded, NEW r \in Requests, pc[r] \in Running, Refuse(r),
         charged \subseteq charged', UNCHANGED <<order, db, conn, gone>>
  PROVE  Guarded'
<1>1. r \notin gone /\ conn[r] \in Conns
  BY OwnTransaction
<1>2. \A d \in Conns \ {conn[r]} : txn'[d] = txn[d]
  BY <1>1 DEF Refuse, Release, Pool, TypeOK
<1>3. Goto(r, "done") /\ "done" \notin Running
  BY DEF Refuse, Running, Statements
<1>4. QED
  BY <1>2, <1>3, OthersCovered

LEMMA BeginGuarded ==
  ASSUME CheckoutConstants, Pool, Guarded, NEW r \in Requests, Begin(r)
  PROVE  Guarded'
<1>1. PICK c \in Conns :
        /\ owner[c] = None
        /\ \/ /\ Goto(r, "entry")
              /\ conn' = [conn EXCEPT ![r] = c]
           \/ Goto(r, "done") /\ UNCHANGED conn
  BY DEF Begin
<1>2. /\ pc[r] = "idle" /\ r \notin gone
      /\ UNCHANGED <<order, visit, stock, attempts, sales, charged, txn, gone, saw>>
  BY DEF Begin, db, Pool, PoolIntact
<1>3. ASSUME NEW q \in Requests, pc'[q] \in Running
      PROVE  Covered(q)'
  <2>1. CASE q # r
    <3>1. pc'[q] = pc[q] /\ pc[q] \in Running /\ conn'[q] = conn[q]
      BY <1>1, <1>3, <2>1 DEF Goto, Pool, TypeOK
    <3>2. Covered(q) /\ q \notin gone
      BY <3>1, OwnTransaction
    <3>3. QED
      BY <1>2, <3>1, <3>2, StaysCovered
  <2>2. CASE q = r
    <3>1. pc'[r] = "entry" /\ conn'[r] = c
      BY <1>1, <1>3, <2>2 DEF Goto, Pool, TypeOK, Running, Statements
    <3>2. txn[c] = NoTxn
      BY <1>1 DEF Pool, PoolIntact
    <3>3. Work(r)'
      BY <1>2, <3>1, <3>2 DEF Work, NoTxn, PastAttempt, PastSale
    <3>4. QED
      BY <1>2, <2>2, <3>1, <3>3 DEF Covered, PastAttempt, PastStock, PastCharge
  <2>3. QED
    BY <2>1, <2>2
<1>4. QED
  BY <1>2, <1>3 DEF Guarded

\* The steps that take r to its next statement.
LEMMA StatementGuarded ==
  ASSUME Pool, Guarded, NEW r \in Requests,
         \/ ReadEntry(r) \/ ReplaceService(r) \/ LockStock(r) \/ InsertAttempt(r)
         \/ Charge(r) \/ FinishSale(r) \/ Complete(r) \/ CommitFails(r)
         \/ StatementFails(r) \/ BreakDeadlock(r)
  PROVE  Guarded'
<1> DEFINE c == conn[r]
           t == txn[conn[r]]
<1>1. pc[r] \in Running
  <2>1. CASE BreakDeadlock(r)
    <3>1. PICK d : WaitsFor(r, d)
      BY <2>1 DEF BreakDeadlock
    <3>2. QED
      BY <3>1 DEF WaitsFor, Needed, Running, Statements
  <2>2. CASE ~BreakDeadlock(r)
    BY <2>2 DEF ReadEntry, ReplaceService, LockStock, InsertAttempt, Charge, FinishSale, Complete,
         CommitFails, StatementFails, At, Running, Statements
  <2>3. QED
    BY <2>1, <2>2
<1>2. /\ c \in Conns /\ t \in Txn /\ r \notin gone /\ Covered(r) /\ Work(r)
      /\ \A p \in Goods(r) : order[r].qty \in Nat /\ stock[p] \in Int /\ p \in Products
  BY <1>1, OwnTransaction, OrderTypes DEF Covered, Pool, TypeOK
<1>3. UNCHANGED <<order, db, conn, gone>> /\ charged \subseteq charged'
  BY DEF ReadEntry, ReplaceService, LockStock, InsertAttempt, Charge, FinishSale, Complete,
     CommitFails, StatementFails, BreakDeadlock
<1>4. Goods(r)' = Goods(r)
  BY <1>3 DEF Goods
<1>5. ASSUME Refuse(r)
      PROVE  Guarded'
  BY <1>1, <1>3, <1>5, RefuseGuarded
<1>6. ASSUME NEW s, NEW u, Goto(r, s), txn' = [txn EXCEPT ![c] = u], Covered(r)'
      PROVE  Guarded'
  <2>1. \A d \in Conns \ {conn[r]} : txn'[d] = txn[d]
    BY <1>2, <1>6 DEF Pool, TypeOK
  <2>2. QED
    BY <1>1, <1>3, <1>6, <2>1, OthersCovered
<1>7. ASSUME NEW s \in Running, NEW u, Goto(r, s), txn' = [txn EXCEPT ![c] = u]
      PROVE  pc'[r] = s /\ txn'[conn'[r]] = u
  BY <1>2, <1>3, <1>7 DEF Goto, Pool, TypeOK
<1>8. txn = [txn EXCEPT ![c] = t]
  BY <1>2 DEF Pool, TypeOK
<1>9. CASE ReadEntry(r)
  <2>1. CASE Refuse(r)
    BY <1>5, <2>1
  <2>2. CASE ~Refuse(r)
    <3>1. pc[r] = "entry" /\ txn' = txn
      BY <1>9, <2>2 DEF ReadEntry, At
    <3>2. PICK s \in {"service", "stock"} : Goto(r, s)
      BY <1>9, <2>2 DEF ReadEntry
    <3>3. s \in Running
      BY DEF Running, Statements
    <3>4. pc'[r] = s /\ txn'[conn'[r]] = t
      BY <1>7, <1>8, <3>1, <3>2, <3>3
    <3>5. Work(r)'
      BY <1>2, <1>4, <3>1, <3>4 DEF Work, PastAttempt, PastSale
    <3>6. Covered(r)'
      BY <1>2, <1>3, <3>4, <3>5 DEF Covered, PastAttempt, PastStock, PastCharge
    <3>7. QED
      BY <1>6, <1>8, <3>1, <3>2, <3>6
  <2>3. QED
    BY <2>1, <2>2
<1>10. CASE ReplaceService(r)
  <2> DEFINE u == [t EXCEPT !.locks = @ \cup {order[r].visit}]
  <2>1. pc[r] = "service" /\ Goto(r, "stock") /\ txn' = [txn EXCEPT ![c] = u]
    BY <1>10 DEF ReplaceService, At, Lock, Write
  <2>2. "stock" \in Running
    BY DEF Running, Statements
  <2>3. pc'[r] = "stock" /\ txn'[conn'[r]] = u
    BY <1>7, <2>1, <2>2
  <2>4. u.failed = t.failed /\ u.attempts = t.attempts /\ u.sales = t.sales /\ u.taken = t.taken
    BY <1>2 DEF Txn
  <2> HIDE DEF u
  <2>5. Work(r)'
    BY <1>2, <1>4, <2>1, <2>3, <2>4 DEF Work, PastAttempt, PastSale
  <2>6. Covered(r)'
    BY <1>2, <1>3, <2>3, <2>5 DEF Covered, PastAttempt, PastStock, PastCharge
  <2>7. QED
    BY <1>6, <2>1, <2>6
<1>11. CASE LockStock(r)
  <2>1. CASE Refuse(r)
    BY <1>5, <2>1
  <2>2. CASE ~Refuse(r)
    <3> DEFINE u == [t EXCEPT !.locks = @ \cup Goods(r)]
    <3>1. pc[r] = "stock" /\ InStock(r) /\ Goto(r, "attempt") /\ txn' = [txn EXCEPT ![c] = u]
      BY <1>11, <2>2 DEF LockStock, At, Lock, Write
    <3>2. "attempt" \in Running
      BY DEF Running, Statements
    <3>3. pc'[r] = "attempt" /\ txn'[conn'[r]] = u
      BY <1>7, <3>1, <3>2
    <3>4. /\ u.failed = t.failed /\ u.attempts = t.attempts /\ u.sales = t.sales
          /\ u.taken = t.taken /\ Goods(r) \subseteq u.locks
      BY <1>2 DEF Txn
    <3> HIDE DEF u
    <3>5. Work(r)'
      BY <1>2, <1>4, <3>1, <3>3, <3>4 DEF Work, PastAttempt, PastSale
    <3>6. \A p \in Goods(r) : t.taken[p] = 0
      BY <1>2, <3>1 DEF Work, PastSale
    <3>7. \A p \in Goods(r) : stock[p] >= order[r].qty
      BY <1>2, <3>1, <3>6 DEF InStock, StockIn
    <3>8. Covered(r)'
      BY <1>2, <1>3, <1>4, <3>3, <3>4, <3>5, <3>7 DEF Covered, PastAttempt, PastStock, PastCharge, db
    <3>9. QED
      BY <1>6, <3>1, <3>8
  <2>3. QED
    BY <2>1, <2>2
<1>12. CASE InsertAttempt(r)
  <2>1. CASE Refuse(r)
    BY <1>5, <2>1
  <2>2. CASE ~Refuse(r)
    <3> DEFINE u == WithAttempt(r)
    <3>1. pc[r] = "attempt" /\ AfterAttempt(r) /\ txn' = [txn EXCEPT ![c] = u]
          /\ ~Attempted(c, order[r].key)
      BY <1>2, <1>12, <2>2 DEF InsertAttempt, At, Abort, Write
    <3>2. PICK s \in {"charge", "finish"} : Goto(r, s) /\ (s = "charge" <=> order[r].card)
      <4>1. order[r].card \in BOOLEAN
        BY DEF Pool, TypeOK, Order
      <4>2. QED
        BY <3>1, <4>1 DEF AfterAttempt
    <3>3. s \in Running
      BY DEF Running, Statements
    <3>4. pc'[r] = s /\ txn'[conn'[r]] = u
      BY <1>7, <3>1, <3>2, <3>3
    <3>5. /\ u.failed = t.failed /\ u.attempts = t.attempts \cup {r} /\ u.sales = t.sales
          /\ u.taken = t.taken /\ u.locks = t.locks \cup {order[r].key}
      BY <1>2 DEF Txn, WithAttempt
    <3> HIDE DEF u
    <3>6. Work(r)'
      BY <1>2, <1>4, <3>1, <3>4, <3>5 DEF Work, PastAttempt, PastSale
    <3>7. \A a \in attempts : order[a].key # order[r].key
      BY <3>1 DEF Attempted
    <3>8. Covered(r)'
      BY <1>2, <1>3, <1>4, <3>1, <3>2, <3>4, <3>5, <3>6, <3>7
         DEF Covered, PastAttempt, PastStock, PastCharge, db
    <3>9. QED
      BY <1>6, <3>1, <3>2, <3>8
  <2>3. QED
    BY <2>1, <2>2
<1>13. CASE Charge(r)
  <2>1. CASE Refuse(r)
    BY <1>5, <2>1
  <2>2. CASE ~Refuse(r)
    <3>1. pc[r] = "charge" /\ Goto(r, "finish") /\ txn' = txn /\ order[r].key \in charged'
      BY <1>13, <2>2 DEF Charge
    <3>2. "finish" \in Running
      BY DEF Running, Statements
    <3>3. pc'[r] = "finish" /\ txn'[conn'[r]] = t
      BY <1>7, <1>8, <3>1, <3>2
    <3>4. Work(r)'
      BY <1>2, <1>4, <3>1, <3>3 DEF Work, PastAttempt, PastSale
    <3>5. Covered(r)'
      BY <1>2, <1>3, <1>4, <3>1, <3>3, <3>4 DEF Covered, PastAttempt, PastStock, PastCharge, db
    <3>6. QED
      BY <1>6, <1>8, <3>1, <3>5
  <2>3. QED
    BY <2>1, <2>2
<1>14. CASE FinishSale(r)
  <2>1. CASE Refuse(r)
    BY <1>5, <2>1
  <2>2. CASE ~Refuse(r)
    <3> DEFINE u == WithSale(r)
    <3>1. pc[r] = "finish" /\ Goto(r, "complete") /\ txn' = [txn EXCEPT ![c] = u]
      BY <1>2, <1>14, <2>2 DEF FinishSale, At, Write
    <3>2. "complete" \in Running
      BY DEF Running, Statements
    <3>3. pc'[r] = "complete" /\ txn'[conn'[r]] = u
      BY <1>7, <3>1, <3>2
    <3>4. /\ u.failed = t.failed /\ u.attempts = t.attempts /\ u.sales = t.sales \cup {r}
          /\ u.locks = t.locks \cup Goods(r)
          /\ u.taken = [p \in Products |-> t.taken[p] + IF p \in Goods(r) THEN order[r].qty ELSE 0]
      BY <1>2 DEF Txn, WithSale
    <3> HIDE DEF u
    <3>5. \A p \in Products : t.taken[p] = 0
      BY <1>2, <3>1 DEF Work, PastSale
    <3>6. u.taken = [p \in Products |-> IF p \in Goods(r) THEN order[r].qty ELSE 0]
      BY <1>2, <3>4, <3>5
    <3>7. Work(r)'
      BY <1>2, <1>3, <1>4, <3>1, <3>3, <3>4, <3>6 DEF Work, PastAttempt, PastSale
    <3>8. Covered(r)'
      BY <1>2, <1>3, <1>4, <3>1, <3>3, <3>4, <3>7 DEF Covered, PastAttempt, PastStock, PastCharge, db
    <3>9. QED
      BY <1>6, <3>1, <3>8
  <2>3. QED
    BY <2>1, <2>2
<1>15. CASE Complete(r)
  <2> DEFINE u == [t EXCEPT !.locks = @ \cup {order[r].visit}, !.visits = @ \cup {order[r].visit}]
  <2>1. pc[r] = "complete" /\ Goto(r, "respond") /\ txn' = [txn EXCEPT ![c] = u]
    BY <1>2, <1>15 DEF Complete, At, Write
  <2>2. "respond" \in Running
    BY DEF Running
  <2>3. pc'[r] = "respond" /\ txn'[conn'[r]] = u
    BY <1>7, <2>1, <2>2
  <2>4. /\ u.failed = t.failed /\ u.attempts = t.attempts /\ u.sales = t.sales
        /\ u.taken = t.taken /\ t.locks \subseteq u.locks
    BY <1>2 DEF Txn
  <2> HIDE DEF u
  <2>5. Work(r)'
    BY <1>2, <1>3, <1>4, <2>1, <2>3, <2>4 DEF Work, PastAttempt, PastSale
  <2>6. Covered(r)'
    BY <1>2, <1>3, <1>4, <2>1, <2>3, <2>4, <2>5 DEF Covered, PastAttempt, PastStock, PastCharge, db
  <2>7. QED
    BY <1>6, <2>1, <2>6
<1>16. CASE CommitFails(r) \/ StatementFails(r)
  BY <1>5, <1>16 DEF CommitFails, StatementFails
<1>17. CASE BreakDeadlock(r)
  BY <1>2, <1>5, <1>17 DEF BreakDeadlock, Abort
<1>18. QED
  BY <1>9, <1>10, <1>11, <1>12, <1>13, <1>14, <1>15, <1>16, <1>17

\* What a COMMIT makes of the shop: one sale, with its attempt and its goods.
LEMMA CommitEffect ==
  ASSUME Pool, Guarded, NEW r \in Requests, Commit(r)
  PROVE  /\ attempts' = attempts \cup {r} /\ sales' = sales \cup {r}
         /\ stock' = [p \in Products |->
                        stock[p] - IF p \in Goods(r) THEN order[r].qty ELSE 0]
<1>1. pc[r] = "respond"
  BY DEF Commit, At
<1>2. Work(r)
  BY <1>1, OwnTransaction DEF Covered, Running
<1>3. QED
  BY <1>1, <1>2 DEF Work, Commit, StockIn, PastAttempt, PastSale

LEMMA CommitGuarded ==
  ASSUME CheckoutConstants, Pool, Guarded, NEW r \in Requests, Commit(r)
  PROVE  Guarded'
<1>1. /\ pc[r] = "respond" /\ pc[r] \in Running /\ pc' = [pc EXCEPT ![r] = "done"]
      /\ UNCHANGED <<order, charged, conn, gone, saw>>
  BY DEF Commit, At, Running, Goto
<1>2. /\ conn[r] \in Conns /\ order[r].key \in txn[conn[r]].locks
      /\ Goods(r) \subseteq txn[conn[r]].locks
  BY <1>1, OwnTransaction DEF Covered, PastAttempt, PastStock
<1>3. attempts' = attempts \cup {r} /\ sales' = sales \cup {r}
  BY CommitEffect
<1>4. \A p \in Products \ Goods(r) : stock'[p] = stock[p]
  BY CommitEffect DEF Pool, TypeOK
<1>5. txn' = [txn EXCEPT ![conn[r]] = NoTxn]
  BY DEF Commit, Release
<1>6. ASSUME NEW q \in Requests, pc'[q] \in Running
      PROVE  Covered(q)'
  <2>1. q # r /\ pc'[q] = pc[q] /\ pc[q] \in Running
    BY <1>1, <1>6 DEF Pool, TypeOK, Running, Statements
  <2>2. Covered(q) /\ conn[q] \in Conns \ {conn[r]} /\ q \notin gone
    BY <1>1, <2>1, OwnTransaction
  <2>3. txn[conn[q]].locks \cap txn[conn[r]].locks = {}
    BY <1>2, <2>2 DEF Pool, PoolIntact
  <2>4. txn'[conn[q]] = txn[conn[q]]
    BY <1>5, <2>2 DEF Pool, TypeOK
  <2>5. pc[q] \in PastAttempt => order[r].key # order[q].key
    BY <1>2, <2>2, <2>3 DEF Covered
  <2>6. pc[q] \in PastStock => \A p \in Goods(q) : stock'[p] = stock[p]
    <3>1. Goods(q) \subseteq Products
      BY OrderTypes DEF Pool
    <3>2. pc[q] \in PastStock => Goods(q) \subseteq txn[conn[q]].locks
      BY <2>2 DEF Covered
    <3>3. QED
      BY <1>2, <1>4, <2>3, <3>1, <3>2
  <2>7. QED
    BY <1>1, <1>3, <2>1, <2>2, <2>4, <2>5, <2>6, StaysCovered
<1>7. QED
  BY <1>3, <1>6 DEF Guarded

LEMMA HangUpGuarded ==
  ASSUME Pool, Guarded, Impatient = {}, NEW r \in Requests, HangUp(r)
  PROVE  Guarded'
<1>1. /\ pc[r] = "respond" /\ pc[r] \in Running /\ pc' = [pc EXCEPT ![r] = "done"]
      /\ gone' = gone \cup {r} /\ txn' = [txn EXCEPT ![conn[r]] = NoTxn]
      /\ UNCHANGED <<order, visit, stock, attempts, sales, charged, conn, saw>>
  BY DEF HangUp, Running, Goto, Release, db
<1>2. ASSUME NEW q \in Requests, pc'[q] \in Running
      PROVE  Covered(q)'
  <2>1. q # r /\ pc'[q] = pc[q] /\ pc[q] \in Running
    BY <1>1, <1>2 DEF Pool, TypeOK, Running, Statements
  <2>2. Covered(q) /\ conn[q] \in Conns \ {conn[r]} /\ q \notin gone
    BY <1>1, <2>1, OwnTransaction
  <2>3. txn'[conn[q]] = txn[conn[q]] /\ q \notin gone'
    BY <1>1, <2>1, <2>2 DEF Pool, TypeOK
  <2>4. QED
    BY <1>1, <2>1, <2>2, <2>3, StaysCovered
<1>3. QED
  BY <1>1, <1>2 DEF Guarded

LEMMA WorldGuarded ==
  ASSUME CheckoutConstants, Pool, Guarded,
         \/ \E v \in Visits : MoveVisit(v)
         \/ \E p \in Products, n \in Counts : UpdateProduct(p, n)
         \/ UNCHANGED vars
  PROVE  Guarded'
<1>1. UNCHANGED <<order, attempts, sales, charged, pc, conn, owner, txn, gone, saw>>
  BY DEF MoveVisit, UpdateProduct, vars, db
<1>2. ASSUME NEW p \in Products, stock'[p] # stock[p], NEW c \in Conns
      PROVE  p \notin txn[c].locks
  <2>1. CASE \E v \in Visits : MoveVisit(v)
    BY <1>2, <2>1 DEF MoveVisit
  <2>2. CASE \E q \in Products, n \in Counts : UpdateProduct(q, n)
    <3>1. Free(None, {p})
      BY <1>2, <2>2 DEF UpdateProduct, Pool, TypeOK
    <3>2. QED
      BY <3>1 DEF Free, CheckoutConstants
  <2>3. CASE UNCHANGED vars
    BY <1>2, <2>3 DEF vars, db
  <2>4. QED
    BY <2>1, <2>2, <2>3
<1>3. ASSUME NEW q \in Requests, pc'[q] \in Running
      PROVE  Covered(q)'
  <2>1. pc[q] \in Running
    BY <1>1, <1>3
  <2>2. Covered(q) /\ conn[q] \in Conns /\ q \notin gone
    BY <2>1, OwnTransaction
  <2>3. Goods(q) \subseteq Products
    BY OrderTypes DEF Pool
  <2>4. pc[q] \in PastStock => \A p \in Goods(q) : stock'[p] = stock[p]
    BY <1>2, <2>2, <2>3 DEF Covered
  <2>5. QED
    BY <1>1, <2>2, <2>4, StaysCovered
<1>4. QED
  BY <1>1, <1>3 DEF Guarded

LEMMA StepGuarded ==
  ASSUME CheckoutConstants, Pool, Guarded, Impatient = {}, [Next]_vars
  PROVE  Guarded'
<1>1. ASSUME NEW r \in Requests, Serve(r)
      PROVE  Guarded'
  <2>1. CASE Begin(r)
    BY <2>1, BeginGuarded
  <2>2. CASE Commit(r)
    BY <2>2, CommitGuarded
  <2>3. CASE ~Begin(r) /\ ~Commit(r)
    BY <1>1, <2>3, StatementGuarded DEF Serve
  <2>4. QED
    BY <2>1, <2>2, <2>3
<1>2. QED
  BY <1>1, HangUpGuarded, WorldGuarded DEF Next

LEMMA InitGuarded == Init => Guarded
  BY DEF Init, Guarded, Running, Statements

-----------------------------------------------------------------------------
(* The theorems. *)

\* Whoever hangs up and whatever the handlers left behind execute, the types hold, no
\* connection is lost to the pool or kept with work on it, and no lock has two holders;
\* and if no handler outlives its transaction, each has the locks of what it checked.
THEOREM Inductive == Spec => []IInv
<1>1. Init => IInv
  BY InitPool, InitGuarded, CheckoutConstants DEF IInv, Pool
<1>2. IInv /\ [Next]_vars => IInv'
  <2> SUFFICES ASSUME IInv, [Next]_vars
               PROVE  IInv'
    OBVIOUS
  <2>1. Pool'
    BY StepPool, CheckoutConstants DEF IInv, Pool
  <2>2. Impatient = {} => Guarded'
    BY StepGuarded, CheckoutConstants DEF IInv, Pool
  <2>3. QED
    BY <2>1, <2>2 DEF IInv, Pool
<1>3. QED
  BY <1>1, <1>2, PTL DEF Spec

\* The pool survives everything: see Inductive.
COROLLARY PoolSurvives == Spec => []PoolIntact
<1>1. IInv => PoolIntact
  BY DEF IInv
<1>2. QED
  BY <1>1, Inductive, PTL

\* A COMMIT is a sale of the till.
LEMMA CommitSells ==
  ASSUME CheckoutConstants, Pool, Guarded, NEW r \in Requests, Commit(r)
  PROVE  T!Sell(r)
<1>1. pc[r] = "respond" /\ UNCHANGED <<order, charged>>
  BY DEF Commit, At
<1>2. Covered(r) /\ sales \subseteq attempts
  BY <1>1, OwnTransaction DEF Running, Guarded
<1>3. order[r].key \notin T!SoldKeys
  BY <1>1, <1>2 DEF T!SoldKeys, Covered, PastAttempt
<1>4. order[r].card => order[r].key \in charged
  BY <1>1, <1>2 DEF Covered, PastCharge
<1>5. T!HasStock(order[r])
  BY <1>1, <1>2 DEF T!HasStock, Covered, PastStock, Goods
<1>6. stock' = T!Taken(order[r])
  <2>1. stock \in [Products -> Int] /\ order[r].product \in Products \cup {None}
    BY DEF Pool, TypeOK, Order
  <2>2. order[r].qty \in Nat
    BY OrderTypes DEF Pool
  <2>3. stock' = [p \in Products |-> stock[p] - IF p \in Goods(r) THEN order[r].qty ELSE 0]
    BY CommitEffect
  <2>4. CASE order[r].product = None
    BY <2>1, <2>3, <2>4 DEF T!Taken, Goods
  <2>5. CASE order[r].product # None
    <3> DEFINE p == order[r].product
    <3>1. p \in Products /\ Goods(r) = {p}
      BY <2>1, <2>5 DEF Goods
    <3>2. stock' = [q \in Products |-> IF q = p THEN stock[p] - order[r].qty ELSE stock[q]]
      BY <2>1, <2>2, <2>3, <3>1
    <3>3. T!Taken(order[r]) = [stock EXCEPT ![p] = stock[p] - order[r].qty]
      BY <2>5 DEF T!Taken
    <3> HIDE DEF p
    <3>4. QED
      BY <2>1, <3>1, <3>2, <3>3
  <2>6. QED
    BY <2>4, <2>5
<1>7. QED
  BY <1>1, <1>3, <1>4, <1>5, <1>6, CommitEffect DEF T!Sell

\* Every step of the checkouts is a step of the till, or none of it.
LEMMA StepRefines ==
  ASSUME CheckoutConstants, IInv, Impatient = {}, [Next]_vars
  PROVE  [T!Next]_(T!vars)
<1>1. Pool /\ Guarded
  BY DEF IInv, Pool
<1>2. ASSUME NEW r \in Requests, Commit(r)
      PROVE  T!Next
  BY <1>1, <1>2, CommitSells DEF T!Next
<1>3. ASSUME NEW r \in Requests, Charge(r)
      PROVE  T!Next \/ UNCHANGED T!vars
  <2>1. order[r].key \in Keys
    BY <1>1, OrderTypes DEF Pool
  <2>2. charged' = charged \cup {order[r].key} \/ charged' = charged
    BY <1>3 DEF Charge
  <2>3. UNCHANGED <<order, stock, sales>>
    BY <1>3 DEF Charge, db
  <2>4. QED
    BY <2>1, <2>2, <2>3 DEF T!Next, T!TakeMoney, T!vars
<1>4. ASSUME NEW p \in Products, NEW n \in Counts, UpdateProduct(p, n)
      PROVE  T!Next
  <2>1. n \in Nat
    BY DEF CheckoutConstants
  <2>2. stock' = [stock EXCEPT ![p] = n] /\ stock'[p] = n /\ UNCHANGED <<order, charged, sales>>
    BY <1>1, <1>4 DEF UpdateProduct, Pool, TypeOK
  <2>3. QED
    BY <2>1, <2>2 DEF T!Next, T!Recount
<1>5. ASSUME \A r \in Requests : ~Commit(r) /\ ~Charge(r),
             \A p \in Products, n \in Counts : ~UpdateProduct(p, n)
      PROVE  UNCHANGED T!vars
  BY <1>5 DEF Next, Serve, T!vars, vars, db, Begin, ReadEntry, ReplaceService, LockStock,
     InsertAttempt, FinishSale, Complete, CommitFails, StatementFails, BreakDeadlock, HangUp,
     MoveVisit
<1>6. QED
  BY <1>2, <1>3, <1>4, <1>5

\* If no handler outlives its transaction, the checkouts implement the till: a key sells at
\* most once, a card sale is paid and nothing is sold that is not in stock.
THEOREM CheckoutImplementsTill ==
  ASSUME Impatient = {}
  PROVE  Spec => ImplementsTill
<1>1. Init => T!Init
  <2>1. ASSUME Init
        PROVE  stock \in [Products -> Nat]
    <3>1. Counts \subseteq Nat
      BY CheckoutConstants DEF CheckoutConstants
    <3>2. QED
      BY <2>1, <3>1 DEF Init
  <2>2. QED
    BY <2>1 DEF Init, T!Init
<1>2. IInv /\ [Next]_vars => [T!Next]_(T!vars)
  BY StepRefines, CheckoutConstants
<1>3. QED
  BY <1>1, <1>2, Inductive, PTL DEF Spec, ImplementsTill, T!Spec
-----------------------------------------------------------------------------
(* A visit is not sold twice by who could see it, when no handler outlives *)
(* its transaction.                                                        *)

\* A sale that is written was seen to be the first of its visit, and its visit is completed
\* with it.
SoldUnseen ==
  /\ \A s \in sales : saw[s] = {} /\ visit[order[s].visit] = "completed"
  /\ \A r \in Requests : pc[r] \in PastSale => saw[r] = {}
  /\ \A r \in Requests : pc[r] = "respond" => order[r].visit \in txn[conn[r]].visits

\* A statement of r, its own transaction apart, moves r alone.
LEMMA OthersStay ==
  ASSUME Pool, Guarded, NEW r \in Requests, pc[r] \in Running, NEW s, Goto(r, s),
         \A d \in Conns \ {conn[r]} : txn'[d] = txn[d], UNCHANGED conn
  PROVE  /\ pc'[r] = s
         /\ \A q \in Requests \ {r} :
              pc'[q] = pc[q] /\ (pc[q] = "respond" => txn'[conn'[q]] = txn[conn[q]])
<1>1. /\ pc'[r] = s /\ \A q \in Requests \ {r} : pc'[q] = pc[q]
  BY DEF Goto, Pool, TypeOK
<1>2. ASSUME NEW q \in Requests \ {r}, pc[q] = "respond"
      PROVE  conn[q] \in Conns \ {conn[r]}
  <2>1. pc[q] \in Running
    BY <1>2 DEF Running
  <2> QED BY <2>1, OwnTransaction
<1> QED BY <1>1, <1>2

\* The statements before the sale, and the ends without one.
LEMMA BeforeTheSale ==
  ASSUME Pool, Guarded, NEW r \in Requests,
         \/ ReadEntry(r) \/ ReplaceService(r) \/ LockStock(r) \/ InsertAttempt(r)
         \/ Charge(r) \/ CommitFails(r) \/ StatementFails(r) \/ BreakDeadlock(r)
  PROVE  /\ pc[r] \in Running /\ UNCHANGED <<order, visit, sales, conn, saw>>
         /\ \A d \in Conns \ {conn[r]} : txn'[d] = txn[d]
         /\ \E s : s \notin PastSale /\ Goto(r, s)
<1>1. pc[r] \in Running
  <2>1. CASE BreakDeadlock(r)
    <3>1. PICK d : WaitsFor(r, d)
      BY <2>1 DEF BreakDeadlock
    <3> QED BY <3>1 DEF WaitsFor, Needed, Running, Statements
  <2>2. CASE ~BreakDeadlock(r)
    BY <2>2 DEF ReadEntry, ReplaceService, LockStock, InsertAttempt, Charge, CommitFails,
         StatementFails, At, Running, Statements
  <2> QED BY <2>1, <2>2
<1>2. r \notin gone /\ conn[r] \in Conns
  BY <1>1, OwnTransaction
<1>3. UNCHANGED <<order, visit, sales, conn, saw>>
  BY DEF ReadEntry, ReplaceService, LockStock, InsertAttempt, Charge, CommitFails,
     StatementFails, BreakDeadlock, db
<1>4. ASSUME Refuse(r)
      PROVE  Goto(r, "done") /\ \A d \in Conns \ {conn[r]} : txn'[d] = txn[d]
  BY <1>2, <1>4 DEF Refuse, Release, Pool, TypeOK
<1>5. ASSUME NEW u, Write(r, u)
      PROVE  \A d \in Conns \ {conn[r]} : txn'[d] = txn[d]
  BY <1>2, <1>5 DEF Write, Pool, TypeOK
<1>6. "done" \notin PastSale /\ "service" \notin PastSale /\ "stock" \notin PastSale
      /\ "attempt" \notin PastSale /\ "charge" \notin PastSale /\ "finish" \notin PastSale
  BY DEF PastSale
<1>7. CASE Refuse(r)
  BY <1>1, <1>3, <1>4, <1>6, <1>7
<1>8. CASE ReadEntry(r) /\ ~Refuse(r)
  <2>1. txn' = txn /\ Goto(r, IF order[r].newService THEN "service" ELSE "stock")
    BY <1>8 DEF ReadEntry
  <2> QED BY <1>1, <1>3, <1>6, <2>1
<1>9. CASE ReplaceService(r)
  BY <1>1, <1>3, <1>5, <1>6, <1>9 DEF ReplaceService, Lock
<1>10. CASE LockStock(r) /\ ~Refuse(r)
  BY <1>1, <1>3, <1>5, <1>6, <1>10 DEF LockStock, Lock
<1>11. CASE InsertAttempt(r) /\ ~Refuse(r)
  <2>1. Write(r, WithAttempt(r)) /\ Goto(r, IF order[r].card THEN "charge" ELSE "finish")
    BY <1>2, <1>11 DEF InsertAttempt, Abort, AfterAttempt
  <2> QED BY <1>1, <1>3, <1>5, <1>6, <2>1
<1>12. CASE Charge(r) /\ ~Refuse(r)
  BY <1>1, <1>3, <1>6, <1>12 DEF Charge
<1>13. CASE CommitFails(r) \/ StatementFails(r) \/ BreakDeadlock(r)
  BY <1>2, <1>7, <1>13 DEF CommitFails, StatementFails, BreakDeadlock, Abort
<1> QED BY <1>7, <1>8, <1>9, <1>10, <1>11, <1>12, <1>13

\* The sale is written on a row nobody had sold.
LEMMA FinishUnseen ==
  ASSUME Pool, Guarded, SoldUnseen, NEW r \in Requests, FinishSale(r)
  PROVE  SoldUnseen'
<1> DEFINE v == order[r].visit
<1>1. /\ pc[r] = "finish" /\ pc[r] \in Running /\ pc[r] \in PastAttempt /\ pc[r] \notin PastSale
  BY DEF FinishSale, At, Running, Statements, PastAttempt, PastSale
<1>2. r \notin gone /\ conn[r] \in Conns /\ Covered(r) /\ v \in Visits
  BY <1>1, OwnTransaction, OrderTypes DEF Pool
<1>3. r \notin sales
  BY <1>1, <1>2 DEF Covered, Guarded
<1>4. /\ UNCHANGED <<order, visit, sales, conn>>
      /\ saw' = [saw EXCEPT ![r] = SalesIn(conn[r], v)]
  BY DEF FinishSale, Look, db
<1>5. \A q \in Requests \ {r} : saw'[q] = saw[q]
  BY <1>4 DEF Pool, TypeOK
<1>6. \A d \in Conns \ {conn[r]} : txn'[d] = txn[d]
  BY <1>2 DEF FinishSale, Write, Refuse, Release, Pool, TypeOK
<1>7. \A s \in sales : saw'[s] = {} /\ visit'[order'[s].visit] = "completed"
  BY <1>3, <1>4, <1>5 DEF SoldUnseen, Pool, TypeOK
<1>8. CASE Refuse(r)
  <2>1. Goto(r, "done")
    BY <1>8 DEF Refuse
  <2>2. pc'[r] = "done" /\ \A q \in Requests \ {r} :
          pc'[q] = pc[q] /\ (pc[q] = "respond" => txn'[conn'[q]] = txn[conn[q]])
    BY <1>1, <1>4, <1>6, <2>1, OthersStay
  <2> QED BY <1>4, <1>5, <1>7, <2>2 DEF SoldUnseen, PastSale
<1>9. CASE ~Refuse(r)
  <2>1. StatusIn(conn[r], v) = "in_service" /\ Goto(r, "complete")
    BY <1>2, <1>9 DEF FinishSale
  <2>2. visit[v] = "in_service"
    BY <2>1 DEF StatusIn
  <2>3. \A s \in sales : order[s].visit # v
    BY <2>2 DEF SoldUnseen
  <2>4. txn[conn[r]].sales = {}
    BY <1>1, <1>2 DEF Covered, Work
  <2>5. SalesIn(conn[r], v) = {}
    BY <2>3, <2>4 DEF SalesIn
  <2>6. saw'[r] = {}
    BY <1>4, <2>5 DEF Pool, TypeOK
  <2>7. pc'[r] = "complete" /\ \A q \in Requests \ {r} :
          pc'[q] = pc[q] /\ (pc[q] = "respond" => txn'[conn'[q]] = txn[conn[q]])
    BY <1>1, <1>4, <1>6, <2>1, OthersStay
  <2> QED BY <1>4, <1>5, <1>7, <2>6, <2>7 DEF SoldUnseen, PastSale
<1> QED BY <1>8, <1>9

LEMMA CompleteUnseen ==
  ASSUME Pool, Guarded, SoldUnseen, NEW r \in Requests, Complete(r)
  PROVE  SoldUnseen'
<1> DEFINE v == order[r].visit
           u == [txn[conn[r]] EXCEPT !.locks = @ \cup {v}, !.visits = @ \cup {v}]
<1>1. pc[r] = "complete" /\ pc[r] \in Running /\ UNCHANGED <<order, visit, sales, conn, saw>>
  BY DEF Complete, At, Running, Statements, db
<1>2. r \notin gone /\ conn[r] \in Conns /\ txn[conn[r]] \in Txn
  BY <1>1, OwnTransaction
<1>3. Goto(r, "respond") /\ txn' = [txn EXCEPT ![conn[r]] = u]
  BY <1>2 DEF Complete, Write
<1>4. v \in u.visits
  BY <1>2 DEF Txn
<1> HIDE DEF u
<1>5. txn'[conn[r]] = u /\ \A d \in Conns \ {conn[r]} : txn'[d] = txn[d]
  BY <1>2, <1>3 DEF Pool, TypeOK
<1>6. pc'[r] = "respond" /\ \A q \in Requests \ {r} :
        pc'[q] = pc[q] /\ (pc[q] = "respond" => txn'[conn'[q]] = txn[conn[q]])
  BY <1>1, <1>3, <1>5, OthersStay
<1>7. v \in txn'[conn'[r]].visits
  BY <1>1, <1>4, <1>5
<1> QED BY <1>1, <1>6, <1>7 DEF SoldUnseen, PastSale

LEMMA CommitUnseen ==
  ASSUME Pool, Guarded, SoldUnseen, NEW r \in Requests, Commit(r)
  PROVE  SoldUnseen'
<1>1. /\ pc[r] = "respond" /\ pc[r] \in Running /\ pc[r] \in PastSale /\ Goto(r, "done")
      /\ UNCHANGED <<order, conn, saw>>
      /\ visit' = [v \in Visits |-> StatusIn(conn[r], v)] /\ txn' = [txn EXCEPT ![conn[r]] = NoTxn]
  BY DEF Commit, At, Running, PastSale, Release
<1>2. conn[r] \in Conns /\ sales' = sales \cup {r} /\ order[r].visit \in txn[conn[r]].visits
  BY <1>1, OwnTransaction, CommitEffect DEF SoldUnseen
<1>3. \A d \in Conns \ {conn[r]} : txn'[d] = txn[d]
  BY <1>1, <1>2 DEF Pool, TypeOK
<1>4. pc'[r] = "done" /\ \A q \in Requests \ {r} :
        pc'[q] = pc[q] /\ (pc[q] = "respond" => txn'[conn'[q]] = txn[conn[q]])
  BY <1>1, <1>3, OthersStay
<1>5. ASSUME NEW s \in sales'
      PROVE  saw'[s] = {} /\ visit'[order'[s].visit] = "completed"
  <2>1. s \in Requests /\ order[s].visit \in Visits
    BY <1>2, OrderTypes DEF Pool, TypeOK
  <2>2. saw[s] = {}
    BY <1>1, <1>2 DEF SoldUnseen
  <2>3. visit'[order[s].visit] = StatusIn(conn[r], order[s].visit)
    BY <1>1, <2>1
  <2>4. CASE s = r
    BY <1>1, <1>2, <2>2, <2>3, <2>4 DEF StatusIn
  <2>5. CASE s \in sales
    BY <1>1, <2>2, <2>3, <2>5 DEF StatusIn, SoldUnseen
  <2> QED BY <1>2, <2>4, <2>5
<1> QED BY <1>1, <1>4, <1>5 DEF SoldUnseen, PastSale

LEMMA StepUnseen ==
  ASSUME CheckoutConstants, Pool, Guarded, SoldUnseen, Impatient = {}, [Next]_vars
  PROVE  SoldUnseen'
<1>1. ASSUME NEW r \in Requests, Begin(r)
      PROVE  SoldUnseen'
  <2>1. /\ pc[r] = "idle" /\ UNCHANGED <<order, visit, sales, txn, saw>>
        /\ pc' \in {[pc EXCEPT ![r] = "entry"], [pc EXCEPT ![r] = "done"]}
        /\ \A q \in Requests \ {r} : conn'[q] = conn[q]
    BY <1>1 DEF Begin, Goto, db, Pool, TypeOK
  <2>2. pc'[r] \in {"entry", "done"} /\ \A q \in Requests \ {r} : pc'[q] = pc[q]
    BY <2>1 DEF Pool, TypeOK
  <2> QED BY <2>1, <2>2 DEF SoldUnseen, PastSale
<1>2. ASSUME NEW r \in Requests,
             \/ ReadEntry(r) \/ ReplaceService(r) \/ LockStock(r) \/ InsertAttempt(r)
             \/ Charge(r) \/ CommitFails(r) \/ StatementFails(r) \/ BreakDeadlock(r)
      PROVE  SoldUnseen'
  <2>1. /\ pc[r] \in Running /\ UNCHANGED <<order, visit, sales, conn, saw>>
        /\ \A d \in Conns \ {conn[r]} : txn'[d] = txn[d]
    BY <1>2, BeforeTheSale
  <2>2. PICK s : s \notin PastSale /\ Goto(r, s)
    BY <1>2, BeforeTheSale
  <2>3. pc'[r] = s /\ \A q \in Requests \ {r} :
          pc'[q] = pc[q] /\ (pc[q] = "respond" => txn'[conn'[q]] = txn[conn[q]])
    BY <2>1, <2>2, OthersStay
  <2> QED BY <2>1, <2>2, <2>3 DEF SoldUnseen, PastSale
<1>3. ASSUME NEW r \in Requests, HangUp(r)
      PROVE  SoldUnseen'
  <2>1. /\ pc[r] = "respond" /\ pc[r] \in Running /\ Goto(r, "done")
        /\ UNCHANGED <<order, visit, sales, conn, saw>> /\ txn' = [txn EXCEPT ![conn[r]] = NoTxn]
    BY <1>3 DEF HangUp, Running, Release, db
  <2>2. conn[r] \in Conns /\ \A d \in Conns \ {conn[r]} : txn'[d] = txn[d]
    BY <2>1, OwnTransaction DEF Pool, TypeOK
  <2>3. pc'[r] = "done" /\ \A q \in Requests \ {r} :
          pc'[q] = pc[q] /\ (pc[q] = "respond" => txn'[conn'[q]] = txn[conn[q]])
    BY <2>1, <2>2, OthersStay
  <2> QED BY <2>1, <2>3 DEF SoldUnseen, PastSale
<1>4. ASSUME NEW v \in Visits, MoveVisit(v)
      PROVE  SoldUnseen'
  <2>1. visit[v] # "completed" /\ UNCHANGED <<order, sales, pc, conn, txn, saw>>
        /\ \A w \in Visits \ {v} : visit'[w] = visit[w]
    BY <1>4 DEF MoveVisit, Pool, TypeOK
  <2>2. \A s \in sales : order[s].visit \in Visits \ {v}
    BY <2>1, OrderTypes DEF SoldUnseen, Pool, TypeOK
  <2> QED BY <2>1, <2>2 DEF SoldUnseen
<1>5. ASSUME NEW p \in Products, NEW n \in Counts, UpdateProduct(p, n)
      PROVE  SoldUnseen'
  BY <1>5 DEF UpdateProduct, SoldUnseen
<1>6. CASE UNCHANGED vars
  BY <1>6 DEF vars, db, SoldUnseen
<1> QED BY <1>1, <1>2, <1>3, <1>4, <1>5, <1>6, FinishUnseen, CompleteUnseen, CommitUnseen
        DEF Next, Serve

\* If no handler outlives its transaction, no visit is sold to a request that could see an earlier
\* sale of it: what a sale saw when it read the row again is always nothing.
THEOREM NotSoldTwice ==
  ASSUME Impatient = {}
  PROVE  Spec => []NotSoldTwiceKnowingly
<1>1. Init => SoldUnseen
  BY DEF Init, SoldUnseen, PastSale
<1>2. IInv /\ SoldUnseen /\ [Next]_vars => SoldUnseen'
  BY StepUnseen, CheckoutConstants DEF IInv, Pool
<1>3. SoldUnseen => NotSoldTwiceKnowingly
  BY DEF SoldUnseen, NotSoldTwiceKnowingly
<1> QED BY <1>1, <1>2, <1>3, Inductive, PTL DEF Spec
=============================================================================
