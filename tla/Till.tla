-------------------------------- MODULE Till --------------------------------
(***************************************************************************)
(* What a location's till promises of its sales, whatever the requests     *)
(* that make them do to each other: a key sells once, a card sale is paid, *)
(* and an item is sold only if it is in stock.                             *)
(***************************************************************************)
EXTENDS Integers

CONSTANTS
  Requests,  \* the checkout requests
  Keys,      \* idempotency keys, one for every checkout form a tablet opens
  Products,  \* retail products
  None       \* no product

VARIABLES
  order,     \* what each request asks for
  stock,     \* units of each product in stock
  charged,   \* the keys the card processor has taken money for
  sales      \* the requests whose sale is on the books

vars == <<order, stock, charged, sales>>

SoldKeys == {order[s].key : s \in sales}

HasStock(o) == o.product # None => stock[o.product] >= o.qty
Taken(o)    == IF o.product = None THEN stock ELSE [stock EXCEPT ![o.product] = @ - o.qty]

Sell(r) ==
  /\ order[r].key \notin SoldKeys
  /\ order[r].card => order[r].key \in charged
  /\ HasStock(order[r])
  /\ sales' = sales \cup {r}
  /\ stock' = Taken(order[r])
  /\ UNCHANGED <<order, charged>>

\* The processor may take money for a sale that never reaches the books.
TakeMoney(k) == charged' = charged \cup {k} /\ UNCHANGED <<order, stock, sales>>

\* The manager counts a product anew.
Recount(p) ==
  /\ stock' = [stock EXCEPT ![p] = stock'[p]]
  /\ stock'[p] \in Nat
  /\ UNCHANGED <<order, charged, sales>>

Init == charged = {} /\ sales = {} /\ stock \in [Products -> Nat]

Next ==
  \/ \E r \in Requests : Sell(r)
  \/ \E k \in Keys : TakeMoney(k)
  \/ \E p \in Products : Recount(p)

Spec == Init /\ [][Next]_vars

=============================================================================
