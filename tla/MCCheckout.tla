----------------------------- MODULE MCCheckout -----------------------------
(* Instances of Checkout small enough for TLC. *)
EXTENDS Checkout, TLC

CONSTANTS r1, r2, r3, k1, k2, v1, v2, wax

Ask(k, v, p, card, newService) ==
  [key |-> k, visit |-> v, product |-> p, qty |-> IF p = None THEN 0 ELSE 1,
   card |-> card, newService |-> newService]

Batch(a, b, c) == (r1 :> a) @@ (r2 :> b) @@ (r3 :> c)

\* A card checkout and its retry against a cash checkout of the same visit from another
\* tablet that corrects the service, with and without the last unit of wax; and against a
\* checkout of another visit for that unit.
RaceBatches ==
  {Batch(Ask(k1, v1, wax, TRUE, FALSE), Ask(k1, v1, wax, TRUE, FALSE),
         Ask(k2, v1, p, FALSE, TRUE)) : p \in {wax, None}}
  \cup
  {Batch(Ask(k1, v1, wax, TRUE, FALSE), Ask(k1, v1, None, TRUE, TRUE),
         Ask(k2, v2, wax, FALSE, FALSE))}

\* The same for clients that hang up.
HangUpBatches ==
  {Batch(Ask(k1, v1, wax, TRUE, FALSE), Ask(k1, v1, wax, TRUE, TRUE),
         Ask(k2, v1, wax, FALSE, TRUE))}

Interchangeable == Permutations(Conns)
=============================================================================
