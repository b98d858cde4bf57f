------------------------------- MODULE Listing -------------------------------
(***************************************************************************)
(* Lists as the queries and the arrays of the program make them: the       *)
(* members of a set by an order on them (ORDER BY, sort), and what is left *)
(* of a list when some places are kept (filter).                           *)
(***************************************************************************)
EXTENDS Integers, FiniteSets

\* The members of S, each behind those that the order R puts before it.
Ranked(S, R) ==
  [n \in 1 .. Cardinality(S) |-> CHOOSE x \in S : Cardinality({y \in S : <<y, x>> \in R}) = n - 1]

\* Places by their number.
Ascending(I) == {p \in I \X I : p[1] < p[2]}

\* What stands at the places I of s, as it stood.
Sublist(s, I) ==
  LET at == Ranked(I, Ascending(I))
  IN  [n \in 1 .. Cardinality(I) |-> s[at[n]]]
=============================================================================
