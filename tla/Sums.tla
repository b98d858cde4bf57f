-------------------------------- MODULE Sums --------------------------------
(***************************************************************************)
(* Sums, lists and folds, for the proofs about money, queues and plans.    *)
(* SumFunctionOnSet and SumFunction of the community modules fold a set in *)
(* an order nobody chose, and take one element at a time out of it         *)
(* whichever it is.  A list is ranked by an order or keeps some places of  *)
(* another.  FoldLeft goes over a list place by place (FoldSteps), and     *)
(* what each place keeps holds at the end (CountUp).  Induction over a     *)
(* finite set is the well-founded order of its subsets: a family of them   *)
(* has a smallest one (SmallestSet), and a set for which the claim fails   *)
(* would be none.                                                          *)
(***************************************************************************)
EXTENDS Listing, SequencesExt, FiniteSetTheorems, WellFoundedInduction, SequenceTheorems, TLAPS

One(s) == CHOOSE x \in s : TRUE

\* g adds f up over every subset of S, taking out one element after the other.
AddsUp(g, f, S) ==
  g = [s \in SUBSET S |-> IF s = {} THEN 0 ELSE f[One(s)] + g[s \ {One(s)}]]

Family(T, S) == T \subseteq SUBSET S /\ T # {} /\ \A t \in T : IsFiniteSet(t)

\* Induction over finite sets: a family of them has one that contains no other.
LEMMA SmallestSet ==
  ASSUME NEW S, NEW T, Family(T, S)
  PROVE  \E m \in T : \A t \in T : t \subseteq m => t = m
<1>1. T \subseteq FiniteSubsetsOf(S) /\ T # {} /\ T \subseteq SUBSET S
  BY DEF FiniteSubsetsOf, Family
<1>2. \E m \in T : \A t \in T : ~ (<<t, m>> \in StrictSubsetOrdering(S))
  BY <1>1, WFMin, FS_StrictSubsetOrderingWellFounded
<1> QED BY <1>1, <1>2 DEF StrictSubsetOrdering

LEMMA LeastNat ==
  ASSUME NEW T, T \subseteq Nat, T # {}
  PROVE  \E m \in T : \A n \in T : m <= n
<1> DEFINE U == {1 .. n : n \in T}
<1>1. Family(U, Nat)
  <2>1. \A n \in T : n \in Int /\ 1 .. n \in SUBSET Nat /\ IsFiniteSet(1 .. n)
    BY FS_Interval
  <2> QED BY <2>1 DEF Family
<1>2. PICK m \in T : \A u \in U : u \subseteq 1 .. m => u = 1 .. m
  <2> HIDE DEF U
  <2>1. \E u \in U : \A t \in U : t \subseteq u => t = u
    BY <1>1, SmallestSet
  <2> QED BY <2>1 DEF U
<1>3. \A n \in T : 1 .. n \in U
  OBVIOUS
<1>4. ASSUME NEW n \in T PROVE m <= n
  <2>1. SUFFICES ASSUME n < m PROVE FALSE
    OBVIOUS
  <2>2. 1 .. n \subseteq 1 .. m /\ m \in 1 .. m /\ m \notin 1 .. n
    BY <2>1
  <2>3. 1 .. n = 1 .. m
    BY <1>2, <1>3, <2>2
  <2> QED BY <2>2, <2>3
<1> QED BY <1>4

SmallSets(S, n) == {s \in SUBSET S : Cardinality(s) <= n}

AddsUpTo(g, f, S, n) ==
  g = [s \in SmallSets(S, n) |-> IF s = {} THEN 0 ELSE f[One(s)] + g[s \ {One(s)}]]

LEMMA TakenOut ==
  ASSUME NEW S, IsFiniteSet(S), NEW s \in SUBSET S, s # {}
  PROVE  /\ IsFiniteSet(s) /\ One(s) \in s
         /\ s \ {One(s)} \in SUBSET S
         /\ Cardinality(s) \in Nat /\ Cardinality(s) > 0
         /\ \A x \in s : IsFiniteSet(s \ {x}) /\ Cardinality(s \ {x}) = Cardinality(s) - 1
<1>1. IsFiniteSet(s)
  BY FS_Subset
<1>2. One(s) \in s
  BY DEF One
<1>3. Cardinality(s) \in Nat /\ Cardinality(s) # 0
  BY <1>1, FS_CardinalityType, FS_EmptySet
<1>4. \A x \in s : IsFiniteSet(s \ {x}) /\ Cardinality(s \ {x}) = Cardinality(s) - 1
  BY <1>1, FS_RemoveElement
<1> QED BY <1>1, <1>2, <1>3, <1>4

LEMMA OneMore ==
  ASSUME NEW S, IsFiniteSet(S), NEW f, NEW n \in Nat, NEW g, AddsUpTo(g, f, S, n)
  PROVE  \E h : AddsUpTo(h, f, S, n + 1)
<1> DEFINE Val(k, s) == IF s = {} THEN 0 ELSE f[One(s)] + k[s \ {One(s)}]
           h == [s \in SmallSets(S, n + 1) |-> Val(g, s)]
<1>1. \A s \in SmallSets(S, n) : g[s] = Val(g, s)
  BY DEF AddsUpTo
<1>2. ASSUME NEW s \in SmallSets(S, n)
      PROVE  s \in SmallSets(S, n + 1) /\ h[s] = g[s]
  <2>1. Cardinality(s) \in Nat
    BY FS_Subset, FS_CardinalityType DEF SmallSets
  <2>2. s \in SmallSets(S, n + 1)
    BY <2>1 DEF SmallSets
  <2> QED BY <1>1, <2>2
<1>3. ASSUME NEW s \in SmallSets(S, n + 1), s # {}
      PROVE  s \ {One(s)} \in SmallSets(S, n)
  BY <1>3, TakenOut DEF SmallSets
<1>4. ASSUME NEW s \in SmallSets(S, n + 1)
      PROVE  h[s] = Val(h, s)
  BY <1>2, <1>3, <1>4
<1>5. h = [s \in SmallSets(S, n + 1) |-> h[s]]
  OBVIOUS
<1> HIDE DEF h
<1>6. h = [s \in SmallSets(S, n + 1) |-> Val(h, s)]
  BY <1>4, <1>5
<1> QED BY <1>6 DEF AddsUpTo

LEMMA AddsUpExists ==
  ASSUME NEW S, IsFiniteSet(S), NEW f
  PROVE  \E g : AddsUp(g, f, S)
<1> DEFINE T == {n \in Nat : ~ \E g : AddsUpTo(g, f, S, n)}
<1>1. T = {}
  <2>1. SUFFICES ASSUME T # {} PROVE FALSE
    OBVIOUS
  <2>2. PICK m \in T : \A n \in T : m <= n
    BY <2>1, LeastNat
  <2>3. m # 0
    <3> DEFINE g == [s \in SmallSets(S, 0) |-> 0]
    <3>1. \A s \in SmallSets(S, 0) : s = {}
      BY TakenOut DEF SmallSets
    <3>2. AddsUpTo(g, f, S, 0)
      BY <3>1 DEF AddsUpTo
    <3> QED BY <3>2
  <2>4. m - 1 \in Nat /\ m - 1 \notin T
    BY <2>2, <2>3
  <2>5. PICK g : AddsUpTo(g, f, S, m - 1)
    BY <2>4
  <2>6. \E h : AddsUpTo(h, f, S, (m - 1) + 1)
    BY <2>4, <2>5, OneMore
  <2> QED BY <2>2, <2>6
<1>2. Cardinality(S) \in Nat
  BY FS_CardinalityType
<1>3. PICK g : AddsUpTo(g, f, S, Cardinality(S))
  BY <1>1, <1>2
<1>4. SmallSets(S, Cardinality(S)) = SUBSET S
  BY FS_Subset DEF SmallSets
<1> QED BY <1>3, <1>4 DEF AddsUpTo, AddsUp

LEMMA SumExists ==
  ASSUME NEW S, IsFiniteSet(S), NEW f
  PROVE  \E g : AddsUp(g, f, S) /\ SumFunctionOnSet(f, S) = g[S]
<1> DEFINE g == CHOOSE g : AddsUp(g, f, S)
<1>1. AddsUp(g, f, S)
  BY AddsUpExists
<1>2. SumFunctionOnSet(f, S) = g[S]
  BY DEF SumFunctionOnSet, FoldFunctionOnSet, MapThenFoldSet, AddsUp, One
<1> QED BY <1>1, <1>2

\* Whichever element is taken out, the rest adds up.
LEMMA AnyTakenOut ==
  ASSUME NEW S, IsFiniteSet(S), NEW f, \A x \in S : f[x] \in Int, NEW g, AddsUp(g, f, S)
  PROVE  \A s \in SUBSET S : g[s] \in Int /\ \A x \in s : g[s] = f[x] + g[s \ {x}]
<1> DEFINE Fair(s) == g[s] \in Int /\ \A x \in s : g[s] = f[x] + g[s \ {x}]
           T == {s \in SUBSET S : ~Fair(s)}
<1>1. \A s \in SUBSET S : g[s] = IF s = {} THEN 0 ELSE f[One(s)] + g[s \ {One(s)}]
  BY DEF AddsUp
<1>2. ASSUME NEW s \in SUBSET S, \A t \in SUBSET s : t # s => Fair(t)
      PROVE  Fair(s)
  <2>1. CASE s = {}
    <3>1. g[s] = 0
      BY <1>1, <2>1
    <3> QED BY <2>1, <3>1
  <2>2. CASE s # {}
    <3> DEFINE y == One(s)
    <3>1. y \in s
      BY <2>2 DEF One
    <3>2. f[y] \in Int /\ Fair(s \ {y}) /\ g[s] = f[y] + g[s \ {y}]
      BY <1>1, <1>2, <2>2, <3>1
    <3> HIDE DEF y
    <3>3. ASSUME NEW x \in s, x # y
          PROVE  g[s] = f[x] + g[s \ {x}]
      <4>1. Fair(s \ {x}) /\ y \in s \ {x} /\ x \in s \ {y}
        BY <1>2, <3>1, <3>3
      <4>2. (s \ {x}) \ {y} = (s \ {y}) \ {x}
        OBVIOUS
      <4>3. f[x] \in Int /\ g[(s \ {y}) \ {x}] \in Int
        BY <1>2, <3>1
      <4>4. g[s \ {y}] = f[x] + g[(s \ {y}) \ {x}] /\ g[s \ {x}] = f[y] + g[(s \ {x}) \ {y}]
        BY <3>2, <4>1
      <4> DEFINE G == g[(s \ {y}) \ {x}]
      <4>5. G \in Int /\ g[s \ {y}] = f[x] + G /\ g[s \ {x}] = f[y] + G
        BY <4>2, <4>3, <4>4
      <4>6. f[y] \in Int /\ g[s] = f[y] + g[s \ {y}]
        BY <3>2
      <4> HIDE DEF Fair, G
      <4> QED BY <4>3, <4>5, <4>6
    <3>4. g[s] \in Int
      BY <3>2
    <3> QED BY <3>2, <3>3, <3>4
  <2> QED BY <2>1, <2>2
<1>3. T = {}
  <2> HIDE DEF Fair
  <2>1. SUFFICES ASSUME T # {} PROVE FALSE
    OBVIOUS
  <2>2. Family(T, S)
    BY <2>1, FS_Subset DEF Family
  <2> HIDE DEF T
  <2>3. PICK m \in T : \A t \in T : t \subseteq m => t = m
    BY <2>2, SmallestSet
  <2>4. \A t \in SUBSET m : t # m => Fair(t)
    BY <2>3 DEF T
  <2> QED BY <1>2, <2>3, <2>4 DEF T
<1> QED BY <1>3

\* Functions that agree have one sum.
LEMMA SameUp ==
  ASSUME NEW S, IsFiniteSet(S), NEW f, NEW g, AddsUp(g, f, S),
         NEW R, NEW e, NEW h, AddsUp(h, e, R),
         S \subseteq R, \A x \in S : f[x] = e[x]
  PROVE  \A s \in SUBSET S : g[s] = h[s]
<1> DEFINE T == {s \in SUBSET S : g[s] # h[s]}
<1>1. ASSUME NEW s \in SUBSET S, \A t \in SUBSET s : t # s => g[t] = h[t]
      PROVE  g[s] = h[s]
  <2>1. /\ g[s] = IF s = {} THEN 0 ELSE f[One(s)] + g[s \ {One(s)}]
        /\ h[s] = IF s = {} THEN 0 ELSE e[One(s)] + h[s \ {One(s)}]
    BY DEF AddsUp
  <2>2. s # {} => One(s) \in s
    BY DEF One
  <2>3. s # {} => g[s \ {One(s)}] = h[s \ {One(s)}] /\ f[One(s)] = e[One(s)]
    BY <1>1, <2>2
  <2> QED BY <2>1, <2>3
<1>2. T = {}
  <2>1. SUFFICES ASSUME T # {} PROVE FALSE
    OBVIOUS
  <2>2. Family(T, S)
    BY <2>1, FS_Subset DEF Family
  <2> HIDE DEF T
  <2>3. PICK m \in T : \A t \in T : t \subseteq m => t = m
    BY <2>2, SmallestSet
  <2>4. \A t \in SUBSET m : t # m => g[t] = h[t]
    BY <2>3 DEF T
  <2> QED BY <1>1, <2>3, <2>4 DEF T
<1> QED BY <1>2

-----------------------------------------------------------------------------
(* What a sum is. *)

\* A total over no rows is nothing (reduce from 0, as the services' totals do).
THEOREM SumOfNone ==
  ASSUME NEW f
  PROVE  SumFunctionOnSet(f, {}) = 0
<1>1. IsFiniteSet({})
  BY FS_EmptySet
<1>2. PICK g : AddsUp(g, f, {}) /\ SumFunctionOnSet(f, {}) = g[{}]
  BY <1>1, SumExists
<1> QED BY <1>2 DEF AddsUp

\* A total is that of all rows but one, whichever, and that one: the order of reduce and SUM is no matter.
THEOREM SumTakes ==
  ASSUME NEW S, IsFiniteSet(S), NEW f, \A x \in S : f[x] \in Int
  PROVE  /\ SumFunctionOnSet(f, S) \in Int
         /\ \A x \in S : SumFunctionOnSet(f, S) = f[x] + SumFunctionOnSet(f, S \ {x})
<1>1. PICK g : AddsUp(g, f, S) /\ SumFunctionOnSet(f, S) = g[S]
  BY SumExists
<1>2. SumFunctionOnSet(f, S) \in Int /\ \A x \in S : SumFunctionOnSet(f, S) = f[x] + g[S \ {x}]
  BY <1>1, AnyTakenOut
<1>3. ASSUME NEW x \in S PROVE SumFunctionOnSet(f, S \ {x}) = g[S \ {x}]
  <2>1. IsFiniteSet(S \ {x})
    BY FS_Subset
  <2>2. PICK h : AddsUp(h, f, S \ {x}) /\ SumFunctionOnSet(f, S \ {x}) = h[S \ {x}]
    BY <2>1, SumExists
  <2>3. \A s \in SUBSET (S \ {x}) : h[s] = g[s]
    BY <1>1, <2>1, <2>2, SameUp
  <2> QED BY <2>2, <2>3
<1> QED BY <1>2, <1>3

\* Two totals over the same rows of the same amounts are the same.
THEOREM SumSame ==
  ASSUME NEW S, IsFiniteSet(S), NEW f, NEW e, \A x \in S : f[x] = e[x]
  PROVE  SumFunctionOnSet(f, S) = SumFunctionOnSet(e, S)
<1>1. PICK g : AddsUp(g, f, S) /\ SumFunctionOnSet(f, S) = g[S]
  BY SumExists
<1>2. PICK h : AddsUp(h, e, S) /\ SumFunctionOnSet(e, S) = h[S]
  BY SumExists
<1>3. \A s \in SUBSET S : g[s] = h[s]
  BY <1>1, <1>2, SameUp
<1> QED BY <1>1, <1>2, <1>3

\* A total of integers is one, and of amounts that are not negative is not negative.
THEOREM SumTypes ==
  ASSUME NEW S, IsFiniteSet(S), NEW f
  PROVE  /\ (\A x \in S : f[x] \in Int) => SumFunctionOnSet(f, S) \in Int
         /\ (\A x \in S : f[x] \in Nat) => SumFunctionOnSet(f, S) \in Nat
<1>1. (\A x \in S : f[x] \in Int) => SumFunctionOnSet(f, S) \in Int
  BY SumTakes
<1>2. ASSUME \A x \in S : f[x] \in Nat PROVE SumFunctionOnSet(f, S) \in Nat
  <2> DEFINE T == {s \in SUBSET S : SumFunctionOnSet(f, s) \notin Nat}
  <2>1. \A s \in SUBSET S : IsFiniteSet(s)
    BY FS_Subset
  <2>2. T = {}
    <3>1. SUFFICES ASSUME T # {} PROVE FALSE
      OBVIOUS
    <3>2. Family(T, S)
      BY <2>1, <3>1 DEF Family
    <3> HIDE DEF T
    <3>3. PICK m \in T : \A t \in T : t \subseteq m => t = m
      BY <3>2, SmallestSet
    <3>4. m \in SUBSET S /\ m # {} /\ SumFunctionOnSet(f, m) \notin Nat
      <4>1. m \in SUBSET S /\ SumFunctionOnSet(f, m) \notin Nat
        BY <3>3 DEF T
      <4>2. m = {} => SumFunctionOnSet(f, m) = SumFunctionOnSet(f, {})
        OBVIOUS
      <4>3. SumFunctionOnSet(f, {}) = 0
        BY SumOfNone
      <4> QED BY <4>1, <4>2, <4>3
    <3>5. PICK x \in m : TRUE
      BY <3>4
    <3>6. SumFunctionOnSet(f, m \ {x}) \in Nat
      BY <3>3, <3>4, <3>5 DEF T
    <3>7. SumFunctionOnSet(f, m) = f[x] + SumFunctionOnSet(f, m \ {x}) /\ f[x] \in Nat
      <4>1. IsFiniteSet(m) /\ \A y \in m : f[y] \in Int
        BY <1>2, <2>1, <3>4
      <4>2. SumFunctionOnSet(f, m) = f[x] + SumFunctionOnSet(f, m \ {x})
        BY <3>5, <4>1, SumTakes
      <4> QED BY <1>2, <3>4, <3>5, <4>2
    <3> QED BY <3>4, <3>6, <3>7
  <2> QED BY <2>2
<1> QED BY <1>1, <1>2

\* Two disjoint sets: the sum of the sums.
THEOREM SumJoins ==
  ASSUME NEW A, IsFiniteSet(A), NEW B, IsFiniteSet(B), A \cap B = {},
         NEW f, \A x \in A \cup B : f[x] \in Int
  PROVE  SumFunctionOnSet(f, A \cup B) = SumFunctionOnSet(f, A) + SumFunctionOnSet(f, B)
<1> DEFINE T == {s \in SUBSET B : SumFunctionOnSet(f, A \cup s) # SumFunctionOnSet(f, A) + SumFunctionOnSet(f, s)}
<1>1. ASSUME NEW s \in SUBSET B
      PROVE  IsFiniteSet(s) /\ IsFiniteSet(A \cup s) /\ SumFunctionOnSet(f, s) \in Int
             /\ \A x \in A \cup s : f[x] \in Int
  BY FS_Subset, FS_Union, SumTypes
<1>2. SumFunctionOnSet(f, A) \in Int
  BY SumTypes
<1>3. T = {}
  <2>1. SUFFICES ASSUME T # {} PROVE FALSE
    OBVIOUS
  <2>2. Family(T, B)
    BY <1>1, <2>1 DEF Family
  <2> HIDE DEF T
  <2>3. PICK m \in T : \A t \in T : t \subseteq m => t = m
    BY <2>2, SmallestSet
  <2>4. m \in SUBSET B /\ SumFunctionOnSet(f, A \cup m) # SumFunctionOnSet(f, A) + SumFunctionOnSet(f, m)
    BY <2>3 DEF T
  <2>5. CASE m = {}
    <3>1. SumFunctionOnSet(f, A \cup m) = SumFunctionOnSet(f, A)
      <4>1. A \cup m = A
        BY <2>5
      <4> QED BY <4>1, Zenon
    <3>2. SumFunctionOnSet(f, m) = 0
      <4>1. SumFunctionOnSet(f, m) = SumFunctionOnSet(f, {})
        BY <2>5, Zenon
      <4> QED BY <4>1, SumOfNone
    <3> QED BY <1>2, <2>4, <3>1, <3>2
  <2>6. CASE m # {}
    <3>1. PICK x \in m : TRUE
      BY <2>6
    <3>2. (A \cup m) \ {x} = A \cup (m \ {x}) /\ x \in A \cup m
      BY <2>4, <3>1
    <3>3. SumFunctionOnSet(f, A \cup (m \ {x})) = SumFunctionOnSet(f, A) + SumFunctionOnSet(f, m \ {x})
      BY <2>3, <2>4, <3>1 DEF T
    <3>4. SumFunctionOnSet(f, A \cup m) = f[x] + SumFunctionOnSet(f, A \cup (m \ {x}))
      <4>1. SumFunctionOnSet(f, A \cup m) = f[x] + SumFunctionOnSet(f, (A \cup m) \ {x})
        BY <1>1, <2>4, <3>2, SumTakes
      <4>2. SumFunctionOnSet(f, (A \cup m) \ {x}) = SumFunctionOnSet(f, A \cup (m \ {x}))
        BY <3>2, Zenon
      <4> QED BY <4>1, <4>2
    <3>5. SumFunctionOnSet(f, m) = f[x] + SumFunctionOnSet(f, m \ {x}) /\ f[x] \in Int
      BY <1>1, <2>4, <3>1, SumTakes
    <3>6. SumFunctionOnSet(f, m \ {x}) \in Int
      BY <1>1, <2>4
    <3> QED BY <1>2, <2>4, <3>3, <3>4, <3>5, <3>6
  <2> QED BY <2>5, <2>6
<1>4. B \in SUBSET B
  OBVIOUS
<1> QED BY <1>3, <1>4

\* A larger set of things that are no debts, or larger things, add up to no less.
THEOREM SumGrows ==
  ASSUME NEW S, IsFiniteSet(S), NEW R, R \subseteq S, NEW f, \A x \in S : f[x] \in Int,
         \A x \in S \ R : f[x] \in Nat
  PROVE  SumFunctionOnSet(f, R) <= SumFunctionOnSet(f, S)
<1>1. IsFiniteSet(R) /\ IsFiniteSet(S \ R) /\ S = R \cup (S \ R) /\ R \cap (S \ R) = {}
  BY FS_Subset
<1>2. SumFunctionOnSet(f, R \cup (S \ R)) = SumFunctionOnSet(f, R) + SumFunctionOnSet(f, S \ R)
  BY <1>1, SumJoins
<1>4. SumFunctionOnSet(f, R \cup (S \ R)) = SumFunctionOnSet(f, S)
  BY <1>1, Zenon
<1>3. SumFunctionOnSet(f, R) \in Int /\ SumFunctionOnSet(f, S \ R) \in Nat
  BY <1>1, SumTypes
<1> QED BY <1>2, <1>3, <1>4

\* Two sums of one set, added up term by term.
THEOREM SumPlus ==
  ASSUME NEW S, IsFiniteSet(S), NEW f, \A x \in S : f[x] \in Int,
         NEW e, \A x \in S : e[x] \in Int, NEW h, \A x \in S : h[x] = f[x] + e[x]
  PROVE  SumFunctionOnSet(h, S) = SumFunctionOnSet(f, S) + SumFunctionOnSet(e, S)
<1> DEFINE T == {s \in SUBSET S : SumFunctionOnSet(h, s) # SumFunctionOnSet(f, s) + SumFunctionOnSet(e, s)}
<1>1. ASSUME NEW s \in SUBSET S
      PROVE  IsFiniteSet(s) /\ SumFunctionOnSet(f, s) \in Int /\ SumFunctionOnSet(e, s) \in Int
             /\ \A x \in s : f[x] \in Int /\ e[x] \in Int /\ h[x] \in Int
  BY FS_Subset, SumTypes
<1>2. T = {}
  <2>1. SUFFICES ASSUME T # {} PROVE FALSE
    OBVIOUS
  <2>2. Family(T, S)
    BY <1>1, <2>1 DEF Family
  <2> HIDE DEF T
  <2>3. PICK m \in T : \A t \in T : t \subseteq m => t = m
    BY <2>2, SmallestSet
  <2>4. m \in SUBSET S /\ SumFunctionOnSet(h, m) # SumFunctionOnSet(f, m) + SumFunctionOnSet(e, m)
    BY <2>3 DEF T
  <2>5. m # {}
    BY <2>4, SumOfNone
  <2>6. PICK x \in m : TRUE
    BY <2>5
  <2>7. SumFunctionOnSet(h, m \ {x}) = SumFunctionOnSet(f, m \ {x}) + SumFunctionOnSet(e, m \ {x})
    BY <2>3, <2>4, <2>6 DEF T
  <2>8. /\ SumFunctionOnSet(h, m) = h[x] + SumFunctionOnSet(h, m \ {x})
        /\ SumFunctionOnSet(f, m) = f[x] + SumFunctionOnSet(f, m \ {x})
        /\ SumFunctionOnSet(e, m) = e[x] + SumFunctionOnSet(e, m \ {x})
    BY <1>1, <2>4, <2>6, SumTakes
  <2>9. SumFunctionOnSet(f, m \ {x}) \in Int /\ SumFunctionOnSet(e, m \ {x}) \in Int /\ m \ {x} \in SUBSET S
    BY <1>1, <2>4
  <2>10. h[x] = f[x] + e[x] /\ f[x] \in Int /\ e[x] \in Int
    BY <2>4, <2>6
  <2> QED BY <2>4, <2>7, <2>8, <2>9, <2>10
<1>3. S \in SUBSET S
  OBVIOUS
<1> QED BY <1>2, <1>3

\* Twice a number is the number only of nothing.
LEMMA TwiceNothing ==
  ASSUME NEW a \in Int, a = a + a
  PROVE  a = 0
  OBVIOUS

\* What is nothing adds up to nothing.
THEOREM SumOfNothing ==
  ASSUME NEW S, IsFiniteSet(S), NEW f, \A x \in S : f[x] = 0
  PROVE  SumFunctionOnSet(f, S) = 0
<1>1. \A x \in S : f[x] \in Int /\ f[x] = f[x] + f[x]
  OBVIOUS
<1>2. SumFunctionOnSet(f, S) = SumFunctionOnSet(f, S) + SumFunctionOnSet(f, S)
  BY <1>1, SumPlus
<1>3. SumFunctionOnSet(f, S) \in Int
  BY <1>1, SumTypes
<1> QED BY <1>2, <1>3, TwiceNothing

\* The sum of a function over its domain is that of any other that agrees with it.
THEOREM SumFunctionIs ==
  ASSUME NEW S, IsFiniteSet(S), NEW f, DOMAIN f = S, NEW h, \A x \in S : f[x] = h[x]
  PROVE  SumFunction(f) = SumFunctionOnSet(h, S)
<1>1. SumFunction(f) = SumFunctionOnSet(f, S)
  BY DEF SumFunction
<1>2. SumFunctionOnSet(f, S) = SumFunctionOnSet(h, S)
  BY SumSame
<1> QED BY <1>1, <1>2

LEMMA SumIs ==
  ASSUME NEW S, IsFiniteSet(S), NEW f, NEW g, AddsUp(g, f, S)
  PROVE  SumFunctionOnSet(f, S) = g[S]
<1>1. PICK h : AddsUp(h, f, S) /\ SumFunctionOnSet(f, S) = h[S]
  BY SumExists
<1>2. \A s \in SUBSET S : g[s] = h[s]
  BY <1>1, SameUp
<1> QED BY <1>1, <1>2

\* The elements that k puts at p.
PartAt(k, S, p) == {x \in S : k[x] = p}

\* A set that is told apart by k: the sum of the parts' sums.
THEOREM SumByParts ==
  ASSUME NEW S, IsFiniteSet(S), NEW P, IsFiniteSet(P), NEW k, \A x \in S : k[x] \in P,
         NEW f, \A x \in S : f[x] \in Int,
         NEW e, \A p \in P : e[p] = SumFunctionOnSet(f, PartAt(k, S, p))
  PROVE  SumFunctionOnSet(e, P) = SumFunctionOnSet(f, S)
<1> DEFINE Part(p) == PartAt(k, S, p)
           Parts(Q) == {x \in S : k[x] \in Q}
           T == {Q \in SUBSET P : SumFunctionOnSet(e, Q) # SumFunctionOnSet(f, Parts(Q))}
<1>1. ASSUME NEW Q \in SUBSET P
      PROVE  IsFiniteSet(Q) /\ IsFiniteSet(Parts(Q)) /\ \A x \in Parts(Q) : f[x] \in Int
  BY FS_Subset
<1>2. \A p \in P : IsFiniteSet(Part(p)) /\ e[p] = SumFunctionOnSet(f, Part(p)) /\ e[p] \in Int
  <2>1. ASSUME NEW p \in P PROVE IsFiniteSet(Part(p)) /\ \A x \in Part(p) : f[x] \in Int
    BY FS_Subset DEF PartAt
  <2>2. ASSUME NEW p \in P PROVE SumFunctionOnSet(f, Part(p)) \in Int
    BY <2>1, SumTypes
  <2> QED BY <2>1, <2>2
<1>3. T = {}
  <2>1. SUFFICES ASSUME T # {} PROVE FALSE
    OBVIOUS
  <2>2. Family(T, P)
    BY <1>1, <2>1 DEF Family
  <2> HIDE DEF T
  <2>3. PICK m \in T : \A t \in T : t \subseteq m => t = m
    BY <2>2, SmallestSet
  <2>4. m \in SUBSET P /\ SumFunctionOnSet(e, m) # SumFunctionOnSet(f, Parts(m))
    BY <2>3 DEF T
  <2>5. m # {}
    <3>1. ASSUME m = {} PROVE FALSE
      <4>1. Parts(m) = {}
        BY <3>1
      <4>2. SumFunctionOnSet(e, m) = SumFunctionOnSet(e, {}) /\ SumFunctionOnSet(f, Parts(m)) = SumFunctionOnSet(f, {})
        BY <3>1, <4>1, Zenon
      <4> QED BY <2>4, <4>2, SumOfNone
    <3> QED BY <3>1
  <2>6. PICK p \in m : TRUE
    BY <2>5
  <2>7. SumFunctionOnSet(e, m \ {p}) = SumFunctionOnSet(f, Parts(m \ {p}))
    BY <2>3, <2>4, <2>6 DEF T
  <2>8. SumFunctionOnSet(e, m) = e[p] + SumFunctionOnSet(e, m \ {p})
    BY <1>1, <1>2, <2>4, <2>6, SumTakes
  <2>9. SumFunctionOnSet(f, Parts(m)) = SumFunctionOnSet(f, Part(p)) + SumFunctionOnSet(f, Parts(m \ {p}))
    <3>1. Part(p) \cup Parts(m \ {p}) = Parts(m) /\ Part(p) \cap Parts(m \ {p}) = {}
      BY <2>6 DEF PartAt
    <3>2. IsFiniteSet(Part(p)) /\ IsFiniteSet(Parts(m \ {p})) /\ p \in P
      BY <1>1, <1>2, <2>4, <2>6
    <3>3. \A x \in Part(p) \cup Parts(m \ {p}) : f[x] \in Int
      BY DEF PartAt
    <3> HIDE DEF Part, Parts
    <3>4. SumFunctionOnSet(f, Part(p) \cup Parts(m \ {p})) = SumFunctionOnSet(f, Part(p)) + SumFunctionOnSet(f, Parts(m \ {p}))
      BY <3>1, <3>2, <3>3, SumJoins
    <3>5. SumFunctionOnSet(f, Part(p) \cup Parts(m \ {p})) = SumFunctionOnSet(f, Parts(m))
      BY <3>1, Zenon
    <3> QED BY <3>4, <3>5
  <2>10. e[p] = SumFunctionOnSet(f, Part(p))
    BY <1>2, <2>4, <2>6
  <2> HIDE DEF Part, Parts
  <2> QED BY <2>4, <2>7, <2>8, <2>9, <2>10
<1>4. SumFunctionOnSet(e, P) = SumFunctionOnSet(f, Parts(P)) /\ Parts(P) = S
  BY <1>3
<1>5. SumFunctionOnSet(f, Parts(P)) = SumFunctionOnSet(f, S)
  BY <1>4, Zenon
<1> QED BY <1>4, <1>5

-----------------------------------------------------------------------------
(* Days, shares, and the size of an image. *)

LEMMA TimesKeepsOrder ==
  ASSUME NEW D \in Nat \ {0}, NEW a \in Int, NEW b \in Int, a <= b
  PROVE  a * D <= b * D
OBVIOUS

\* What a division rounded down comes to (Math.floor of minutes and shares).
THEOREM DivIs ==
  ASSUME NEW D \in Nat \ {0}, NEW c \in Int
  PROVE  c \div D \in Int /\ (c \div D) * D <= c /\ c < (c \div D + 1) * D
OBVIOUS

\* Dividing what was multiplied gives it back.
THEOREM DivExact ==
  ASSUME NEW D \in Nat \ {0}, NEW n \in Int
  PROVE  (n * D) \div D = n
<1> DEFINE q == (n * D) \div D
<1>1. n * D \in Int
  OBVIOUS
<1>2. q \in Int /\ q * D <= n * D /\ n * D < (q + 1) * D
  BY <1>1, DivIs
<1> HIDE DEF q
<1>3. ~(q < n)
  <2>1. ASSUME q < n PROVE (q + 1) * D <= n * D
    BY <1>2, <2>1, TimesKeepsOrder
  <2>2. (q + 1) * D \in Int
    BY <1>2
  <2> QED BY <1>1, <1>2, <2>1, <2>2
<1>4. ~(n < q)
  <2>1. ASSUME n < q PROVE (n + 1) * D <= q * D /\ (n + 1) * D = n * D + D
    BY <1>2, <2>1, TimesKeepsOrder
  <2>2. q * D \in Int
    BY <1>2
  <2> QED BY <1>1, <1>2, <2>1, <2>2
<1>5. q = n
  BY <1>2, <1>3, <1>4
<1> QED BY <1>5 DEF q

\* A quotient lies between the bounds of its dividend, so a mean of two readings lies between them.
THEOREM DivIn ==
  ASSUME NEW D \in Nat \ {0}, NEW c \in Int, NEW a \in Int, NEW b \in Int, a * D <= c, c < b * D + D
  PROVE  c \div D \in a .. b
<1> DEFINE q == c \div D
<1>1. q \in Int /\ q * D <= c /\ c < (q + 1) * D /\ q * D \in Int /\ (q + 1) * D \in Int
  BY DivIs
<1> HIDE DEF q
<1>2. ~(q < a)
  <2>1. ASSUME q < a PROVE (q + 1) * D <= a * D
    BY <1>1, <2>1, TimesKeepsOrder
  <2> QED BY <1>1, <2>1
<1>3. ~(b < q)
  <2>1. ASSUME b < q PROVE (b + 1) * D <= q * D /\ (b + 1) * D = b * D + D
    BY <1>1, <2>1, TimesKeepsOrder
  <2> QED BY <1>1, <2>1
<1>4. q \in a .. b
  BY <1>1, <1>2, <1>3
<1> QED BY <1>4 DEF q

\* A share of n, in proportion to a part of a whole, is part of n.
THEOREM ShareFits ==
  ASSUME NEW part \in Nat, NEW whole \in Nat \ {0}, part <= whole, NEW n \in Nat
  PROVE  (part * n) \div whole \in 0 .. n
<1>1. part * n \in Nat /\ n * whole \in Int /\ part * n <= n * whole
  BY TimesKeepsOrder, SMT
<1>2. 0 * whole <= part * n /\ part * n < n * whole + whole
  BY <1>1
<1> QED BY <1>1, <1>2, DivIn

\* Bounded numbers have a greatest (Math.max of a list that is not empty).
THEOREM GreatestNat ==
  ASSUME NEW n \in Nat, NEW T \in SUBSET (0 .. n), T # {}
  PROVE  \E m \in T : \A k \in T : k <= m
<1> DEFINE U == {n - k : k \in T}
<1>5. \A k \in T : k \in 0 .. n /\ n - k \in Nat
  OBVIOUS
<1>1. U \subseteq Nat /\ U # {}
  BY <1>5
<1>2. PICK u \in U : \A v \in U : u <= v
  <2> HIDE DEF U
  <2> QED BY <1>1, LeastNat
<1>3. PICK m \in T : u = n - m
  BY <1>2
<1>4. ASSUME NEW k \in T PROVE k <= m
  <2>1. n - k \in U
    OBVIOUS
  <2>2. n - m <= n - k
    BY <1>2, <1>3, <2>1
  <2> QED BY <1>5, <1>3, <2>2
<1> QED BY <1>4

ImageOf(f, S) == {f[x] : x \in S}

\* As many values as rows at most (Set and Map over a list).
THEOREM ImageIsSmaller ==
  ASSUME NEW S, IsFiniteSet(S), NEW f
  PROVE  IsFiniteSet(ImageOf(f, S)) /\ Cardinality(ImageOf(f, S)) <= Cardinality(S)
<1> DEFINE g == [x \in S |-> f[x]]
<1>1. g \in Surjection(S, ImageOf(f, S))
  BY DEF Surjection, ImageOf
<1> HIDE DEF g
<1> QED BY <1>1, FS_Surjection

-----------------------------------------------------------------------------
(* Lists by rank, and what is kept of a list.                              *)

\* R puts the members of S one behind the other.
StrictOrder(R, S) ==
  /\ \A x, y \in S : x = y \/ <<x, y>> \in R \/ <<y, x>> \in R
  /\ \A x \in S : <<x, x>> \notin R
  /\ \A x, y, z \in S : <<x, y>> \in R /\ <<y, z>> \in R => <<x, z>> \in R

Below(x, S, R) == {y \in S : <<y, x>> \in R}

LEMMA BelowGrows ==
  ASSUME NEW S, IsFiniteSet(S), NEW R, StrictOrder(R, S), NEW x \in S
  PROVE  /\ IsFiniteSet(Below(x, S, R)) /\ Cardinality(Below(x, S, R)) \in 0 .. Cardinality(S) - 1
         /\ \A y \in S : <<x, y>> \in R => Cardinality(Below(x, S, R)) < Cardinality(Below(y, S, R))
<1> USE DEF StrictOrder, Below
<1>1. Below(x, S, R) \subseteq S \ {x} /\ IsFiniteSet(S \ {x}) /\ Cardinality(S \ {x}) = Cardinality(S) - 1
  BY FS_RemoveElement
<1>2. /\ IsFiniteSet(Below(x, S, R)) /\ Cardinality(Below(x, S, R)) <= Cardinality(S \ {x})
  BY <1>1, FS_Subset
<1>3. Cardinality(Below(x, S, R)) \in Nat /\ Cardinality(S) \in Nat
  BY <1>2, FS_CardinalityType
<1>4. ASSUME NEW y \in S, <<x, y>> \in R
      PROVE  Cardinality(Below(x, S, R)) < Cardinality(Below(y, S, R))
  <2>1. Below(x, S, R) \subseteq Below(y, S, R) \ {x} /\ x \in Below(y, S, R)
    BY <1>4
  <2>2. IsFiniteSet(Below(y, S, R))
    BY FS_Subset
  <2>3. IsFiniteSet(Below(y, S, R) \ {x}) /\ Cardinality(Below(y, S, R) \ {x}) = Cardinality(Below(y, S, R)) - 1
    BY <2>1, <2>2, FS_RemoveElement
  <2>4. Cardinality(Below(x, S, R)) <= Cardinality(Below(y, S, R) \ {x})
    BY <2>1, <2>3, FS_Subset
  <2>5. Cardinality(Below(y, S, R)) \in Nat
    BY <2>2, FS_CardinalityType
  <2> QED BY <1>3, <2>3, <2>4, <2>5
<1>5. Cardinality(Below(x, S, R)) \in 0 .. Cardinality(S) - 1
  BY <1>1, <1>2, <1>3
<1> QED BY <1>2, <1>4, <1>5

\* A ranking by a strict order lists every member of the set once and in that order: what ORDER BY and
\* sort are taken to give.
THEOREM RankedIs ==
  ASSUME NEW S, IsFiniteSet(S), NEW R, StrictOrder(R, S)
  PROVE  /\ Cardinality(S) \in Nat /\ Ranked(S, R) \in [1 .. Cardinality(S) -> S]
         /\ \A i, j \in 1 .. Cardinality(S) : i < j => <<Ranked(S, R)[i], Ranked(S, R)[j]>> \in R
         /\ \A x \in S : \E i \in 1 .. Cardinality(S) : Ranked(S, R)[i] = x
<1> DEFINE n == Cardinality(S)
           rank == [x \in S |-> Cardinality(Below(x, S, R)) + 1]
           l == Ranked(S, R)
<1>1. n \in Nat
  BY FS_CardinalityType
<1>2. rank \in [S -> 1 .. n]
  BY <1>1, BelowGrows
<1>3. ASSUME NEW x \in S, NEW y \in S, <<x, y>> \in R PROVE rank[x] < rank[y]
  <2>1. Cardinality(Below(x, S, R)) \in Int /\ Cardinality(Below(y, S, R)) \in Int
    BY BelowGrows
  <2> QED BY <1>3, <2>1, BelowGrows
<1>4. \A x, y \in S : rank[x] = rank[y] => x = y
  <2> HIDE DEF rank
  <2>1. \A x \in S : rank[x] \in Int
    BY <1>1, <1>2
  <2>2. ASSUME NEW x \in S, NEW y \in S, rank[x] = rank[y] PROVE x = y
    <3>1. ~ (rank[x] < rank[y]) /\ ~ (rank[y] < rank[x])
      BY <2>1, <2>2
    <3>2. <<x, y>> \notin R /\ <<y, x>> \notin R
      BY <1>3, <3>1
    <3> QED BY <3>2 DEF StrictOrder
  <2> QED BY <2>2
<1>5. ASSUME NEW k \in 1 .. n PROVE \E x \in S : rank[x] = k
  <2>1. SUFFICES ASSUME \A x \in S : rank[x] # k PROVE FALSE
    OBVIOUS
  <2>2. IsFiniteSet(1 .. n) /\ Cardinality(1 .. n) = n
    BY <1>1, FS_Interval
  <2>3. IsFiniteSet((1 .. n) \ {k}) /\ Cardinality((1 .. n) \ {k}) = n - 1
    BY <2>2, FS_RemoveElement
  <2> HIDE DEF rank
  <2>4. rank \in [S -> (1 .. n) \ {k}]
    BY <1>2, <2>1
  <2>5. \E x, y \in S : x # y /\ rank[x] = rank[y]
    BY <1>1, <2>3, <2>4, FS_PigeonHole
  <2> QED BY <1>4, <2>5
<1>6. ASSUME NEW k \in 1 .. n PROVE l[k] \in S /\ rank[l[k]] = k
  <2>1. \E x \in S : Cardinality({y \in S : <<y, x>> \in R}) = k - 1
    <3>1. PICK x \in S : rank[x] = k
      BY <1>5
    <3>2. Cardinality(Below(x, S, R)) \in Int
      BY BelowGrows
    <3>3. Cardinality(Below(x, S, R)) + 1 = k
      BY <3>1
    <3>4. Cardinality(Below(x, S, R)) = k - 1
      BY <3>2, <3>3
    <3> QED BY <3>4 DEF Below
  <2>2. l[k] \in S /\ Cardinality({y \in S : <<y, l[k]>> \in R}) = k - 1
    BY <2>1 DEF Ranked
  <2> QED BY <2>2 DEF Below
<1>7. l \in [1 .. n -> S]
  BY <1>6 DEF Ranked
<1>8. ASSUME NEW i \in 1 .. n, NEW j \in 1 .. n, i < j PROVE <<l[i], l[j]>> \in R
  <2>1. l[i] # l[j] /\ ~ (<<l[j], l[i]>> \in R)
    <3> HIDE DEF l, rank
    <3>1. rank[l[i]] = i /\ rank[l[j]] = j /\ l[i] \in S /\ l[j] \in S
      BY <1>6
    <3>2. rank[l[j]] < rank[l[i]] => FALSE
      BY <1>8, <3>1
    <3>3. l[i] # l[j]
      BY <1>8, <3>1
    <3> QED BY <1>3, <3>1, <3>2, <3>3
  <2> QED BY <1>6, <2>1 DEF StrictOrder
<1>9. ASSUME NEW x \in S PROVE \E i \in 1 .. n : l[i] = x
  <2> HIDE DEF l
  <2>1. rank[x] \in 1 .. n
    BY <1>2
  <2>2. l[rank[x]] = x
    <3> HIDE DEF rank
    <3> QED BY <1>4, <1>6, <2>1
  <2> QED BY <2>1, <2>2
<1> QED BY <1>1, <1>7, <1>8, <1>9

LEMMA AscendingOrders ==
  ASSUME NEW I, I \subseteq Int
  PROVE  StrictOrder(Ascending(I), I)
  BY DEF StrictOrder, Ascending

\* The places of s that are kept, one behind the other.
KeptAt(at, s, I) ==
  /\ at \in [1 .. Cardinality(I) -> I]
  /\ \A k \in 1 .. Cardinality(I) : Sublist(s, I)[k] = s[at[k]]
  /\ \A i, j \in 1 .. Cardinality(I) : i < j => at[i] < at[j]
  /\ \A i \in I : \E k \in 1 .. Cardinality(I) : at[k] = i

\* What is kept of a list, where and in which order.
THEOREM KeptIs ==
  ASSUME NEW n \in Nat, NEW s, NEW I, I \subseteq 1 .. n
  PROVE  /\ IsFiniteSet(I) /\ Cardinality(I) \in 0 .. n
         /\ Sublist(s, I) = [k \in 1 .. Cardinality(I) |-> Sublist(s, I)[k]]
         /\ \E at : KeptAt(at, s, I)
<1> DEFINE at == Ranked(I, Ascending(I))
<1>1. IsFiniteSet(1 .. n) /\ Cardinality(1 .. n) = n
  BY FS_Interval
<1>2. IsFiniteSet(I) /\ Cardinality(I) <= n /\ Cardinality(I) \in Nat
  BY <1>1, FS_Subset, FS_CardinalityType
<1>3. I \subseteq Int
  OBVIOUS
<1>4. StrictOrder(Ascending(I), I)
  BY <1>3, AscendingOrders
<1>5. /\ at \in [1 .. Cardinality(I) -> I]
      /\ \A i, j \in 1 .. Cardinality(I) : i < j => <<at[i], at[j]>> \in Ascending(I)
      /\ \A i \in I : \E k \in 1 .. Cardinality(I) : at[k] = i
  BY <1>2, <1>4, RankedIs
<1>6. \A i, j \in 1 .. Cardinality(I) : i < j => at[i] < at[j]
  BY <1>5 DEF Ascending
<1>7. Sublist(s, I) = [k \in 1 .. Cardinality(I) |-> s[at[k]]]
  BY DEF Sublist
<1> HIDE DEF at
<1>8. /\ Sublist(s, I) = [k \in 1 .. Cardinality(I) |-> Sublist(s, I)[k]]
      /\ \A k \in 1 .. Cardinality(I) : Sublist(s, I)[k] = s[at[k]]
  BY <1>7
<1>9. KeptAt(at, s, I)
  BY <1>5, <1>6, <1>8 DEF KeptAt
<1> QED BY <1>2, <1>8, <1>9

-----------------------------------------------------------------------------
(* Largest and smallest members, and folds from the left.                  *)

\* Counting up to n.
LEMMA CountUp ==
  ASSUME NEW n \in Nat, NEW T, 0 \in T, \A k \in 0 .. n - 1 : k \in T => k + 1 \in T
  PROVE  \A k \in 0 .. n : k \in T
<1> DEFINE U == {k \in 0 .. n : k \notin T}
<1>1. SUFFICES ASSUME U # {} PROVE FALSE
  OBVIOUS
<1>2. U \subseteq Nat
  OBVIOUS
<1>3. PICK m \in U : \A k \in U : m <= k
  BY <1>1, <1>2, LeastNat
<1>4. m \in 0 .. n /\ m # 0
  OBVIOUS
<1>5. m - 1 \in 0 .. n - 1
  BY <1>4
<1>6. m - 1 \notin U
  BY <1>3, <1>4
<1>7. m - 1 \in T
  BY <1>5, <1>6
<1>8. (m - 1) + 1 \in T
  BY <1>5, <1>7
<1> QED BY <1>4, <1>8

LEMMA MaxIs ==
  ASSUME NEW S, S \subseteq Int, NEW m \in S, \A y \in S : m >= y
  PROVE  Max(S) = m
<1>1. \E x \in S : \A y \in S : x >= y
  OBVIOUS
<1>2. Max(S) \in S /\ \A y \in S : Max(S) >= y
  BY <1>1 DEF Max
<1>3. Max(S) >= m /\ m >= Max(S) /\ m \in Int /\ Max(S) \in Int
  BY <1>2
<1> QED BY <1>3

LEMMA MinIs ==
  ASSUME NEW S, S \subseteq Int, NEW m \in S, \A y \in S : m <= y
  PROVE  Min(S) = m
<1>1. \E x \in S : \A y \in S : x <= y
  OBVIOUS
<1>2. Min(S) \in S /\ \A y \in S : Min(S) <= y
  BY <1>1 DEF Min
<1>3. Min(S) <= m /\ m <= Min(S) /\ m \in Int /\ Min(S) \in Int
  BY <1>2
<1> QED BY <1>3

\* A finite set of integers has a largest and a smallest member.
LEMMA MaxMinAre ==
  ASSUME NEW S, S \subseteq Int, IsFiniteSet(S), S # {}
  PROVE  /\ Max(S) \in S /\ \A y \in S : y <= Max(S)
         /\ Min(S) \in S /\ \A y \in S : Min(S) <= y
<1> DEFINE T == {s \in SUBSET S : s # {} /\ ~ \E a, b \in s : \A y \in s : a <= y /\ y <= b}
<1>1. T = {}
  <2>1. SUFFICES ASSUME T # {} PROVE FALSE
    OBVIOUS
  <2>2. Family(T, S)
    <3>1. \A s \in T : IsFiniteSet(s)
      BY FS_Subset
    <3> QED BY <2>1, <3>1 DEF Family
  <2>3. PICK m \in T : \A t \in T : t \subseteq m => t = m
    <3> HIDE DEF T
    <3> QED BY <2>2, SmallestSet
  <2>4. PICK x \in m : TRUE
    OBVIOUS
  <2>5. m \ {x} \notin T
    BY <2>3, <2>4
  <2>6. CASE m \ {x} = {}
    <3>1. m = {x}
      BY <2>4, <2>6
    <3>2. x \in Int
      BY <2>4
    <3>3. \A y \in m : x <= y /\ y <= x
      BY <3>1, <3>2
    <3> QED BY <2>4, <3>3
  <2>7. CASE m \ {x} # {}
    <3>1. \E a, b \in m \ {x} : \A y \in m \ {x} : a <= y /\ y <= b
      BY <2>5, <2>7
    <3>2. PICK a \in m, b \in m : \A y \in m \ {x} : a <= y /\ y <= b
      BY <3>1
    <3>3. x \in Int /\ a \in Int /\ b \in Int /\ m \subseteq Int
      BY <2>4
    <3>4. PICK c \in {a, x} : c <= a /\ c <= x
      BY <3>3
    <3>5. PICK d \in {b, x} : b <= d /\ x <= d
      BY <3>3
    <3>6. c \in m /\ d \in m
      BY <2>4, <3>4, <3>5
    <3>7. ASSUME NEW y \in m PROVE c <= y /\ y <= d
      <4>1. CASE y = x
        BY <4>1, <3>4, <3>5
      <4>2. CASE y # x
        <5>1. a <= y /\ y <= b /\ y \in Int
          BY <3>2, <3>3, <4>2
        <5>2. c \in Int /\ d \in Int
          BY <3>3, <3>6
        <5>3. a <= y => c <= y
          BY <3>3, <3>4, <5>1, <5>2
        <5>4. y <= b => y <= d
          BY <3>3, <3>5, <5>1, <5>2
        <5> QED BY <5>1, <5>3, <5>4
      <4> QED BY <4>1, <4>2
    <3>8. \E p, q \in m : \A y \in m : p <= y /\ y <= q
      BY <3>6, <3>7
    <3> QED BY <3>8
  <2> QED BY <2>6, <2>7
<1>2. S \notin T /\ S \in SUBSET S
  BY <1>1
<1>3. \E p, q \in S : \A y \in S : p <= y /\ y <= q
  BY <1>2
<1>4. PICK a \in S, b \in S : \A y \in S : a <= y /\ y <= b
  BY <1>3
<1> HIDE DEF T
<1>5. \A y \in S : b >= y
  BY <1>4
<1>6. Max(S) = b /\ Min(S) = a
  BY <1>4, <1>5, MaxIs, MinIs
<1> QED BY <1>4, <1>6

-----------------------------------------------------------------------------
(* A fold from the left carries the members of A along the places 1 .. n. *)

Carried(iter, F, base, n) ==
  iter = [s \in SUBSET (1 .. n) |-> IF s = {} THEN base ELSE F[<<iter[s \ {Max(s)}], Max(s)>>]]

CarriedTo(iter, F, base, n, k) ==
  iter = [s \in SmallSets(1 .. n, k) |-> IF s = {} THEN base ELSE F[<<iter[s \ {Max(s)}], Max(s)>>]]

LEMMA LastOut ==
  ASSUME NEW n \in Nat, NEW s \in SUBSET (1 .. n), s # {}
  PROVE  /\ IsFiniteSet(s) /\ Max(s) \in s /\ s \ {Max(s)} \in SUBSET (1 .. n)
         /\ Cardinality(s) \in Nat /\ Cardinality(s) > 0 /\ Cardinality(s \ {Max(s)}) = Cardinality(s) - 1
<1>1. IsFiniteSet(1 .. n)
  BY FS_Interval
<1>2. /\ IsFiniteSet(s) /\ Cardinality(s) \in Nat /\ Cardinality(s) > 0
      /\ \A x \in s : Cardinality(s \ {x}) = Cardinality(s) - 1
  BY <1>1, TakenOut
<1>3. s \subseteq Int
  OBVIOUS
<1>4. Max(s) \in s
  BY <1>2, <1>3, MaxMinAre
<1> QED BY <1>2, <1>4

LEMMA CarryOneMore ==
  ASSUME NEW n \in Nat, NEW F, NEW base, NEW k \in Nat, NEW g, CarriedTo(g, F, base, n, k)
  PROVE  \E h : CarriedTo(h, F, base, n, k + 1)
<1> DEFINE Val(q, s) == IF s = {} THEN base ELSE F[<<q[s \ {Max(s)}], Max(s)>>]
           h == [s \in SmallSets(1 .. n, k + 1) |-> Val(g, s)]
<1>1. \A s \in SmallSets(1 .. n, k) : g[s] = Val(g, s)
  BY DEF CarriedTo
<1>2. ASSUME NEW s \in SmallSets(1 .. n, k)
      PROVE  s \in SmallSets(1 .. n, k + 1) /\ h[s] = g[s]
  <2>1. IsFiniteSet(1 .. n)
    BY FS_Interval
  <2>2. Cardinality(s) \in Nat
    BY <2>1, FS_Subset, FS_CardinalityType DEF SmallSets
  <2>3. s \in SmallSets(1 .. n, k + 1)
    BY <2>2 DEF SmallSets
  <2> QED BY <1>1, <2>3
<1>3. ASSUME NEW s \in SmallSets(1 .. n, k + 1), s # {}
      PROVE  s \ {Max(s)} \in SmallSets(1 .. n, k)
  <2>1. s \in SUBSET (1 .. n) /\ Cardinality(s) <= k + 1
    BY DEF SmallSets
  <2>2. /\ s \ {Max(s)} \in SUBSET (1 .. n) /\ Cardinality(s) \in Nat
        /\ Cardinality(s \ {Max(s)}) = Cardinality(s) - 1
    BY <1>3, <2>1, LastOut
  <2>3. Cardinality(s \ {Max(s)}) <= k
    BY <2>1, <2>2
  <2> QED BY <2>2, <2>3 DEF SmallSets
<1>4. ASSUME NEW s \in SmallSets(1 .. n, k + 1)
      PROVE  h[s] = Val(h, s)
  BY <1>2, <1>3, <1>4
<1>5. h = [s \in SmallSets(1 .. n, k + 1) |-> h[s]]
  OBVIOUS
<1> HIDE DEF h
<1>6. h = [s \in SmallSets(1 .. n, k + 1) |-> Val(h, s)]
  BY <1>4, <1>5
<1> QED BY <1>6 DEF CarriedTo

LEMMA FoldExists ==
  ASSUME NEW n \in Nat, NEW F, NEW base
  PROVE  \E g : Carried(g, F, base, n)
<1> DEFINE T == {k \in Nat : \E g : CarriedTo(g, F, base, n, k)}
<1>1. 0 \in T
  <2> DEFINE g == [s \in SmallSets(1 .. n, 0) |-> base]
  <2>1. ASSUME NEW s \in SmallSets(1 .. n, 0), s # {} PROVE FALSE
    <3>1. s \in SUBSET (1 .. n) /\ Cardinality(s) <= 0
      BY DEF SmallSets
    <3>2. Cardinality(s) \in Nat /\ Cardinality(s) > 0
      BY <2>1, <3>1, LastOut
    <3> QED BY <3>1, <3>2
  <2>2. CarriedTo(g, F, base, n, 0)
    BY <2>1 DEF CarriedTo
  <2> QED BY <2>2
<1>2. \A k \in 0 .. n - 1 : k \in T => k + 1 \in T
  BY CarryOneMore
<1>3. n \in T
  <2> HIDE DEF T
  <2>1. \A k \in 0 .. n : k \in T
    BY <1>1, <1>2, CountUp
  <2> QED BY <2>1
<1>4. PICK g : CarriedTo(g, F, base, n, n)
  BY <1>3
<1>5. SmallSets(1 .. n, n) = SUBSET (1 .. n)
  <2>1. IsFiniteSet(1 .. n) /\ Cardinality(1 .. n) = n
    BY FS_Interval
  <2> QED BY <2>1, FS_Subset DEF SmallSets
<1> QED BY <1>4, <1>5 DEF CarriedTo, Carried

\* What is carried along passes through the places one after the other.
LEMMA LastOfInterval ==
  ASSUME NEW k \in Nat, k # 0
  PROVE  Max(1 .. k) = k /\ (1 .. k) \ {Max(1 .. k)} = 1 .. k - 1
<1>1. Max(1 .. k) = k
  <2>1. 1 .. k \subseteq Int /\ k \in 1 .. k /\ \A y \in 1 .. k : k >= y
    OBVIOUS
  <2> QED BY <2>1, MaxIs
<1> QED BY <1>1

\* What is carried stays in A when F keeps it there.
LEMMA FoldStays ==
  ASSUME NEW n \in Nat, NEW A, NEW base \in A, NEW F \in [A \X (1 .. n) -> A],
         NEW g, Carried(g, F, base, n)
  PROVE  \A s \in SUBSET (1 .. n) : g[s] \in A
<1> DEFINE T == {k \in 0 .. n : \A s \in SUBSET (1 .. n) : Cardinality(s) <= k => g[s] \in A}
<1>1. \A s \in SUBSET (1 .. n) :
        g[s] = IF s = {} THEN base ELSE F[<<g[s \ {Max(s)}], Max(s)>>]
  BY DEF Carried
<1>2. \A s \in SUBSET (1 .. n) : IsFiniteSet(s) /\ Cardinality(s) \in 0 .. n
  <2>1. IsFiniteSet(1 .. n) /\ Cardinality(1 .. n) = n
    BY FS_Interval
  <2> SUFFICES ASSUME NEW s \in SUBSET (1 .. n) PROVE IsFiniteSet(s) /\ Cardinality(s) \in 0 .. n
    OBVIOUS
  <2>2. IsFiniteSet(s) /\ Cardinality(s) <= n
    <3>1. IsFiniteSet(s) /\ Cardinality(s) <= Cardinality(1 .. n)
      BY <2>1, FS_Subset
    <3> QED BY <2>1, <3>1
  <2>3. Cardinality(s) \in Nat
    BY <2>2, FS_CardinalityType
  <2> QED BY <2>2, <2>3
<1>3. 0 \in T
  <2>1. \A s \in SUBSET (1 .. n) : Cardinality(s) <= 0 => s = {}
    <3> SUFFICES ASSUME NEW s \in SUBSET (1 .. n), Cardinality(s) <= 0 PROVE s = {}
      OBVIOUS
    <3>1. Cardinality(s) = 0
      BY <1>2
    <3> QED BY <1>2, <3>1, FS_EmptySet
  <2>2. \A s \in SUBSET (1 .. n) : Cardinality(s) <= 0 => g[s] = base
    BY <1>1, <2>1
  <2>3. 0 \in 0 .. n
    OBVIOUS
  <2> QED BY <2>2, <2>3
<1>4. ASSUME NEW k \in 0 .. n - 1, k \in T PROVE k + 1 \in T
  <2> SUFFICES ASSUME NEW s \in SUBSET (1 .. n), Cardinality(s) <= k + 1 PROVE g[s] \in A
    OBVIOUS
  <2>1. CASE s = {}
    BY <1>1, <2>1
  <2>2. CASE s # {}
    <3>1. /\ Max(s) \in s /\ s \ {Max(s)} \in SUBSET (1 .. n)
          /\ Cardinality(s) \in Nat /\ Cardinality(s \ {Max(s)}) = Cardinality(s) - 1
      BY <2>2, LastOut
    <3>2. g[s \ {Max(s)}] \in A
      BY <1>4, <3>1
    <3>3. <<g[s \ {Max(s)}], Max(s)>> \in A \X (1 .. n)
      BY <3>1, <3>2
    <3>4. g[s] = F[<<g[s \ {Max(s)}], Max(s)>>]
      BY <1>1, <2>2
    <3> QED BY <3>3, <3>4
  <2> QED BY <2>1, <2>2
<1> HIDE DEF T
<1>5. \A k \in 0 .. n : k \in T
  BY <1>3, <1>4, CountUp
<1>6. n \in T
  BY <1>5
<1> QED BY <1>2, <1>6 DEF T

\* A fold, place by place.
LEMMA FoldSteps ==
  ASSUME NEW n \in Nat, NEW A, NEW base \in A, NEW F \in [A \X (1 .. n) -> A]
  PROVE  \E g : /\ Carried(g, F, base, n)
                /\ \A s \in SUBSET (1 .. n) : g[s] \in A
  BY FoldExists, FoldStays

-----------------------------------------------------------------------------
(* Lists with one place less or more, and of the places that are kept.     *)

LEMMA SeqOfFunction ==
  ASSUME NEW S, NEW n \in Nat, NEW f \in [1 .. n -> S]
  PROVE  f \in Seq(S) /\ Len(f) = n
  OBVIOUS

\* A list less the one at i, and with one more at i.
LEMMA RemovedAt ==
  ASSUME NEW S, NEW s \in Seq(S), NEW i \in 1 .. Len(s)
  PROVE  /\ RemoveAt(s, i) \in Seq(S) /\ Len(RemoveAt(s, i)) = Len(s) - 1
         /\ \A k \in 1 .. Len(s) - 1 : RemoveAt(s, i)[k] = IF k < i THEN s[k] ELSE s[k + 1]
<1> DEFINE n == Len(s)
           a == SubSeq(s, 1, i - 1)
           b == SubSeq(s, i + 1, n)
<1>1. n \in Nat /\ i \in Int /\ 1 <= i /\ i <= n
  BY LenProperties
<1>2. \A k \in 1 .. n : s[k] \in S
  BY ElementOfSeq
<1>3. a \in Seq(S) /\ Len(a) = i - 1 /\ \A k \in 1 .. i - 1 : a[k] = s[k]
  <2>1. /\ a \in Seq(S) /\ Len(a) = (IF 1 <= i - 1 THEN i - 1 - 1 + 1 ELSE 0)
        /\ \A k \in 1 .. i - 1 - 1 + 1 : a[k] = s[1 + k - 1]
    <3>1. \A k \in 1 .. i - 1 : s[k] \in S
      BY <1>1, <1>2
    <3> QED BY <1>1, <3>1, SubSeqProperties
  <2>2. \A k \in 1 .. i - 1 : a[k] = s[k]
    <3> HIDE DEF a
    <3> QED BY <1>1, <2>1
  <2>3. Len(a) = i - 1
    <3> HIDE DEF a
    <3> QED BY <1>1, <2>1
  <2> QED BY <2>1, <2>2, <2>3
<1>4. b \in Seq(S) /\ Len(b) = n - i /\ \A k \in 1 .. n - i : b[k] = s[k + i]
  <2>1. /\ b \in Seq(S) /\ Len(b) = (IF i + 1 <= n THEN n - (i + 1) + 1 ELSE 0)
        /\ \A k \in 1 .. n - (i + 1) + 1 : b[k] = s[i + 1 + k - 1]
    <3>1. \A k \in i + 1 .. n : s[k] \in S
      BY <1>1, <1>2
    <3> QED BY <1>1, <3>1, SubSeqProperties
  <2>2. \A k \in 1 .. n - i : b[k] = s[k + i]
    <3> HIDE DEF b
    <3>1. \A k \in 1 .. n - i : k \in 1 .. n - (i + 1) + 1 /\ i + 1 + k - 1 = k + i
      BY <1>1
    <3> QED BY <2>1, <3>1
  <2>3. Len(b) = n - i
    <3> HIDE DEF b
    <3> QED BY <1>1, <2>1
  <2> QED BY <2>1, <2>2, <2>3
<1>5. RemoveAt(s, i) = a \o b
  BY DEF RemoveAt
<1> HIDE DEF a, b
<1>6. /\ a \o b \in Seq(S) /\ Len(a \o b) = Len(a) + Len(b)
      /\ \A k \in 1 .. Len(a) + Len(b) : (a \o b)[k] = IF k <= Len(a) THEN a[k] ELSE b[k - Len(a)]
  BY <1>3, <1>4, ConcatProperties
<1>7. Len(a) + Len(b) = n - 1
  BY <1>1, <1>3, <1>4
<1>8. ASSUME NEW k \in 1 .. n - 1
      PROVE  (a \o b)[k] = IF k < i THEN s[k] ELSE s[k + 1]
  <2>1. CASE k < i
    BY <1>1, <1>3, <1>6, <1>7, <2>1
  <2>2. CASE ~ (k < i)
    <3>1. k - (i - 1) \in 1 .. n - i /\ k - (i - 1) + i = k + 1 /\ ~ (k <= i - 1)
      BY <1>1, <2>2
    <3>2. (a \o b)[k] = b[k - (i - 1)]
      BY <1>3, <1>6, <1>7, <3>1
    <3> QED BY <1>4, <2>2, <3>1, <3>2
  <2> QED BY <2>1, <2>2
<1> QED BY <1>5, <1>6, <1>7, <1>8

LEMMA InsertedAt ==
  ASSUME NEW S, NEW s \in Seq(S), NEW i \in 1 .. Len(s) + 1, NEW e \in S
  PROVE  /\ InsertAt(s, i, e) \in Seq(S) /\ Len(InsertAt(s, i, e)) = Len(s) + 1
         /\ \A k \in 1 .. Len(s) + 1 :
              InsertAt(s, i, e)[k] = IF k < i THEN s[k] ELSE IF k = i THEN e ELSE s[k - 1]
<1> DEFINE n == Len(s)
           a == SubSeq(s, 1, i - 1)
           b == SubSeq(s, i, n)
           c == <<e>>
<1>1. n \in Nat /\ i \in Int /\ 1 <= i /\ i <= n + 1
  BY LenProperties
<1>2. \A k \in 1 .. n : s[k] \in S
  BY ElementOfSeq
<1>3. a \in Seq(S) /\ Len(a) = i - 1 /\ \A k \in 1 .. i - 1 : a[k] = s[k]
  <2>1. /\ a \in Seq(S) /\ Len(a) = (IF 1 <= i - 1 THEN i - 1 - 1 + 1 ELSE 0)
        /\ \A k \in 1 .. i - 1 - 1 + 1 : a[k] = s[1 + k - 1]
    <3>1. \A k \in 1 .. i - 1 : s[k] \in S
      BY <1>1, <1>2
    <3> QED BY <1>1, <3>1, SubSeqProperties
  <2>2. \A k \in 1 .. i - 1 : a[k] = s[k]
    <3> HIDE DEF a
    <3> QED BY <1>1, <2>1
  <2>3. Len(a) = i - 1
    <3> HIDE DEF a
    <3> QED BY <1>1, <2>1
  <2> QED BY <2>1, <2>2, <2>3
<1>4. b \in Seq(S) /\ Len(b) = n + 1 - i /\ \A k \in 1 .. n + 1 - i : b[k] = s[k + i - 1]
  <2>1. /\ b \in Seq(S) /\ Len(b) = (IF i <= n THEN n - i + 1 ELSE 0)
        /\ \A k \in 1 .. n - i + 1 : b[k] = s[i + k - 1]
    <3>1. \A k \in i .. n : s[k] \in S
      BY <1>1, <1>2
    <3> QED BY <1>1, <3>1, SubSeqProperties
  <2>2. \A k \in 1 .. n + 1 - i : b[k] = s[k + i - 1]
    <3> HIDE DEF b
    <3>1. \A k \in 1 .. n + 1 - i : k \in 1 .. n - i + 1 /\ i + k - 1 = k + i - 1
      BY <1>1
    <3> QED BY <2>1, <3>1
  <2>3. Len(b) = n + 1 - i
    <3> HIDE DEF b
    <3> QED BY <1>1, <2>1
  <2> QED BY <2>1, <2>2, <2>3
<1>5. InsertAt(s, i, e) = (a \o c) \o b
  BY DEF InsertAt
<1>c. c \in Seq(S) /\ Len(c) = 1 /\ c[1] = e
  OBVIOUS
<1> HIDE DEF a, b, c
<1>6. /\ a \o c \in Seq(S) /\ Len(a \o c) = Len(a) + Len(c)
      /\ \A k \in 1 .. Len(a) + Len(c) : (a \o c)[k] = IF k <= Len(a) THEN a[k] ELSE c[k - Len(a)]
  BY <1>3, <1>c, ConcatProperties
<1>7. Len(a \o c) = i /\ \A k \in 1 .. i : (a \o c)[k] = IF k < i THEN s[k] ELSE e
  <2>1. Len(a \o c) = i
    BY <1>1, <1>3, <1>6, <1>c
  <2>2. ASSUME NEW k \in 1 .. i, k < i PROVE (a \o c)[k] = s[k]
    <3>1. k \in 1 .. Len(a) + Len(c) /\ k <= Len(a) /\ k \in 1 .. i - 1
      BY <1>1, <1>3, <1>c, <2>2
    <3> QED BY <1>3, <1>6, <3>1
  <2>3. (a \o c)[i] = e
    <3>1. i \in 1 .. Len(a) + Len(c) /\ ~ (i <= Len(a)) /\ i - Len(a) = 1
      BY <1>1, <1>3, <1>c
    <3> QED BY <1>6, <1>c, <3>1
  <2>4. ASSUME NEW k \in 1 .. i, ~ (k < i) PROVE k = i
    BY <1>1, <2>4
  <2> QED BY <2>1, <2>2, <2>3, <2>4
<1> DEFINE d == a \o c
<1>d. d \in Seq(S) /\ Len(d) = i /\ \A k \in 1 .. i : d[k] = IF k < i THEN s[k] ELSE e
  BY <1>6, <1>7
<1> HIDE DEF d
<1>8. /\ d \o b \in Seq(S) /\ Len(d \o b) = Len(d) + Len(b)
      /\ \A k \in 1 .. Len(d) + Len(b) : (d \o b)[k] = IF k <= Len(d) THEN d[k] ELSE b[k - Len(d)]
  BY <1>4, <1>d, ConcatProperties
<1>9. Len(d) + Len(b) = n + 1
  BY <1>1, <1>4, <1>d
<1>10. ASSUME NEW k \in 1 .. n + 1
      PROVE  (d \o b)[k] = IF k < i THEN s[k] ELSE IF k = i THEN e ELSE s[k - 1]
  <2>1. CASE k < i
    BY <1>1, <1>8, <1>9, <1>d, <2>1
  <2>2. CASE k = i
    BY <1>1, <1>8, <1>9, <1>d, <2>2
  <2>3. CASE k > i
    <3>1. k - i \in 1 .. n + 1 - i /\ k - i + i - 1 = k - 1 /\ ~ (k <= i)
      BY <1>1, <2>3
    <3>2. (d \o b)[k] = b[k - i]
      BY <1>8, <1>9, <1>d, <3>1
    <3> QED BY <1>1, <1>4, <2>3, <3>1, <3>2
  <2>4. k < i \/ k = i \/ k > i
    BY <1>1
  <2> QED BY <2>1, <2>2, <2>3, <2>4
<1>11. InsertAt(s, i, e) = d \o b
  BY <1>5 DEF d
<1> QED BY <1>8, <1>9, <1>10, <1>11

\* What is kept of a list is a list of what stood at the places kept.
LEMMA KeptLists ==
  ASSUME NEW G, NEW s \in Seq(G), NEW I, I \subseteq DOMAIN s
  PROVE  /\ Sublist(s, I) \in Seq(G) /\ Len(Sublist(s, I)) = Cardinality(I) /\ Cardinality(I) \in 0 .. Len(s)
         /\ Range(Sublist(s, I)) = {s[i] : i \in I}
<1> DEFINE m == Cardinality(I)
<1>1. Len(s) \in Nat /\ DOMAIN s = 1 .. Len(s) /\ \A i \in 1 .. Len(s) : s[i] \in G
  BY LenProperties, ElementOfSeq
<1>2. I \subseteq 1 .. Len(s)
  BY <1>1
<1>3. /\ m \in 0 .. Len(s) /\ Sublist(s, I) = [k \in 1 .. m |-> Sublist(s, I)[k]]
      /\ \E at : KeptAt(at, s, I)
  BY <1>1, <1>2, KeptIs
<1>4. PICK at : KeptAt(at, s, I)
  BY <1>3
<1>5. m \in Nat
  BY <1>1, <1>3
<1>6. Sublist(s, I) \in [1 .. m -> G]
  BY <1>1, <1>2, <1>3, <1>4 DEF KeptAt
<1>7. Range(Sublist(s, I)) = {s[i] : i \in I}
  BY <1>3, <1>4 DEF Range, KeptAt
<1>8. Sublist(s, I) \in Seq(G) /\ Len(Sublist(s, I)) = m
  BY <1>5, <1>6, SeqOfFunction
<1> QED BY <1>3, <1>7, <1>8 DEF m

\* The larger and the smaller of two.
LEMMA MaxOfTwo ==
  ASSUME NEW a \in Int, NEW b \in Int
  PROVE  Max({a, b}) = IF a >= b THEN a ELSE b
<1>1. CASE a >= b
  <2>1. {a, b} \subseteq Int /\ a \in {a, b} /\ \A y \in {a, b} : a >= y
    BY <1>1
  <2>2. Max({a, b}) = a
    BY <2>1, MaxIs
  <2>3. QED
    BY <1>1, <2>2
<1>2. CASE ~(a >= b)
  <2>1. {a, b} \subseteq Int /\ b \in {a, b} /\ \A y \in {a, b} : b >= y
    BY <1>2
  <2>2. Max({a, b}) = b
    BY <2>1, MaxIs
  <2>3. QED
    BY <1>2, <2>2
<1>3. QED
  BY <1>1, <1>2

LEMMA MinOfTwo ==
  ASSUME NEW a \in Int, NEW b \in Int
  PROVE  Min({a, b}) = IF a <= b THEN a ELSE b
<1>1. CASE a <= b
  <2>1. {a, b} \subseteq Int /\ a \in {a, b} /\ \A y \in {a, b} : a <= y
    BY <1>1
  <2>2. Min({a, b}) = a
    BY <2>1, MinIs
  <2>3. QED
    BY <1>1, <2>2
<1>2. CASE ~(a <= b)
  <2>1. {a, b} \subseteq Int /\ b \in {a, b} /\ \A y \in {a, b} : b <= y
    BY <1>2
  <2>2. Min({a, b}) = b
    BY <2>1, MinIs
  <2>3. QED
    BY <1>2, <2>2
<1>3. QED
  BY <1>1, <1>2

\* A finite set has a place for each of its members.
LEMMA PlacesFor ==
  ASSUME NEW S, IsFiniteSet(S)
  PROVE  \E f \in [S -> 1 .. Cardinality(S)] : \A g, h \in S : g # h => f[g] # f[h]
<1>1. PICK f \in [1 .. Cardinality(S) -> S] : \A g \in S : \E i \in 1 .. Cardinality(S) : f[i] = g
  <2>1. ExistsBijection(1 .. Cardinality(S), S)
    BY FS_CardinalityType
  <2> QED BY <2>1 DEF ExistsBijection, Bijection, Surjection, Injection
<1> DEFINE a == [g \in S |-> CHOOSE i \in 1 .. Cardinality(S) : f[i] = g]
<1>2. \A g \in S : a[g] \in 1 .. Cardinality(S) /\ f[a[g]] = g
  BY <1>1
<1>3. a \in [S -> 1 .. Cardinality(S)] /\ \A g, h \in S : g # h => a[g] # a[h]
  BY <1>2
<1> HIDE DEF a
<1> QED BY <1>3

\* What a set has more than a part of it.
LEMMA LessAPart ==
  ASSUME NEW A, IsFiniteSet(A), NEW B, B \subseteq A
  PROVE  /\ IsFiniteSet(A \ B) /\ Cardinality(A \ B) = Cardinality(A) - Cardinality(B)
         /\ IsFiniteSet(B) /\ Cardinality(B) \in Nat /\ Cardinality(A) \in Nat /\ Cardinality(B) <= Cardinality(A)
<1>1. IsFiniteSet(B) /\ Cardinality(B) <= Cardinality(A)
  BY FS_Subset
<1>2. A \cap B = B
  OBVIOUS
<1>3. IsFiniteSet(A \ B) /\ Cardinality(A \ B) = Cardinality(A) - Cardinality(A \cap B)
  BY <1>1, FS_Difference
<1> QED BY <1>1, <1>2, <1>3, FS_CardinalityType

LEMMA RemainderIs ==
  ASSUME NEW a \in Int, NEW n \in Nat, n # 0
  PROVE  a % n \in 0 .. n - 1
  OBVIOUS

LEMMA SumOfOne ==
  ASSUME NEW x, NEW f, f[x] \in Int
  PROVE  SumFunctionOnSet(f, {x}) = f[x]
<1>1. IsFiniteSet({x}) /\ x \in {x} /\ {x} \ {x} = {}
  BY FS_Singleton
<1>2. \A y \in {x} : f[y] \in Int
  OBVIOUS
<1>3. SumFunctionOnSet(f, {x}) = f[x] + SumFunctionOnSet(f, {x} \ {x})
  BY <1>1, <1>2, SumTakes
<1>4. SumFunctionOnSet(f, {}) = 0
  BY SumOfNone
<1> QED BY <1>1, <1>3, <1>4

\* acc is what F carries along from base, n times, and stays in A.
Walk(acc, F, base, A, n) ==
  /\ acc[0] = base
  /\ \A k \in 0 .. n : acc[k] \in A
  /\ \A k \in 1 .. n : acc[k] = F[<<acc[k - 1], k>>]

WalksTo(end, F, base, A, n) == \E acc : Walk(acc, F, base, A, n) /\ acc[n] = end

\* What it is of the first places follows by F from what it is of those before the last.
Follows(it, F, base, A, n) ==
  /\ it[{}] = base
  /\ \A s \in SUBSET (1 .. n) : s # {} /\ it[s \ {Max(s)}] \in A => it[s] = F[<<it[s \ {Max(s)}], Max(s)>>]

\* What a fold over places has after each of them.
LEMMA FoldWalks ==
  ASSUME NEW n \in Nat, NEW A, NEW base \in A, NEW F \in [A \X (1 .. n) -> A], NEW it, Follows(it, F, base, A, n)
  PROVE  WalksTo(it[1 .. n], F, base, A, n)
<1> DEFINE acc == [k \in 0 .. n |-> it[1 .. k]]
           T == {k \in 0 .. n : acc[k] \in A}
<1>1. acc[0] = base
  <2>1. 1 .. 0 = {}
    OBVIOUS
  <2> QED BY <2>1 DEF Follows
<1>2. ASSUME NEW k \in 1 .. n, acc[k - 1] \in A PROVE acc[k] = F[<<acc[k - 1], k>>] /\ acc[k] \in A
  <2>1. 1 .. k \in SUBSET (1 .. n) /\ 1 .. k # {} /\ k \in 0 .. n /\ k - 1 \in 0 .. n
    <3>1. k \in 1 .. k /\ k \in 0 .. n /\ k - 1 \in 0 .. n /\ \A j \in 1 .. k : j \in 1 .. n
      OBVIOUS
    <3> QED BY <3>1
  <2>2. Max(1 .. k) = k /\ (1 .. k) \ {Max(1 .. k)} = 1 .. k - 1
    BY LastOfInterval
  <2>3. it[1 .. k - 1] \in A
    BY <1>2, <2>1
  <2>4. it[1 .. k] = F[<<it[1 .. k - 1], k>>]
    BY <2>1, <2>2, <2>3 DEF Follows
  <2>5. acc[k] = F[<<acc[k - 1], k>>]
    BY <2>1, <2>4
  <2> HIDE DEF acc
  <2>6. <<acc[k - 1], k>> \in A \X (1 .. n)
    BY <1>2
  <2> QED BY <2>5, <2>6
<1>3. acc[n] = it[1 .. n]
  OBVIOUS
<1> HIDE DEF acc
<1>4. 0 \in T
  BY <1>1
<1>5. ASSUME NEW k \in 0 .. n - 1, k \in T PROVE k + 1 \in T
  <2>1. k + 1 \in 1 .. n /\ (k + 1) - 1 = k /\ k + 1 \in 0 .. n /\ acc[k] \in A
    BY <1>5
  <2>2. acc[k + 1] \in A
    BY <1>2, <2>1
  <2> QED BY <2>1, <2>2
<1> HIDE DEF T
<1>6. \A k \in 0 .. n : k \in T
  BY <1>4, <1>5, CountUp
<1>7. \A k \in 0 .. n : acc[k] \in A
  BY <1>6 DEF T
<1>8. \A k \in 1 .. n : acc[k] = F[<<acc[k - 1], k>>]
  <2>1. ASSUME NEW k \in 1 .. n PROVE acc[k] = F[<<acc[k - 1], k>>]
    <3>1. k - 1 \in 0 .. n
      OBVIOUS
    <3>2. acc[k - 1] \in A
      BY <1>7, <3>1
    <3> QED BY <1>2, <3>2
  <2> QED BY <2>1
<1>9. Walk(acc, F, base, A, n)
  BY <1>1, <1>7, <1>8 DEF Walk
<1> QED BY <1>3, <1>9 DEF WalksTo
=============================================================================
