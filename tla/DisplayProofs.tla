--------------------------- MODULE DisplayProofs ---------------------------
(***************************************************************************)
(* What is proved of what the shop is shown, for any people, shops, prices *)
(* and histories: what the board plans can be carried out, the schedule    *)
(* page's readers count the same people and chairs, reports and dashboards *)
(* tell of the same money, and no pay run pays a sale twice.               *)
(***************************************************************************)
EXTENDS FloorBoard, Grid, Reports, Dashboard, Sums

-----------------------------------------------------------------------------
(***************************************************************************)
(* Grid.  The sweep over a day's arrivals and leavings counts, after each  *)
(* of them, who has come and has not gone; so its peak is reached at a     *)
(* beginning, and is the most at once.                                     *)
(***************************************************************************)

LEMMA DowIs ==
  ASSUME NEW d \in Days
  PROVE  Dow(d) \in WeekDays
<1>1. Cardinality(WeekDays) \in Nat /\ Cardinality(WeekDays) # 0
  BY GridConstants, FS_CardinalityType, FS_EmptySet
<1>2. d \in Int
  BY GridConstants DEF Days
<1>3. d % Cardinality(WeekDays) \in 0 .. Cardinality(WeekDays) - 1
  BY <1>1, <1>2, RemainderIs
<1> QED BY <1>3, GridConstants DEF Dow

LEMMA EntryIs ==
  ASSUME GridTypeOK, NEW p \in Crew, NEW d \in Days
  PROVE  /\ Dow(d) \in WeekDays /\ weekly[p][Dow(d)] \in Shifts \cup {NoShift}
         /\ exception[p][d] \in Shifts \cup {NoShift, NoWord}
         /\ Entry(p, d) \in Shift \cup {NoShift} /\ NoWord \notin Shifts \cup {NoShift}
<1>1. Dow(d) \in WeekDays
  BY DowIs
<1>2. weekly[p][Dow(d)] \in Shifts \cup {NoShift} /\ exception[p][d] \in Shifts \cup {NoShift, NoWord}
  BY <1>1 DEF GridTypeOK
<1> QED BY <1>1, <1>2, GridConstants DEF Entry

LEMMA GridStaysTyped ==
  ASSUME GridTypeOK, GridNext
  PROVE  GridTypeOK'
<1>1. ASSUME NEW p \in Crew, NEW w \in WeekDays, NEW s \in Shifts \cup {NoShift}, SetWeekly(p, w, s)
      PROVE  GridTypeOK'
  BY <1>1 DEF GridTypeOK, SetWeekly
<1>2. ASSUME NEW p \in Crew, NEW d \in Days, NEW s \in Shifts \cup {NoShift}, Except(p, d, s)
      PROVE  GridTypeOK'
  BY <1>2 DEF GridTypeOK, Except
<1>3. ASSUME NEW p \in Crew, Employ(p)
      PROVE  GridTypeOK'
  BY <1>3 DEF GridTypeOK, Employ, SymDiff
<1> QED BY <1>1, <1>2, <1>3 DEF GridNext

LEMMA RosterAlike ==
  ASSUME GridTypeOK
  PROVE  RosterIsReadAlike
<1> SUFFICES ASSUME NEW p \in Crew
    PROVE  /\ \A d \in Days :
                /\ p \in ExpectedToday(d) <=> Entry(p, d) # NoShift
                /\ DashboardMinutes(p, d) # Length(Entry(p, d)) => exception[p][d] # NoWord
           /\ ScheduledMinutes(p, Days) = SumFunctionOnSet([d \in Days |-> Length(Entry(p, d))], Days)
  BY DEF RosterIsReadAlike
<1>1. ASSUME NEW d \in Days
      PROVE  /\ p \in ExpectedToday(d) <=> Entry(p, d) # NoShift
             /\ DashboardMinutes(p, d) # Length(Entry(p, d)) => exception[p][d] # NoWord
  BY DEF ExpectedToday, Entry, DashboardMinutes
<1>2. [d \in Days |-> IF exception[p][d] # NoWord THEN Length(exception[p][d]) ELSE Length(weekly[p][Dow(d)])]
        = [d \in Days |-> Length(Entry(p, d))]
  <2>1. ASSUME NEW d \in Days
        PROVE  (IF exception[p][d] # NoWord THEN Length(exception[p][d]) ELSE Length(weekly[p][Dow(d)]))
                 = Length(Entry(p, d))
    BY DEF Entry
  <2> QED BY <2>1, Zenon
<1>3. ScheduledMinutes(p, Days) = SumFunctionOnSet([d \in Days |-> Length(Entry(p, d))], Days)
  BY <1>2 DEF ScheduledMinutes
<1> QED BY <1>1, <1>3

LEMMA LengthIs ==
  ASSUME NEW s \in Shift \cup {NoShift}
  PROVE  Length(s) \in Int
  BY DEF Length, Shift

\* A rounded share, cut at all of it, is one.
LEMMA ShareOfAHundred ==
  ASSUME NEW part \in Nat, NEW whole \in Nat, whole # 0
  PROVE  Min({100, (200 * part + whole) \div (2 * whole)}) \in 0 .. 100
<1> DEFINE D == 2 * whole
           c == 200 * part + whole
<1>1. D \in Nat \ {0} /\ c \in Nat
  OBVIOUS
<1> HIDE DEF D, c
<1> DEFINE q == c \div D
<1>2. q \in Int /\ c < (q + 1) * D
  BY <1>1, DivIs
<1>3. q >= 0
  <2> HIDE DEF q
  <2>1. CASE q < 0
    <3>1. q + 1 <= 0 /\ q + 1 \in Int
      BY <1>2, <2>1
    <3>2. (q + 1) * D <= 0 * D
      BY <1>1, <3>1, TimesKeepsOrder
    <3>3. (q + 1) * D \in Int /\ 0 * D = 0
      BY <1>1, <3>1
    <3> QED BY <1>1, <1>2, <3>2, <3>3
  <2> QED BY <1>2, <2>1
<1> HIDE DEF q
<1>4. 100 \in Int /\ Min({100, q}) = IF 100 <= q THEN 100 ELSE q
  BY <1>2, MinOfTwo
<1>5. Min({100, q}) \in 0 .. 100
  BY <1>2, <1>3, <1>4
<1> QED BY <1>5 DEF q, c, D

LEMMA SharesFit ==
  ASSUME GridTypeOK, NEW d \in Days
  PROVE  BookedCapacityPct(d) \in 0 .. 100 /\ \A served \in 0 .. 1 : UtilizationPct(d, served) \in 0 .. 100
<1>1. BookedCapacityPct(d) \in 0 .. 100
  <2> DEFINE f == [r \in DOMAIN Reservations |-> Reservations[r].minutes]
             S == {r \in DOMAIN Reservations : Reservations[r].day = d}
             inChair == SumFunctionOnSet(f, S)
  <2>1. IsFiniteSet(S)
    BY GridConstants, FS_Subset
  <2>2. \A r \in S : f[r] \in Nat
    BY GridConstants
  <2> HIDE DEF f, S
  <2>3. inChair \in Nat
    BY <2>1, <2>2, SumTypes
  <2>4. ChairMinutes(d) \in Nat
    <3>1. ShopHours(d) \in Shift \cup {NoShift}
      BY DowIs, GridConstants DEF ShopHours
    <3>2. Length(ShopHours(d)) \in Int
      BY <3>1, LengthIs
    <3>3. Max({0, Length(ShopHours(d))}) \in Nat
      BY <3>2, MaxOfTwo
    <3>4. ChairCount \in Nat
      BY GridConstants
    <3> QED BY <3>3, <3>4, SMT DEF ChairMinutes
  <2>5. BookedCapacityPct(d) = IF ChairMinutes(d) = 0 THEN 0
          ELSE Min({100, (200 * inChair + ChairMinutes(d)) \div (2 * ChairMinutes(d))})
    BY Zenon DEF BookedCapacityPct, f, S
  <2> HIDE DEF inChair
  <2>6. CASE ChairMinutes(d) = 0
    BY <2>5, <2>6
  <2>7. CASE ChairMinutes(d) # 0
    <3>1. Min({100, (200 * inChair + ChairMinutes(d)) \div (2 * ChairMinutes(d))}) \in 0 .. 100
      BY <2>3, <2>4, <2>7, ShareOfAHundred, Zenon
    <3> QED BY <2>5, <2>7, <3>1, Zenon
  <2> QED BY <2>6, <2>7
<1>2. ASSUME NEW served \in 0 .. 1 PROVE UtilizationPct(d, served) \in 0 .. 100
  <2> DEFINE f == [p \in Crew |-> DashboardMinutes(p, d)]
             S == {p \in Crew : DashboardMinutes(p, d) > 0}
             total == SumFunctionOnSet(f, S)
  <2>1. IsFiniteSet(S)
    BY GridConstants, FS_Subset
  <2>2. \A p \in S : f[p] \in Nat
    <3>1. ASSUME NEW p \in Crew PROVE DashboardMinutes(p, d) \in Int
      <4>1. weekly[p][Dow(d)] \in Shift \cup {NoShift}
        BY EntryIs, GridConstants
      <4> QED BY <4>1, LengthIs DEF DashboardMinutes
    <3> QED BY <3>1
  <2> HIDE DEF f, S
  <2>3. total \in Nat
    BY <2>1, <2>2, SumTypes
  <2>4. UtilizationPct(d, served) = IF total = 0 THEN 0 ELSE Min({100, (200 * served * 30 + total) \div (2 * total)})
    BY Zenon DEF UtilizationPct, f, S
  <2> HIDE DEF total
  <2>5. served * 30 \in Nat /\ 200 * served * 30 = 200 * (served * 30)
    OBVIOUS
  <2>6. CASE total = 0
    BY <2>4, <2>6
  <2>7. CASE total # 0
    <3>1. Min({100, (200 * (served * 30) + total) \div (2 * total)}) \in 0 .. 100
      BY <2>3, <2>5, <2>7, ShareOfAHundred, Zenon
    <3> QED BY <2>4, <2>5, <2>7, <3>1, Zenon
  <2> QED BY <2>6, <2>7
<1> QED BY <1>1, <1>2

AllEvents(d) == {Coming(p, d) : p \in AtWork(d)} \cup {Leaving(p, d) : p \in AtWork(d)}
SoonerPairs(d) == {e \in AllEvents(d) \X AllEvents(d) : Sooner(e[1], e[2])}

LEMMA AtWorkIs ==
  ASSUME GridTypeOK, NEW d \in Days
  PROVE  /\ AtWork(d) \subseteq Crew /\ IsFiniteSet(AtWork(d)) /\ Cardinality(AtWork(d)) \in Nat
         /\ \A p \in AtWork(d) : Entry(p, d) \in Shift /\ Entry(p, d).from \in Nat /\ Entry(p, d).to \in Nat
<1>1. AtWork(d) \subseteq Crew
  BY DEF AtWork
<1>2. IsFiniteSet(AtWork(d)) /\ Cardinality(AtWork(d)) \in Nat
  BY <1>1, GridConstants, FS_Subset, FS_CardinalityType
<1>3. ASSUME NEW p \in AtWork(d) PROVE Entry(p, d) \in Shift
  BY <1>1, EntryIs DEF AtWork
<1> QED BY <1>1, <1>2, <1>3 DEF Shift

LEMMA RosterPlaces ==
  /\ \A p \in Crew : RosterPlace[p] \in Int
  /\ \A p, q \in Crew : p # q => RosterPlace[p] # RosterPlace[q]
<1>1. IsFiniteSet(Crew) /\ Cardinality(Crew) \in Nat
  BY GridConstants, FS_CardinalityType
<1>2. \E f \in [Crew -> 1 .. Cardinality(Crew)] : \A p, q \in Crew : p # q => f[p] # f[q]
  BY <1>1, PlacesFor
<1>3. RosterPlace \in [Crew -> 1 .. Cardinality(Crew)] /\ \A p, q \in Crew : p # q => RosterPlace[p] # RosterPlace[q]
  BY <1>2 DEF RosterPlace
<1> QED BY <1>1, <1>3

LEMMA EventIs ==
  ASSUME GridTypeOK, NEW d \in Days, NEW e \in AllEvents(d)
  PROVE  \E p \in AtWork(d) :
           /\ e.who = p /\ p \in Crew /\ e.minute \in Nat /\ e.delta \in {-1, 1}
           /\ \/ e = Coming(p, d) /\ e.delta = 1 /\ e.minute = Entry(p, d).from
              \/ e = Leaving(p, d) /\ e.delta = -1 /\ e.minute = Entry(p, d).to
<1>1. CASE \E p \in AtWork(d) : e = Coming(p, d)
  BY <1>1, AtWorkIs DEF Coming
<1>2. CASE \E p \in AtWork(d) : e = Leaving(p, d)
  BY <1>2, AtWorkIs DEF Leaving
<1> QED BY <1>1, <1>2 DEF AllEvents

LEMMA EventsOrdered ==
  ASSUME GridTypeOK, NEW d \in Days
  PROVE  StrictOrder(SoonerPairs(d), AllEvents(d)) /\ IsFiniteSet(AllEvents(d))
<1>1. \A e \in AllEvents(d) : e.minute \in Int /\ e.delta \in Int /\ e.who \in Crew /\ RosterPlace[e.who] \in Int
  BY EventIs, RosterPlaces
<1>2. ASSUME NEW a \in AllEvents(d), NEW b \in AllEvents(d), ~Sooner(a, b), ~Sooner(b, a)
      PROVE  a = b
  <2>1. a.minute = b.minute /\ a.delta = b.delta /\ RosterPlace[a.who] = RosterPlace[b.who]
    BY <1>1, <1>2 DEF Sooner
  <2>2. a.who = b.who
    BY <1>1, <2>1, RosterPlaces
  <2> QED BY <2>1, <2>2, EventIs
<1>3. \A a \in AllEvents(d) : ~Sooner(a, a)
  BY <1>1 DEF Sooner
<1>4. ASSUME NEW a \in AllEvents(d), NEW b \in AllEvents(d), NEW c \in AllEvents(d), Sooner(a, b), Sooner(b, c)
      PROVE  Sooner(a, c)
  BY <1>1, <1>4 DEF Sooner
<1>5. IsFiniteSet(AllEvents(d))
  <2> DEFINE A == {Coming(p, d) : p \in AtWork(d)}
             B == {Leaving(p, d) : p \in AtWork(d)}
  <2>1. A = ImageOf([p \in AtWork(d) |-> Coming(p, d)], AtWork(d)) /\ B = ImageOf([p \in AtWork(d) |-> Leaving(p, d)], AtWork(d))
    BY DEF ImageOf
  <2>2. IsFiniteSet(AtWork(d))
    BY AtWorkIs
  <2>3. IsFiniteSet(A) /\ IsFiniteSet(B)
    BY <2>1, <2>2, ImageIsSmaller
  <2> HIDE DEF A, B
  <2>4. IsFiniteSet(A \cup B)
    BY <2>3, FS_Union
  <2> QED BY <2>4 DEF AllEvents, A, B
<1> QED BY <1>2, <1>3, <1>4, <1>5 DEF StrictOrder, SoonerPairs

\* ev is the day's n comings and goings in their order.
Course(ev, n, d) ==
  /\ n \in Nat /\ ev \in [1 .. n -> AllEvents(d)]
  /\ \A i, j \in 1 .. n : i < j => Sooner(ev[i], ev[j]) /\ ~Sooner(ev[j], ev[i]) /\ ev[i] # ev[j]
  /\ \A e \in AllEvents(d) : \E i \in 1 .. n : ev[i] = e

LEMMA CourseIs ==
  ASSUME GridTypeOK, NEW d \in Days
  PROVE  Course(ChairEvents(d), Cardinality(AllEvents(d)), d)
<1> DEFINE S == AllEvents(d)
           R == SoonerPairs(d)
           ev == ChairEvents(d)
           n == Cardinality(S)
<1>1. ev = Ranked(S, R)
  BY DEF ChairEvents, AllEvents, SoonerPairs
<1>2. StrictOrder(R, S) /\ IsFiniteSet(S)
  BY EventsOrdered
<1> HIDE DEF S, R, ev
<1>3. n \in Nat /\ ev \in [1 .. n -> S] /\ (\A i, j \in 1 .. n : i < j => <<ev[i], ev[j]>> \in R)
      /\ \A x \in S : \E i \in 1 .. n : ev[i] = x
  BY <1>1, <1>2, RankedIs
<1>4. ASSUME NEW i \in 1 .. n, NEW j \in 1 .. n, i < j
      PROVE  Sooner(ev[i], ev[j]) /\ ~Sooner(ev[j], ev[i]) /\ ev[i] # ev[j]
  <2>1. ev[i] \in S /\ ev[j] \in S /\ <<ev[i], ev[j]>> \in R
    BY <1>3, <1>4
  <2>2. <<ev[j], ev[i]>> \notin R /\ ev[i] # ev[j]
    BY <1>2, <2>1 DEF StrictOrder
  <2> QED BY <2>1, <2>2 DEF R, S, SoonerPairs
<1> QED BY <1>3, <1>4 DEF Course, ev, S

-----------------------------------------------------------------------------
Sweep(acc, e) == [now |-> acc.now + e.delta, peak |-> Max({acc.peak, acc.now + e.delta})]

\* acc is what the sweep has counted after each of the n events.
Counted(acc, ev, n) ==
  /\ acc[0] = [now |-> 0, peak |-> 0]
  /\ \A k \in 0 .. n : acc[k] \in [now : Int, peak : Int]
  /\ \A k \in 1 .. n : acc[k] = Sweep(acc[k - 1], ev[k])

LEMMA SweepUnfolds ==
  ASSUME GridTypeOK, NEW d \in Days, NEW n, NEW ev, Course(ev, n, d), ChairEvents(d) = ev
  PROVE  \E acc : Counted(acc, ev, n) /\ PeakChairUsage(d) = acc[n].peak
<1> DEFINE A == [now : Int, peak : Int]
           base == [now |-> 0, peak |-> 0]
           F == [x \in A \X (1 .. n) |-> Sweep(x[1], ev[x[2]])]
           Eq(g) == g = [s \in SUBSET (DOMAIN ev) |-> IF s = {} THEN base ELSE Sweep(g[s \ {Max(s)}], ev[Max(s)])]
           it == CHOOSE g : Eq(g)
           acc == [k \in 0 .. n |-> it[1 .. k]]
<1>0. n \in Nat /\ DOMAIN ev = 1 .. n
  BY DEF Course
<1>1. \A k \in 1 .. n : ev[k].delta \in Int
  BY EventIs DEF Course
<1>2. ASSUME NEW x \in A \X (1 .. n) PROVE Sweep(x[1], ev[x[2]]) \in A
  <2>1. x[1].now \in Int /\ x[1].peak \in Int /\ ev[x[2]].delta \in Int /\ x[1].now + ev[x[2]].delta \in Int
    BY <1>1, <1>2
  <2>2. Max({x[1].peak, x[1].now + ev[x[2]].delta}) \in Int
    BY <2>1, MaxOfTwo
  <2> QED BY <2>1, <2>2 DEF Sweep
<1>3. F \in [A \X (1 .. n) -> A] /\ base \in A
  BY <1>2
<1> HIDE DEF F, A, base
<1>4. PICK g : Carried(g, F, base, n) /\ \A s \in SUBSET (1 .. n) : g[s] \in A
  BY <1>0, <1>3, FoldSteps, Zenon
<1>5. Eq(g)
  <2>2. ASSUME NEW s \in SUBSET (1 .. n), s # {}
        PROVE  F[<<g[s \ {Max(s)}], Max(s)>>] = Sweep(g[s \ {Max(s)}], ev[Max(s)])
    <3>1. Max(s) \in s /\ s \ {Max(s)} \in SUBSET (1 .. n)
      BY <1>0, <2>2, LastOut
    <3>2. <<g[s \ {Max(s)}], Max(s)>> \in A \X (1 .. n)
      BY <1>4, <3>1
    <3> QED BY <3>2 DEF F
  <2> QED BY <1>0, <1>4, <2>2 DEF Carried
<1>6. Eq(it)
  <2> HIDE DEF Eq
  <2> QED BY <1>5
<1>7. PeakChairUsage(d) = it[1 .. n].peak
  <2>1. PeakChairUsage(d) = it[DOMAIN ev].peak
    BY DEF PeakChairUsage, FoldLeft, MapThenFoldSet, Sweep, base
  <2> QED BY <1>0, <2>1
<1>8. acc[0] = base
  <2>1. 1 .. 0 = {} /\ {} \in SUBSET (DOMAIN ev)
    OBVIOUS
  <2>2. it[{}] = base
    BY <1>6, <2>1
  <2> HIDE DEF it
  <2> QED BY <1>0, <2>1, <2>2
<1>9. ASSUME NEW k \in 1 .. n PROVE acc[k] = Sweep(acc[k - 1], ev[k])
  <2>1. 1 .. k \in SUBSET (DOMAIN ev) /\ 1 .. k # {} /\ k \in 0 .. n /\ k - 1 \in 0 .. n
    <3> HIDE DEF it, Eq
    <3>1. k \in 1 .. k /\ k \in 0 .. n /\ k - 1 \in 0 .. n
      BY <1>0
    <3>2. \A j \in 1 .. k : j \in 1 .. n
      BY <1>0
    <3> QED BY <1>0, <3>1, <3>2
  <2>2. Max(1 .. k) = k /\ (1 .. k) \ {Max(1 .. k)} = 1 .. k - 1
    BY <1>0, LastOfInterval
  <2>3. it[1 .. k] = Sweep(it[(1 .. k) \ {Max(1 .. k)}], ev[Max(1 .. k)])
    <3> HIDE DEF it
    <3> QED BY <1>6, <2>1
  <2> HIDE DEF it
  <2> QED BY <2>1, <2>2, <2>3
<1>10. acc[n] = it[1 .. n]
  BY <1>0
<1> HIDE DEF acc, Eq, it
<1>11. \A k \in 0 .. n : acc[k] \in A
  <2> DEFINE T == {k \in 0 .. n : acc[k] \in A}
  <2>1. 0 \in T
    BY <1>0, <1>3, <1>8
  <2>2. ASSUME NEW k \in 0 .. n - 1, k \in T PROVE k + 1 \in T
    <3>1. k + 1 \in 1 .. n /\ (k + 1) - 1 = k
      BY <1>0
    <3>2. <<acc[k], k + 1>> \in A \X (1 .. n)
      BY <2>2, <3>1
    <3>3. Sweep(acc[k], ev[k + 1]) \in A
      BY <1>2, <3>2
    <3> QED BY <1>0, <1>9, <3>1, <3>3
  <2> HIDE DEF T
  <2>3. \A k \in 0 .. n : k \in T
    BY <1>0, <2>1, <2>2, CountUp
  <2> QED BY <2>3 DEF T
<1>12. Counted(acc, ev, n)
  BY <1>8, <1>9, <1>11 DEF Counted, base, A
<1> QED BY <1>7, <1>10, <1>12

\* Who has come and who has left after k events.
Came(ev, k, d) == {p \in AtWork(d) : \E i \in 1 .. k : ev[i] = Coming(p, d)}
Went(ev, k, d) == {p \in AtWork(d) : \E i \in 1 .. k : ev[i] = Leaving(p, d)}

LEMMA EventsTellApart ==
  ASSUME NEW d, NEW p, NEW q
  PROVE  /\ Coming(p, d) # Leaving(q, d) /\ Coming(p, d).delta = 1 /\ Leaving(p, d).delta = -1
         /\ (Coming(p, d) = Coming(q, d) => p = q) /\ (Leaving(p, d) = Leaving(q, d) => p = q)
<1>1. Coming(p, d).delta = 1 /\ Leaving(q, d).delta = -1 /\ Leaving(p, d).delta = -1
  BY DEF Coming, Leaving
<1>2. Coming(p, d).who = p /\ Coming(q, d).who = q /\ Leaving(p, d).who = p /\ Leaving(q, d).who = q
  BY DEF Coming, Leaving
<1> QED BY <1>1, <1>2

LEMMA OneMoreEvent ==
  ASSUME GridTypeOK, NEW d \in Days, NEW n, NEW ev, Course(ev, n, d), NEW k \in 1 .. n
  PROVE  \E p \in AtWork(d) :
           \/ /\ ev[k] = Coming(p, d) /\ p \notin Came(ev, k - 1, d)
              /\ Came(ev, k, d) = Came(ev, k - 1, d) \cup {p} /\ Went(ev, k, d) = Went(ev, k - 1, d)
           \/ /\ ev[k] = Leaving(p, d) /\ p \notin Went(ev, k - 1, d)
              /\ Went(ev, k, d) = Went(ev, k - 1, d) \cup {p} /\ Came(ev, k, d) = Came(ev, k - 1, d)
<1>1. n \in Nat /\ ev[k] \in AllEvents(d)
  BY DEF Course
<1>2. PICK p \in AtWork(d) : ev[k] = Coming(p, d) \/ ev[k] = Leaving(p, d)
  BY <1>1 DEF AllEvents
<1>3. \A i \in 1 .. k : i \in 1 .. k - 1 \/ i = k
  BY <1>1
<1>4. \A i \in 1 .. k - 1 : i \in 1 .. k /\ ev[i] # ev[k]
  BY <1>1 DEF Course
<1>5. k \in 1 .. k
  BY <1>1
<1>6. \A q : (\E i \in 1 .. k : ev[i] = Coming(q, d)) <=> (\E i \in 1 .. k - 1 : ev[i] = Coming(q, d)) \/ ev[k] = Coming(q, d)
  BY <1>3, <1>4, <1>5
<1>7. \A q : (\E i \in 1 .. k : ev[i] = Leaving(q, d)) <=> (\E i \in 1 .. k - 1 : ev[i] = Leaving(q, d)) \/ ev[k] = Leaving(q, d)
  BY <1>3, <1>4, <1>5
<1>8. CASE ev[k] = Coming(p, d)
  <2>1. \A q : ev[k] # Leaving(q, d) /\ (ev[k] = Coming(q, d) => q = p)
    BY <1>8, EventsTellApart
  <2>2. p \notin Came(ev, k - 1, d)
    BY <1>4, <1>8 DEF Came
  <2>3. Came(ev, k, d) = Came(ev, k - 1, d) \cup {p}
    BY <1>6, <1>8, <2>1 DEF Came
  <2>4. Went(ev, k, d) = Went(ev, k - 1, d)
    BY <1>7, <2>1 DEF Went
  <2> QED BY <1>8, <2>2, <2>3, <2>4
<1>9. CASE ev[k] = Leaving(p, d)
  <2>1. \A q : ev[k] # Coming(q, d) /\ (ev[k] = Leaving(q, d) => q = p)
    BY <1>9, EventsTellApart
  <2>2. p \notin Went(ev, k - 1, d)
    BY <1>4, <1>9 DEF Went
  <2>3. Went(ev, k, d) = Went(ev, k - 1, d) \cup {p}
    BY <1>7, <1>9, <2>1 DEF Went
  <2>4. Came(ev, k, d) = Came(ev, k - 1, d)
    BY <1>6, <2>1 DEF Came
  <2> QED BY <1>9, <2>2, <2>3, <2>4
<1> QED BY <1>2, <1>8, <1>9

LEMMA CameFinite ==
  ASSUME GridTypeOK, NEW d \in Days, NEW ev, NEW k
  PROVE  /\ Came(ev, k, d) \subseteq AtWork(d) /\ Went(ev, k, d) \subseteq AtWork(d)
         /\ IsFiniteSet(Came(ev, k, d)) /\ IsFiniteSet(Went(ev, k, d))
         /\ Cardinality(Came(ev, k, d)) \in Nat /\ Cardinality(Went(ev, k, d)) \in Nat
         /\ Cardinality(Came(ev, k, d)) <= Cardinality(AtWork(d))
<1>1. Came(ev, k, d) \subseteq AtWork(d) /\ Went(ev, k, d) \subseteq AtWork(d)
  BY DEF Came, Went
<1>2. IsFiniteSet(AtWork(d))
  BY AtWorkIs
<1>3. /\ IsFiniteSet(Came(ev, k, d)) /\ IsFiniteSet(Went(ev, k, d))
      /\ Cardinality(Came(ev, k, d)) <= Cardinality(AtWork(d))
  BY <1>1, <1>2, FS_Subset
<1> QED BY <1>1, <1>3, FS_CardinalityType

LEMMA NowIs ==
  ASSUME GridTypeOK, NEW d \in Days, NEW n, NEW ev, Course(ev, n, d), NEW acc, Counted(acc, ev, n)
  PROVE  /\ \A k \in 0 .. n : acc[k].now = Cardinality(Came(ev, k, d)) - Cardinality(Went(ev, k, d))
         /\ \A k \in 1 .. n : /\ acc[k].now = acc[k - 1].now + ev[k].delta
                              /\ ev[k].delta \in {-1, 1}
<1> DEFINE C(k) == Cardinality(Came(ev, k, d))
           W(k) == Cardinality(Went(ev, k, d))
           T == {k \in 0 .. n : acc[k].now = C(k) - W(k)}
<1>0. n \in Nat
  BY DEF Course
<1>1. ASSUME NEW k \in 1 .. n PROVE acc[k].now = acc[k - 1].now + ev[k].delta
  <2>1. acc[k] = Sweep(acc[k - 1], ev[k])
    BY DEF Counted
  <2> QED BY <2>1 DEF Sweep
<1>2. ASSUME NEW k \in 1 .. n PROVE ev[k].delta \in {-1, 1} /\ C(k) - W(k) = C(k - 1) - W(k - 1) + ev[k].delta
  <2>1. /\ C(k) \in Nat /\ W(k) \in Nat /\ C(k - 1) \in Nat /\ W(k - 1) \in Nat
        /\ IsFiniteSet(Came(ev, k - 1, d)) /\ IsFiniteSet(Went(ev, k - 1, d))
    BY CameFinite
  <2>2. PICK p \in AtWork(d) :
           \/ /\ ev[k] = Coming(p, d) /\ p \notin Came(ev, k - 1, d)
              /\ Came(ev, k, d) = Came(ev, k - 1, d) \cup {p} /\ Went(ev, k, d) = Went(ev, k - 1, d)
           \/ /\ ev[k] = Leaving(p, d) /\ p \notin Went(ev, k - 1, d)
              /\ Went(ev, k, d) = Went(ev, k - 1, d) \cup {p} /\ Came(ev, k, d) = Came(ev, k - 1, d)
    BY OneMoreEvent
  <2>3. CASE ev[k] = Coming(p, d)
    <3>1. C(k) = C(k - 1) + 1 /\ W(k) = W(k - 1) /\ ev[k].delta = 1
      BY <2>1, <2>2, <2>3, EventsTellApart, FS_AddElement
    <3> HIDE DEF C, W
    <3> QED BY <2>1, <3>1
  <2>4. CASE ev[k] = Leaving(p, d)
    <3>1. W(k) = W(k - 1) + 1 /\ C(k) = C(k - 1) /\ ev[k].delta = -1
      BY <2>1, <2>2, <2>4, EventsTellApart, FS_AddElement
    <3> HIDE DEF C, W
    <3> QED BY <2>1, <3>1
  <2> QED BY <2>2, <2>3, <2>4
<1>3. 0 \in T
  <2>1. Came(ev, 0, d) = {} /\ Went(ev, 0, d) = {}
    BY DEF Came, Went
  <2>2. C(0) = 0 /\ W(0) = 0
    BY <2>1, FS_EmptySet
  <2>3. acc[0].now = 0
    BY DEF Counted
  <2> HIDE DEF C, W
  <2> QED BY <1>0, <2>2, <2>3
<1>4. ASSUME NEW k \in 0 .. n - 1, k \in T PROVE k + 1 \in T
  <2>1. k + 1 \in 1 .. n /\ k + 1 \in 0 .. n /\ (k + 1) - 1 = k
    BY <1>0
  <2> HIDE DEF C, W
  <2>2. acc[k + 1].now = acc[k].now + ev[k + 1].delta
    BY <1>1, <2>1
  <2>3. C(k + 1) - W(k + 1) = C(k) - W(k) + ev[k + 1].delta
    BY <1>2, <2>1
  <2>4. acc[k].now = C(k) - W(k)
    BY <1>4
  <2> QED BY <2>1, <2>2, <2>3, <2>4
<1> HIDE DEF T
<1>5. \A k \in 0 .. n : k \in T
  BY <1>0, <1>3, <1>4, CountUp
<1> QED BY <1>1, <1>2, <1>5 DEF T

\* The peak is one of the counts and none is above it.
LEMMA PeakIs ==
  ASSUME NEW n \in Nat, NEW ev, NEW acc, Counted(acc, ev, n), \A k \in 1 .. n : ev[k].delta \in Int
  PROVE  /\ acc[n].peak \in Int /\ \E j \in 0 .. n : acc[n].peak = acc[j].now
         /\ \A j \in 0 .. n : acc[j].now <= acc[n].peak
<1> DEFINE Top(k) == /\ \E j \in 0 .. k : acc[k].peak = acc[j].now
                     /\ \A j \in 0 .. k : acc[j].now <= acc[k].peak
           T == {k \in 0 .. n : Top(k)}
<1>1. \A k \in 0 .. n : acc[k].now \in Int /\ acc[k].peak \in Int
  BY DEF Counted
<1>2. 0 \in T
  BY DEF Counted
<1>3. ASSUME NEW k \in 0 .. n - 1, k \in T PROVE k + 1 \in T
  <2>1. k + 1 \in 1 .. n /\ k + 1 \in 0 .. n /\ (k + 1) - 1 = k /\ k \in 0 .. n
    OBVIOUS
  <2>2. acc[k + 1] = Sweep(acc[k], ev[k + 1])
    BY <2>1 DEF Counted
  <2>3. acc[k + 1].now = acc[k].now + ev[k + 1].delta /\ acc[k + 1].peak = Max({acc[k].peak, acc[k + 1].now})
    BY <2>2 DEF Sweep
  <2>4. acc[k].peak \in Int /\ acc[k + 1].now \in Int /\ acc[k + 1].peak \in Int
    BY <1>1, <2>1
  <2>5. acc[k + 1].peak = IF acc[k].peak >= acc[k + 1].now THEN acc[k].peak ELSE acc[k + 1].now
    BY <2>3, <2>4, MaxOfTwo
  <2>6. Top(k)
    BY <1>3
  <2>7. k + 1 \in 0 .. k + 1 /\ \A j \in 0 .. k : j \in 0 .. k + 1 /\ j \in 0 .. n
    BY <2>1
  <2>8. \E j \in 0 .. k + 1 : acc[k + 1].peak = acc[j].now
    BY <2>5, <2>6, <2>7
  <2>9. ASSUME NEW j \in 0 .. k + 1 PROVE acc[j].now <= acc[k + 1].peak
    <3>1. CASE j = k + 1
      BY <2>4, <2>5, <3>1
    <3>2. CASE j \in 0 .. k
      <4>1. acc[j].now <= acc[k].peak /\ acc[j].now \in Int
        BY <1>1, <2>6, <2>7, <3>2
      <4> QED BY <2>4, <2>5, <4>1
    <3> QED BY <3>1, <3>2
  <2> QED BY <2>1, <2>8, <2>9
<1> HIDE DEF T
<1>4. \A k \in 0 .. n : k \in T
  BY <1>2, <1>3, CountUp
<1>5. n \in T
  BY <1>4
<1> QED BY <1>1, <1>5 DEF T

InUse(d, m)  == Cardinality({p \in AtWork(d) : Entry(p, d).from <= m /\ m < Entry(p, d).to})
ComeBy(d, m) == {p \in AtWork(d) : Entry(p, d).from <= m}
GoneBy(d, m) == {p \in AtWork(d) : Entry(p, d).to <= m}
NobodyBackwards(d) == \A p \in AtWork(d) : Entry(p, d).from <= Entry(p, d).to

LEMMA InUseIs ==
  ASSUME GridTypeOK, NEW d \in Days, NobodyBackwards(d), NEW m \in Nat
  PROVE  /\ InUse(d, m) = Cardinality(ComeBy(d, m)) - Cardinality(GoneBy(d, m)) /\ InUse(d, m) \in Nat
         /\ IsFiniteSet(ComeBy(d, m)) /\ IsFiniteSet(GoneBy(d, m))
         /\ Cardinality(ComeBy(d, m)) \in Nat /\ Cardinality(GoneBy(d, m)) \in Nat
<1> DEFINE A == ComeBy(d, m)
           B == GoneBy(d, m)
<1>1. \A p \in AtWork(d) : Entry(p, d).from \in Nat /\ Entry(p, d).to \in Nat
  BY AtWorkIs
<1>2. B \subseteq A
  BY <1>1 DEF NobodyBackwards, ComeBy, GoneBy
<1>3. A \ B = {p \in AtWork(d) : Entry(p, d).from <= m /\ m < Entry(p, d).to}
  BY <1>1 DEF ComeBy, GoneBy
<1>4. IsFiniteSet(A)
  BY AtWorkIs, FS_Subset DEF ComeBy
<1> HIDE DEF A, B
<1>5. /\ IsFiniteSet(A \ B) /\ Cardinality(A \ B) = Cardinality(A) - Cardinality(B)
      /\ IsFiniteSet(B) /\ Cardinality(B) \in Nat /\ Cardinality(A) \in Nat
  BY <1>2, <1>4, LessAPart
<1>6. InUse(d, m) = Cardinality(A) - Cardinality(B) /\ InUse(d, m) \in Nat
  BY <1>3, <1>5, FS_CardinalityType DEF InUse
<1> QED BY <1>4, <1>5, <1>6 DEF A, B

\* When somebody comes, the sweep counts no more than are in use at that minute.
LEMMA CountedAreInUse ==
  ASSUME GridTypeOK, NEW d \in Days, NobodyBackwards(d), NEW n, NEW ev, Course(ev, n, d),
         NEW acc, Counted(acc, ev, n), NEW k \in 1 .. n, NEW p \in AtWork(d), ev[k] = Coming(p, d)
  PROVE  Entry(p, d).from \in Nat /\ acc[k].now <= InUse(d, Entry(p, d).from)
<1> DEFINE m == Entry(p, d).from
<1>0. n \in Nat /\ m \in Nat /\ \A q \in AtWork(d) : Entry(q, d).from \in Nat /\ Entry(q, d).to \in Nat
  BY AtWorkIs DEF Course
<1>1. ev[k].minute = m /\ ev[k].delta = 1
  BY DEF Coming
<1>2. ASSUME NEW q \in Came(ev, k, d) PROVE q \in ComeBy(d, m)
  <2>1. PICK i \in 1 .. k : ev[i] = Coming(q, d) /\ q \in AtWork(d)
    BY <1>2 DEF Came
  <2>2. i = k \/ (i \in 1 .. n /\ i < k)
    BY <1>0
  <2>3. ev[i].minute = Entry(q, d).from /\ ev[i].delta = 1
    BY <2>1 DEF Coming
  <2>4. ev[i].minute <= m
    <3>1. CASE i = k
      BY <1>0, <1>1, <3>1
    <3>2. CASE i \in 1 .. n /\ i < k
      <4>1. Sooner(ev[i], ev[k])
        BY <3>2 DEF Course
      <4> QED BY <1>0, <1>1, <2>1, <2>3, <4>1 DEF Sooner
    <3> QED BY <2>2, <3>1, <3>2
  <2> QED BY <2>1, <2>3, <2>4 DEF ComeBy
<1>3. ASSUME NEW q \in GoneBy(d, m) PROVE q \in Went(ev, k, d)
  <2>1. q \in AtWork(d) /\ Entry(q, d).to <= m
    BY <1>3 DEF GoneBy
  <2>2. PICK i \in 1 .. n : ev[i] = Leaving(q, d)
    BY <2>1 DEF Course, AllEvents
  <2>3. ev[i].minute = Entry(q, d).to /\ ev[i].delta = -1
    BY <2>2 DEF Leaving
  <2>4. Sooner(ev[i], ev[k])
    BY <1>0, <1>1, <2>1, <2>3 DEF Sooner
  <2>5. i # k
    BY <1>1, <2>3
  <2>6. ~(k < i)
    BY <2>4 DEF Course
  <2>7. i \in 1 .. k
    BY <1>0, <2>5, <2>6
  <2> QED BY <2>1, <2>2, <2>7 DEF Went
<1>4. /\ Came(ev, k, d) \subseteq ComeBy(d, m) /\ GoneBy(d, m) \subseteq Went(ev, k, d)
  BY <1>2, <1>3
<1>5. /\ InUse(d, m) = Cardinality(ComeBy(d, m)) - Cardinality(GoneBy(d, m)) /\ InUse(d, m) \in Nat
      /\ IsFiniteSet(ComeBy(d, m)) /\ Cardinality(ComeBy(d, m)) \in Nat /\ Cardinality(GoneBy(d, m)) \in Nat
  BY <1>0, InUseIs
<1>6. /\ IsFiniteSet(Went(ev, k, d))
      /\ Cardinality(Came(ev, k, d)) \in Nat /\ Cardinality(Went(ev, k, d)) \in Nat
  BY CameFinite
<1>7. /\ Cardinality(Came(ev, k, d)) <= Cardinality(ComeBy(d, m))
      /\ Cardinality(GoneBy(d, m)) <= Cardinality(Went(ev, k, d))
  BY <1>4, <1>5, <1>6, FS_Subset
<1>8. acc[k].now = Cardinality(Came(ev, k, d)) - Cardinality(Went(ev, k, d))
  BY <1>0, NowIs
<1> HIDE DEF m
<1>9. acc[k].now <= InUse(d, m)
  BY <1>5, <1>6, <1>7, <1>8
<1> QED BY <1>0, <1>9 DEF m

\* What is in use at any minute is counted after the last event that is not later.
LEMMA InUseIsCounted ==
  ASSUME GridTypeOK, NEW d \in Days, NobodyBackwards(d), NEW n, NEW ev, Course(ev, n, d),
         NEW acc, Counted(acc, ev, n), NEW m \in Nat
  PROVE  \E k \in 0 .. n : acc[k].now = InUse(d, m)
<1> DEFINE T == {0} \cup {i \in 1 .. n : ev[i].minute <= m}
<1>0. n \in Nat /\ \A q \in AtWork(d) : Entry(q, d).from \in Nat /\ Entry(q, d).to \in Nat
  BY AtWorkIs DEF Course
<1>1. T \in SUBSET (0 .. n) /\ T # {}
  BY <1>0
<1>2. PICK k \in T : \A i \in T : i <= k
  BY <1>0, <1>1, GreatestNat
<1>3. k \in 0 .. n
  BY <1>1, <1>2
<1>4. \A i \in 1 .. n : ev[i] \in AllEvents(d) /\ ev[i].minute \in Nat
  BY EventIs DEF Course
<1>5. ASSUME NEW i \in 1 .. n PROVE i \in 1 .. k <=> ev[i].minute <= m
  <2>1. CASE ev[i].minute <= m
    <3>1. i <= k
      BY <1>2, <2>1
    <3> QED BY <1>0, <1>3, <2>1, <3>1
  <2>2. CASE i \in 1 .. k
    <3>1. k \in 1 .. n /\ ev[k].minute <= m
      BY <1>0, <1>2, <1>3, <2>2
    <3>2. i = k \/ i < k
      BY <1>0, <1>3, <2>2
    <3>3. i < k => Sooner(ev[i], ev[k])
      BY <3>1 DEF Course
    <3> QED BY <1>4, <3>1, <3>2, <3>3 DEF Sooner
  <2> QED BY <2>1, <2>2
<1>6. \A i \in 1 .. k : i \in 1 .. n
  BY <1>0, <1>3
<1>7. Came(ev, k, d) = ComeBy(d, m)
  <2>1. ASSUME NEW q \in Came(ev, k, d) PROVE q \in ComeBy(d, m)
    <3>1. PICK i \in 1 .. k : ev[i] = Coming(q, d) /\ q \in AtWork(d)
      BY <2>1 DEF Came
    <3>2. ev[i].minute = Entry(q, d).from
      BY <3>1 DEF Coming
    <3> QED BY <1>5, <1>6, <3>1, <3>2 DEF ComeBy
  <2>2. ASSUME NEW q \in ComeBy(d, m) PROVE q \in Came(ev, k, d)
    <3>1. q \in AtWork(d) /\ Entry(q, d).from <= m
      BY <2>2 DEF ComeBy
    <3>2. PICK i \in 1 .. n : ev[i] = Coming(q, d)
      BY <3>1 DEF Course, AllEvents
    <3>3. ev[i].minute = Entry(q, d).from
      BY <3>2 DEF Coming
    <3> QED BY <1>5, <3>1, <3>2, <3>3 DEF Came
  <2> QED BY <2>1, <2>2
<1>8. Went(ev, k, d) = GoneBy(d, m)
  <2>1. ASSUME NEW q \in Went(ev, k, d) PROVE q \in GoneBy(d, m)
    <3>1. PICK i \in 1 .. k : ev[i] = Leaving(q, d) /\ q \in AtWork(d)
      BY <2>1 DEF Went
    <3>2. ev[i].minute = Entry(q, d).to
      BY <3>1 DEF Leaving
    <3> QED BY <1>5, <1>6, <3>1, <3>2 DEF GoneBy
  <2>2. ASSUME NEW q \in GoneBy(d, m) PROVE q \in Went(ev, k, d)
    <3>1. q \in AtWork(d) /\ Entry(q, d).to <= m
      BY <2>2 DEF GoneBy
    <3>2. PICK i \in 1 .. n : ev[i] = Leaving(q, d)
      BY <3>1 DEF Course, AllEvents
    <3>3. ev[i].minute = Entry(q, d).to
      BY <3>2 DEF Leaving
    <3> QED BY <1>5, <3>1, <3>2, <3>3 DEF Went
  <2> QED BY <2>1, <2>2
<1>9. acc[k].now = InUse(d, m)
  BY <1>3, <1>7, <1>8, NowIs, InUseIs
<1> QED BY <1>3, <1>9

\* No count is above what is in use at some minute of somebody's shift.
LEMMA CountsAreBelow ==
  ASSUME GridTypeOK, NEW d \in Days, NobodyBackwards(d), NEW n, NEW ev, Course(ev, n, d),
         NEW acc, Counted(acc, ev, n),
         NEW M, M = UNION {Entry(p, d).from .. Entry(p, d).to : p \in AtWork(d)}, NEW k \in 0 .. n
  PROVE  acc[k].now <= 0 \/ \E m \in M : acc[k].now <= InUse(d, m)
<1> DEFINE T == {j \in 0 .. n : acc[j].now <= 0 \/ \E m \in M : acc[j].now <= InUse(d, m)}
<1>0. n \in Nat /\ \A j \in 0 .. n : acc[j].now \in Int
  BY DEF Course, Counted
<1>1. 0 \in T
  BY <1>0 DEF Counted
<1>2. ASSUME NEW j \in 0 .. n - 1, j \in T PROVE j + 1 \in T
  <2>1. j + 1 \in 1 .. n /\ (j + 1) - 1 = j /\ j + 1 \in 0 .. n /\ j \in 0 .. n
    BY <1>0
  <2>2. PICK p \in AtWork(d) : ev[j + 1] = Coming(p, d) \/ ev[j + 1] = Leaving(p, d)
    BY <2>1 DEF Course, AllEvents
  <2>3. CASE ev[j + 1] = Coming(p, d)
    <3>1. Entry(p, d).from \in Nat /\ acc[j + 1].now <= InUse(d, Entry(p, d).from)
      BY <2>1, <2>3, CountedAreInUse
    <3>2. Entry(p, d).from \in Entry(p, d).from .. Entry(p, d).to
      BY AtWorkIs DEF NobodyBackwards
    <3>3. Entry(p, d).from \in M
      BY <3>2
    <3> QED BY <2>1, <3>1, <3>3
  <2>4. CASE ev[j + 1] = Leaving(p, d)
    <3>1. acc[j + 1].now = acc[j].now + ev[j + 1].delta
      BY <2>1, NowIs
    <3>2. ev[j + 1].delta = -1
      BY <2>4 DEF Leaving
    <3>3. acc[j].now \in Int /\ acc[j + 1].now = acc[j].now - 1
      BY <1>0, <2>1, <3>1, <3>2
    <3>4. acc[j].now <= 0 \/ \E m \in M : acc[j].now <= InUse(d, m)
      BY <1>2
    <3>5. M \subseteq Nat /\ \A m \in M : InUse(d, m) \in Nat
      <4>1. M \subseteq Nat
        BY AtWorkIs
      <4> QED BY <4>1, InUseIs
    <3> QED BY <2>1, <3>3, <3>4, <3>5
  <2> QED BY <2>2, <2>3, <2>4
<1> HIDE DEF T
<1>3. \A j \in 0 .. n : j \in T
  BY <1>0, <1>1, <1>2, CountUp
<1> QED BY <1>3 DEF T

\* The sweep finds the most chairs that are taken at once.
LEMMA SweepFindsThePeak ==
  ASSUME GridTypeOK, NEW d \in Days
  PROVE  LET inUse(m) == Cardinality({p \in AtWork(d) : Entry(p, d).from <= m /\ m < Entry(p, d).to})
             minutes  == UNION {Entry(p, d).from .. Entry(p, d).to : p \in AtWork(d)}
         IN  /\ (\A p \in AtWork(d) : Entry(p, d).from <= Entry(p, d).to) =>
                  PeakChairUsage(d) = Max({inUse(m) : m \in minutes} \cup {0})
             /\ PeakChairUsage(d) <= CoverageCount(d)
<1> DEFINE n == Cardinality(AllEvents(d))
           ev == ChairEvents(d)
           M == UNION {Entry(p, d).from .. Entry(p, d).to : p \in AtWork(d)}
           S == {InUse(d, m) : m \in M} \cup {0}
           peak == PeakChairUsage(d)
<1>1. Course(ev, n, d)
  BY CourseIs
<1> HIDE DEF n
<1>2. PICK acc : Counted(acc, ev, n) /\ peak = acc[n].peak
  BY <1>1, SweepUnfolds
<1> HIDE DEF ev, peak
<1>3. n \in Nat /\ \A k \in 1 .. n : ev[k].delta \in Int
  BY <1>1, EventIs DEF Course
<1>4. /\ peak \in Int /\ \E j \in 0 .. n : peak = acc[j].now
      /\ \A j \in 0 .. n : acc[j].now <= peak /\ acc[j].now \in Int
  BY <1>2, <1>3, PeakIs DEF Counted
<1>5. peak >= 0
  <2>1. 0 \in 0 .. n /\ acc[0].now = 0
    BY <1>2, <1>3 DEF Counted
  <2> QED BY <1>4, <2>1
<1>6. ASSUME NobodyBackwards(d) PROVE peak = Max(S)
  <2>1. M \subseteq Nat
    BY AtWorkIs
  <2>2. \A m \in M : InUse(d, m) \in Nat
    BY <1>6, <2>1, InUseIs
  <2>3. S \subseteq Int /\ \A y \in S : y >= 0
    BY <2>2
  <2>4. ASSUME NEW y \in S PROVE y <= peak
    <3>1. CASE y = 0
      BY <1>4, <1>5, <3>1
    <3>2. CASE \E m \in M : y = InUse(d, m)
      <4>1. PICK m \in M : y = InUse(d, m)
        BY <3>2
      <4>2. \E k \in 0 .. n : acc[k].now = InUse(d, m)
        BY <1>1, <1>2, <1>6, <2>1, InUseIsCounted
      <4> QED BY <1>4, <4>1, <4>2
    <3> QED BY <3>1, <3>2
  <2>5. \E y \in S : peak <= y
    <3>1. PICK j \in 0 .. n : peak = acc[j].now
      BY <1>4
    <3> HIDE DEF M
    <3>2. acc[j].now <= 0 \/ \E m \in M : acc[j].now <= InUse(d, m)
      BY <1>1, <1>2, <1>6, CountsAreBelow DEF M
    <3> QED BY <3>1, <3>2
  <2> HIDE DEF S
  <2>6. peak \in S
    <3>1. PICK y \in S : peak <= y
      BY <2>5
    <3>2. y <= peak /\ y \in Int
      BY <2>3, <2>4
    <3>3. y = peak
      BY <1>4, <3>1, <3>2
    <3> QED BY <3>3
  <2>7. \A y \in S : peak >= y
    BY <1>4, <2>3, <2>4
  <2> QED BY <2>3, <2>6, <2>7, MaxIs
<1>7. peak <= CoverageCount(d)
  <2>1. PICK j \in 0 .. n : peak = acc[j].now
    BY <1>4
  <2>2. acc[j].now = Cardinality(Came(ev, j, d)) - Cardinality(Went(ev, j, d))
    BY <1>1, <1>2, NowIs
  <2>3. /\ Cardinality(Came(ev, j, d)) \in Nat /\ Cardinality(Went(ev, j, d)) \in Nat
        /\ Cardinality(Came(ev, j, d)) <= Cardinality(AtWork(d)) /\ Cardinality(AtWork(d)) \in Nat
    BY CameFinite, AtWorkIs
  <2> QED BY <2>1, <2>2, <2>3 DEF CoverageCount
<1> QED BY <1>6, <1>7 DEF peak, InUse, NobodyBackwards

LEMMA GridTellsOneStory ==
  ASSUME GridTypeOK
  PROVE  GridIsOneStory
<1>1. PeakIsTheMostAtOnce
  BY SweepFindsThePeak, SharesFit DEF PeakIsTheMostAtOnce
<1> QED BY <1>1, RosterAlike DEF GridIsOneStory

\* Whatever is saved of the week or of a day and whoever is employed, an entry is a shift or none.
THEOREM GridTyped == GridSpec => []GridTypeOK
<1>1. GridInit => GridTypeOK
  BY DEF GridInit, GridTypeOK
<1>2. GridTypeOK /\ [GridNext]_gridVars => GridTypeOK'
  BY GridStaysTyped DEF gridVars, GridTypeOK
<1> QED BY <1>1, <1>2, PTL DEF GridSpec

\* Whatever is saved of anybody's week or day, and whoever is employed: whom the page shows at work is whom
\* the floor expects, for the minutes the report counts, and the dashboard differs only about a day with an
\* exception; the sweep over a day's comings and goings finds the most chairs that are taken at one minute
\* of it, and no share is more than all (schedule.service week, queue.service, reports, dashboard).
THEOREM GridAlike == GridSpec => []GridIsOneStory
<1>1. GridTypeOK => GridIsOneStory
  BY GridTellsOneStory
<1> QED BY <1>1, GridTyped, PTL

-----------------------------------------------------------------------------
(***************************************************************************)
(* FloorBoard.  Sorting is ranking, a median stands between the middle     *)
(* two, and one reading shifts it by one place.  The bump, the             *)
(* recommendations and the timelines are folds over the line: each has a   *)
(* lemma for one party and one that walks the line.                        *)
(***************************************************************************)

\* at puts the places of s in the order of what stands there.
SortsBy(at, s) ==
  /\ at \in [DOMAIN s -> DOMAIN s]
  /\ \A i \in DOMAIN s : Sorted(s)[i] = s[at[i]]
  /\ \A i, j \in DOMAIN s : i < j => Sorted(s)[i] <= Sorted(s)[j] /\ at[i] # at[j]

LEMMA SmallerOrders ==
  ASSUME NEW s \in Seq(Int)
  PROVE  StrictOrder(Smaller(s), DOMAIN s)
<1>1. \A i \in DOMAIN s : i \in Int /\ s[i] \in Int
  OBVIOUS
<1> QED BY <1>1 DEF StrictOrder, Smaller

LEMMA SortedIs ==
  ASSUME NEW s \in Seq(Int)
  PROVE  \E at : SortsBy(at, s)
<1> DEFINE D == DOMAIN s
           R == Smaller(s)
           at == Ranked(D, R)
<1>1. Len(s) \in Nat /\ D = 1 .. Len(s) /\ \A i \in D : i \in Int /\ s[i] \in Int
  OBVIOUS
<1>2. IsFiniteSet(D) /\ Cardinality(D) = Len(s)
  <2>1. Len(s) \in Int /\ 1 \in Int /\ Len(s) >= 0
    BY <1>1
  <2>2. IsFiniteSet(1 .. Len(s)) /\ Cardinality(1 .. Len(s)) = Len(s)
    BY <2>1, FS_Interval
  <2> HIDE DEF D
  <2> QED BY <1>1, <2>2
<1>3. StrictOrder(R, D)
  BY SmallerOrders
<1> HIDE DEF R
<1>4. /\ at \in [1 .. Len(s) -> D] /\ \A i, j \in 1 .. Len(s) : i < j => <<at[i], at[j]>> \in R
  <2> HIDE DEF D, at
  <2>1. /\ Ranked(D, R) \in [1 .. Cardinality(D) -> D]
        /\ \A i, j \in 1 .. Cardinality(D) : i < j => <<Ranked(D, R)[i], Ranked(D, R)[j]>> \in R
    BY <1>2, <1>3, RankedIs
  <2> QED BY <1>2, <2>1 DEF at
<1>5. \A i \in D : Sorted(s)[i] = s[at[i]]
  BY DEF Sorted, R
<1> HIDE DEF at
<1>6. ASSUME NEW i \in D, NEW j \in D, i < j PROVE s[at[i]] <= s[at[j]] /\ at[i] # at[j]
  <2>1. at[i] \in D /\ at[j] \in D /\ <<at[i], at[j]>> \in R
    BY <1>1, <1>4, <1>6
  <2> QED BY <1>1, <2>1 DEF R, Smaller
<1>7. SortsBy(at, s)
  BY <1>1, <1>4, <1>5, <1>6 DEF SortsBy
<1> QED BY <1>7

LEMMA LenIs ==
  ASSUME NEW s, NEW n \in Nat, DOMAIN s = 1 .. n
  PROVE  Len(s) = n
  OBVIOUS

LEMMA HalfIs ==
  ASSUME NEW n \in Nat
  PROVE  n \div 2 \in Nat /\ n % 2 \in {0, 1} /\ n = 2 * (n \div 2) + (n % 2)
OBVIOUS

LEMMA MiddleBetween ==
  ASSUME NEW a \in Int, NEW b \in Int, NEW lo \in Int, NEW hi \in Int, a \in lo .. hi, b \in lo .. hi
  PROVE  (a + b + 1) \div 2 \in lo .. hi
<1>1. 2 \in Nat \ {0} /\ a + b + 1 \in Int /\ lo * 2 <= a + b + 1 /\ a + b + 1 < hi * 2 + 2
  OBVIOUS
<1> QED BY <1>1, DivIn

LEMMA MedianIs ==
  ASSUME NEW s \in Seq(Int)
  PROVE  Median(s) = LET h == Len(s) \div 2
                     IN  IF Len(s) % 2 = 0 THEN (Sorted(s)[h] + Sorted(s)[h + 1] + 1) \div 2
                         ELSE Sorted(s)[h + 1]
<1>1. Len(s) \in Nat /\ DOMAIN s = 1 .. Len(s)
  OBVIOUS
<1>2. DOMAIN Sorted(s) = DOMAIN s
  <2> DEFINE at == Ranked(DOMAIN s, Smaller(s))
  <2>1. Sorted(s) = [i \in DOMAIN s |-> s[at[i]]]
    BY DEF Sorted
  <2> HIDE DEF at
  <2> QED BY <2>1
<1>3. Len(Sorted(s)) = Len(s)
  BY <1>1, <1>2, LenIs
<1> QED BY <1>3 DEF Median, Middle

\* A median lies between the bounds of all its readings.
LEMMA MedianBetween ==
  ASSUME NEW s \in Seq(Int), Len(s) >= 1, NEW lo \in Int, NEW hi \in Int,
         \A i \in DOMAIN s : s[i] \in lo .. hi
  PROVE  Median(s) \in lo .. hi
<1> DEFINE n == Len(s)
           h == n \div 2
<1>1. n \in Nat /\ DOMAIN s = 1 .. n
  OBVIOUS
<1>2. PICK at : SortsBy(at, s)
  BY SortedIs
<1>3. \A r \in 1 .. n : Sorted(s)[r] \in lo .. hi /\ Sorted(s)[r] \in Int
  BY <1>1, <1>2 DEF SortsBy
<1>4. h \in Nat /\ n % 2 \in {0, 1} /\ n = 2 * h + (n % 2)
  BY <1>1, HalfIs
<1>5. Median(s) = IF n % 2 = 0 THEN (Sorted(s)[h] + Sorted(s)[h + 1] + 1) \div 2 ELSE Sorted(s)[h + 1]
  BY MedianIs
<1>8. n >= 1
  OBVIOUS
<1> HIDE DEF h, n
<1>6. CASE n % 2 = 0
  <2>1. h \in 1 .. n /\ h + 1 \in 1 .. n
    BY <1>1, <1>4, <1>6, <1>8
  <2> QED BY <1>3, <1>5, <1>6, <2>1, MiddleBetween
<1>7. CASE n % 2 = 1
  <2>1. h + 1 \in 1 .. n
    BY <1>1, <1>4, <1>7, <1>8
  <2> QED BY <1>3, <1>5, <1>7, <2>1
<1> QED BY <1>4, <1>6, <1>7

\* One reading of three or more, whatever it is, does not move the median out of the bounds of the others.
LEMMA MedianStandsOne ==
  ASSUME NEW s \in Seq(Int), Len(s) >= 3, NEW lo \in Int, NEW hi \in Int,
         \A i \in DOMAIN s : i # 1 => s[i] \in lo .. hi
  PROVE  Median(s) \in lo .. hi
<1> DEFINE n == Len(s)
           h == n \div 2
<1>1. n \in Nat /\ DOMAIN s = 1 .. n /\ n >= 3 /\ \A i \in 1 .. n : s[i] \in Int
  OBVIOUS
<1>2. PICK at : SortsBy(at, s)
  BY SortedIs
<1>4. h \in Nat /\ n % 2 \in {0, 1} /\ n = 2 * h + (n % 2)
  BY <1>1, HalfIs
<1>5. Median(s) = IF n % 2 = 0 THEN (Sorted(s)[h] + Sorted(s)[h + 1] + 1) \div 2 ELSE Sorted(s)[h + 1]
  BY MedianIs
<1> HIDE DEF h, n
<1>3. ASSUME NEW r \in 2 .. n - 1 PROVE Sorted(s)[r] \in lo .. hi /\ Sorted(s)[r] \in Int
  <2>1. r \in 1 .. n /\ r - 1 \in 1 .. n /\ r + 1 \in 1 .. n /\ r - 1 < r /\ r < r + 1
    BY <1>1
  <2>2. \A i \in {r - 1, r, r + 1} : at[i] \in 1 .. n /\ Sorted(s)[i] = s[at[i]] /\ s[at[i]] \in Int
    BY <1>1, <1>2, <2>1 DEF SortsBy
  <2>3. /\ Sorted(s)[r - 1] <= Sorted(s)[r] /\ Sorted(s)[r] <= Sorted(s)[r + 1]
        /\ at[r - 1] # at[r] /\ at[r] # at[r + 1]
    BY <1>1, <1>2, <2>1 DEF SortsBy
  <2>4. CASE at[r] # 1
    BY <1>1, <2>2, <2>4
  <2>5. CASE at[r] = 1
    <3>1. Sorted(s)[r - 1] \in lo .. hi
      BY <1>1, <2>2, <2>3, <2>5
    <3>2. Sorted(s)[r + 1] \in lo .. hi
      BY <1>1, <2>2, <2>3, <2>5
    <3>3. Sorted(s)[r] \in Int
      BY <2>2
    <3> QED BY <2>3, <3>1, <3>2, <3>3
  <2> QED BY <2>4, <2>5
<1>6. CASE n % 2 = 0
  <2>1. h \in 2 .. n - 1 /\ h + 1 \in 2 .. n - 1
    BY <1>1, <1>4, <1>6
  <2> QED BY <1>3, <1>5, <1>6, <2>1, MiddleBetween
<1>7. CASE n % 2 = 1
  <2>1. h + 1 \in 2 .. n - 1
    BY <1>1, <1>4, <1>7
  <2> QED BY <1>3, <1>5, <1>7, <2>1
<1> QED BY <1>4, <1>6, <1>7

-----------------------------------------------------------------------------
LEMMA MinOfLength ==
  ASSUME NEW n \in Nat
  PROVE  Min({n, SampleLimit}) \in Nat /\ Min({n, SampleLimit}) <= n /\ Min({n, SampleLimit}) <= SampleLimit
         /\ (n <= SampleLimit => Min({n, SampleLimit}) = n)
<1>1. SampleLimit \in Int
  BY FloorBoardConstants
<1>2. Min({n, SampleLimit}) = IF n <= SampleLimit THEN n ELSE SampleLimit
  BY <1>1, MinOfTwo
<1> QED BY <1>2, FloorBoardConstants

LEMMA ReadingsAre ==
  ASSUME BoardTypeOK, NEW b, NEW w \in Works
  PROVE  /\ Readings(b, w) \in Seq(Nat \ {0}) /\ Len(Readings(b, w)) <= SampleLimit
         /\ \A i \in DOMAIN Readings(b, w) : Readings(b, w)[i] <= OutlierMultiple * Catalog[w]
<1> DEFINE Hist == [barber : Barber, work : Works, minutes : Int]
           I == {i \in DOMAIN history : /\ history[i].barber = b /\ history[i].work = w
                                        /\ Plausible(history[i])}
           kept == Sublist(history, I)
           m == Min({Len(kept), SampleLimit})
<1>1. history \in Seq(Hist) /\ I \subseteq DOMAIN history
  BY DEF BoardTypeOK
<1>2. Readings(b, w) = [i \in 1 .. m |-> kept[i].minutes]
  BY DEF Readings
<1>3. ASSUME NEW i \in I
      PROVE  history[i].minutes \in Nat \ {0} /\ history[i].minutes <= OutlierMultiple * Catalog[w]
  <2>1. i \in DOMAIN history /\ history[i].work = w /\ Plausible(history[i])
    OBVIOUS
  <2>2. history[i] \in Hist
    <3> HIDE DEF Hist, I
    <3> QED BY <1>1, <2>1
  <2>3. history[i].minutes \in Int
    BY <2>2
  <2> QED BY <2>1, <2>3 DEF Plausible
<1> HIDE DEF I, Hist
<1>4. kept \in Seq(Hist) /\ Len(kept) \in Nat /\ Range(kept) = {history[i] : i \in I}
  BY <1>1, KeptLists, LenProperties
<1>5. m \in Nat /\ m <= Len(kept) /\ m <= SampleLimit
  BY <1>4, MinOfLength
<1> HIDE DEF kept, m
<1>6. \A j \in 1 .. m : kept[j].minutes \in Nat \ {0} /\ kept[j].minutes <= OutlierMultiple * Catalog[w]
  <2>1. ASSUME NEW j \in 1 .. m PROVE \E i \in I : kept[j] = history[i]
    <3>1. j \in DOMAIN kept
      BY <1>4, <1>5
    <3>2. kept[j] \in Range(kept)
      BY <3>1 DEF Range
    <3> QED BY <1>4, <3>2
  <2> QED BY <1>3, <2>1
<1>7. Readings(b, w) \in [1 .. m -> Nat \ {0}]
  BY <1>2, <1>6
<1>8. Readings(b, w) \in Seq(Nat \ {0}) /\ Len(Readings(b, w)) = m
  BY <1>5, <1>7, SeqOfFunction
<1> QED BY <1>2, <1>5, <1>6, <1>8

LEMMA MediansPositive ==
  ASSUME NEW s \in Seq(Nat \ {0}), Len(s) >= 1
  PROVE  Median(s) \in Nat \ {0}
<1>1. s \in Seq(Int) /\ Len(s) \in Nat /\ DOMAIN s = 1 .. Len(s) /\ 1 .. Len(s) # {}
  OBVIOUS
<1> DEFINE T == {s[i] : i \in DOMAIN s}
<1>2. IsFiniteSet(T) /\ T \subseteq Int /\ T # {}
  <2>1. T = ImageOf(s, 1 .. Len(s)) /\ IsFiniteSet(1 .. Len(s))
    BY <1>1, FS_Interval DEF ImageOf
  <2>2. T \subseteq Int /\ T # {}
    BY <1>1
  <2> QED BY <2>1, <2>2, ImageIsSmaller
<1>3. Max(T) \in Int /\ \A y \in T : y <= Max(T)
  BY <1>2, MaxMinAre
<1>4. \A i \in DOMAIN s : s[i] \in 1 .. Max(T)
  <2> HIDE DEF T
  <2>1. \A i \in DOMAIN s : s[i] \in T /\ s[i] \in Nat \ {0}
    BY DEF T
  <2> QED BY <1>3, <2>1
<1> HIDE DEF T
<1>5. Median(s) \in 1 .. Max(T)
  <2>1. 1 \in Int
    OBVIOUS
  <2> QED BY <1>1, <1>3, <1>4, <2>1, MedianBetween
<1> QED BY <1>3, <1>5

\* Every service takes a while.
LEMMA MinutesPositive ==
  ASSUME BoardTypeOK, NEW b \in Barber \cup {NoBarber}, NEW w \in Works
  PROVE  ExpectedMinutesFor(b, w) \in Nat \ {0}
<1>1. \A c : Trusted(c, w) => Median(Readings(c, w)) \in Nat \ {0}
  <2> SUFFICES ASSUME NEW c, Trusted(c, w) PROVE Median(Readings(c, w)) \in Nat \ {0}
    OBVIOUS
  <2>1. Readings(c, w) \in Seq(Nat \ {0})
    BY ReadingsAre
  <2>2. Len(Readings(c, w)) >= 1
    BY <2>1, FloorBoardConstants DEF Trusted
  <2> QED BY <2>1, <2>2, MediansPositive
<1>2. PoolMedians(w) # <<>> => Median(PoolMedians(w)) \in Nat \ {0}
  <2> DEFINE I == {i \in DOMAIN Roster : floor[Roster[i]].clock # "off" /\ Trusted(Roster[i], w)}
             measured == Sublist(Roster, I)
  <2>1. I \subseteq DOMAIN Roster /\ Roster \in Seq(Barber) /\ \A i \in I : Trusted(Roster[i], w)
    BY FloorBoardConstants
  <2>2. PoolMedians(w) = [i \in DOMAIN measured |-> Median(Readings(measured[i], w))]
    BY DEF PoolMedians
  <2> HIDE DEF I
  <2>3. measured \in Seq(Barber) /\ Range(measured) = {Roster[i] : i \in I}
    BY <2>1, KeptLists
  <2> HIDE DEF measured
  <2>4. \A i \in DOMAIN measured : Trusted(measured[i], w)
    BY <2>1, <2>3 DEF Range
  <2>5. Len(measured) \in Nat /\ DOMAIN measured = 1 .. Len(measured)
    BY <2>3
  <2>6. PoolMedians(w) \in [1 .. Len(measured) -> Nat \ {0}]
    BY <1>1, <2>2, <2>4, <2>5
  <2>7. PoolMedians(w) \in Seq(Nat \ {0}) /\ Len(PoolMedians(w)) = Len(measured)
    BY <2>5, <2>6, SeqOfFunction
  <2>8. PoolMedians(w) # <<>> => Len(PoolMedians(w)) >= 1
    BY <2>7
  <2> QED BY <2>7, <2>8, MediansPositive
<1>3. Catalog[w] \in Nat \ {0}
  BY FloorBoardConstants
<1> QED BY <1>1, <1>2, <1>3 DEF ExpectedMinutesFor

LEMMA OneReadingIsOne ==
  ASSUME BoardTypeOK
  PROVE  OneReadingHardlyMatters
<1> SUFFICES ASSUME NEW b \in Barber, NEW w \in Works, Trusted(b, w),
                    NEW m \in {1, OutlierMultiple * Catalog[w]}
             PROVE  Median(SubSeq(<<m>> \o Readings(b, w), 1, Min({Len(Readings(b, w)) + 1, SampleLimit})))
                      \in Min(ToSet(Readings(b, w))) .. Max(ToSet(Readings(b, w)))
  BY DEF OneReadingHardlyMatters
<1> DEFINE old == Readings(b, w)
           T == ToSet(old)
           k == Min({Len(old) + 1, SampleLimit})
           s == SubSeq(<<m>> \o old, 1, k)
<1>1. old \in Seq(Int) /\ Len(old) \in Nat /\ Len(old) >= 2 /\ DOMAIN old = 1 .. Len(old)
  <2>1. old \in Seq(Nat \ {0}) /\ Len(old) >= FewestReadings
    BY ReadingsAre DEF Trusted
  <2> HIDE DEF old
  <2> QED BY <2>1, FloorBoardConstants
<1>2. m \in Int
  <2>1. Catalog[w] \in Nat /\ OutlierMultiple \in Nat
    BY FloorBoardConstants
  <2> QED BY <2>1
<1> HIDE DEF old
<1>3. Min(T) \in Int /\ Max(T) \in Int /\ \A i \in DOMAIN old : old[i] \in Min(T) .. Max(T)
  <2>1. T = ImageOf(old, 1 .. Len(old)) /\ IsFiniteSet(1 .. Len(old))
    BY <1>1, FS_Interval DEF ImageOf, ToSet
  <2>2. T \subseteq Int /\ T # {} /\ \A i \in DOMAIN old : old[i] \in T
    BY <1>1 DEF ToSet
  <2> HIDE DEF T
  <2>3. IsFiniteSet(T)
    BY <2>1, ImageIsSmaller
  <2>4. Max(T) \in T /\ Min(T) \in T /\ \A y \in T : y <= Max(T) /\ Min(T) <= y
    BY <2>2, <2>3, MaxMinAre
  <2>5. \A i \in DOMAIN old : old[i] \in Int /\ old[i] <= Max(T) /\ Min(T) <= old[i]
    BY <2>2, <2>4
  <2>6. Min(T) \in Int /\ Max(T) \in Int
    BY <2>2, <2>4
  <2> QED BY <2>5, <2>6
<1>4. /\ s \in Seq(Int) /\ Len(s) >= 3
      /\ \A i \in DOMAIN s : i # 1 => i - 1 \in DOMAIN old /\ s[i] = old[i - 1]
  <2> DEFINE t == <<m>> \o old
  <2>1. t \in Seq(Int) /\ Len(t) = Len(old) + 1 /\ \A i \in 1 .. Len(old) + 1 : i # 1 => t[i] = old[i - 1]
    BY <1>1, <1>2
  <2> HIDE DEF t
  <2>2. k \in Nat /\ k >= 3 /\ k <= Len(t)
    <3>1. SampleLimit \in Nat /\ SampleLimit >= 3 /\ Len(old) + 1 \in Int
      BY <1>1, FloorBoardConstants
    <3>2. k = IF Len(old) + 1 <= SampleLimit THEN Len(old) + 1 ELSE SampleLimit
      BY <3>1, MinOfTwo
    <3> HIDE DEF k
    <3> QED BY <1>1, <2>1, <3>1, <3>2
  <2> HIDE DEF k
  <2>3. SubSeq(t, 1, k) \in Seq(Int) /\ Len(SubSeq(t, 1, k)) = k /\ \A i \in 1 .. k : SubSeq(t, 1, k)[i] = t[i]
    BY <2>1, <2>2, SubSeqProperties
  <2>4. DOMAIN SubSeq(t, 1, k) = 1 .. k
    BY <2>3
  <2>5. ASSUME NEW i \in 1 .. k, i # 1 PROVE i - 1 \in DOMAIN old /\ SubSeq(t, 1, k)[i] = old[i - 1]
    <3>1. i \in 1 .. Len(old) + 1 /\ i - 1 \in 1 .. Len(old)
      BY <1>1, <2>1, <2>2, <2>5
    <3>2. SubSeq(t, 1, k)[i] = t[i]
      BY <2>3
    <3>3. t[i] = old[i - 1]
      BY <2>1, <2>5, <3>1
    <3>4. DOMAIN old = 1 .. Len(old)
      BY <1>1
    <3> QED BY <3>1, <3>2, <3>3, <3>4
  <2> QED BY <2>2, <2>3, <2>4, <2>5 DEF t
<1> HIDE DEF s, T, k
<1>5. \A i \in DOMAIN s : i # 1 => s[i] \in Min(T) .. Max(T)
  BY <1>3, <1>4
<1>6. Median(s) \in Min(T) .. Max(T)
  BY <1>3, <1>4, <1>5, MedianStandsOne
<1> QED BY <1>6 DEF s, T, k, old

LEMMA BoardStaysTyped ==
  ASSUME BoardTypeOK, BoardNext
  PROVE  BoardTypeOK'
<1> DEFINE Hist == [barber : Barber, work : Works, minutes : Int]
<1>0. /\ line \in Seq(Party) /\ floor \in [Barber -> Chair] /\ history \in Seq(Hist) /\ minute \in 0 .. LastMinute
      /\ LastMinute \in Nat
  BY FloorBoardConstants DEF BoardTypeOK
<1>1. CASE Pass
  BY <1>0, <1>1 DEF Pass, BoardTypeOK
<1>2. ASSUME NEW e \in DOMAIN line, TogglePresent(e)
      PROVE  BoardTypeOK'
  <2>0. line[e] \in Party
    BY <1>0
  <2>1. [line[e] EXCEPT !.present = ~@] \in Party
    BY <2>0 DEF Party
  <2>2. line' \in Seq(Party)
    <3>1. line' = [line EXCEPT ![e] = [line[e] EXCEPT !.present = ~@]]
      BY <1>2 DEF TogglePresent
    <3> QED BY <1>0, <2>1, <3>1
  <2> QED BY <1>0, <1>2, <2>2 DEF TogglePresent, BoardTypeOK
<1>3. ASSUME NEW e \in DOMAIN line, NEW b \in Barber, TakeChair(e, b)
      PROVE  BoardTypeOK'
  <2>0. e \in 1 .. Len(line) /\ line[e] \in Party
    BY <1>0
  <2>1. e \in 1 .. Len(line) /\ line[e].work \in Works
    BY <2>0 DEF Party
  <2>2. line' \in Seq(Party)
    BY <1>0, <1>3, <2>1, RemovedAt DEF TakeChair
  <2>3. [clock |-> "busy", since |-> minute, work |-> line[e].work] \in Chair
    BY <1>0, <2>1 DEF Chair
  <2>4. floor' \in [Barber -> Chair]
    BY <1>0, <1>3, <2>3 DEF TakeChair
  <2> QED BY <1>0, <1>3, <2>2, <2>4 DEF TakeChair, BoardTypeOK
<1>4. ASSUME NEW b \in Barber, LeaveChair(b)
      PROVE  BoardTypeOK'
  <2>1. floor[b] \in Chair /\ floor[b].since \in Int /\ floor[b].work \in Works
    BY <1>0, <1>4 DEF LeaveChair, Chair
  <2>2. floor' = [floor EXCEPT ![b] = [floor[b] EXCEPT !.clock = "available", !.since = Never]]
    BY <1>0, <1>4 DEF LeaveChair
  <2>3. [floor[b] EXCEPT !.clock = "available", !.since = Never] \in Chair
    BY <2>1 DEF Chair
  <2>4. floor' \in [Barber -> Chair]
    BY <1>0, <2>2, <2>3
  <2>5. [barber |-> b, work |-> floor[b].work, minutes |-> minute - floor[b].since] \in Hist
    BY <1>0, <2>1
  <2>6. history' \in Seq(Hist)
    <3> HIDE DEF Hist
    <3>1. <<[barber |-> b, work |-> floor[b].work, minutes |-> minute - floor[b].since]>> \in Seq(Hist)
      BY <2>5
    <3> QED BY <1>0, <1>4, <3>1, ConcatProperties DEF LeaveChair
  <2> QED BY <1>0, <1>4, <2>4, <2>6 DEF LeaveChair, BoardTypeOK
<1> QED BY <1>1, <1>2, <1>3, <1>4 DEF BoardNext

LEMMA PartyIs ==
  ASSUME BoardTypeOK, NEW e \in DOMAIN line
  PROVE  /\ line[e].work \in Works /\ line[e].asked \in Barber \cup {NoBarber} /\ line[e].at \in Int \cup {Never}
         /\ line[e].visits \in [Barber -> Nat] /\ Duration(e) \in Nat \ {0} /\ e \in Nat \ {0}
<1>1. line[e] \in Party /\ e \in 1 .. Len(line)
  BY DEF BoardTypeOK
<1>2. line[e].work \in Works /\ line[e].asked \in Barber \cup {NoBarber}
  BY <1>1 DEF Party
<1>3. Duration(e) \in Nat \ {0}
  BY <1>2, MinutesPositive DEF Duration
<1>4. line[e].at \in Int \cup {Never} /\ line[e].visits \in [Barber -> Nat]
  BY <1>1 DEF Party
<1>5. e \in Nat \ {0}
  BY <1>1
<1> QED BY <1>2, <1>3, <1>4, <1>5

MinutesOf(es) == [j \in DOMAIN es |-> Duration(es[j])]

LEMMA StartIs ==
  ASSUME BoardTypeOK, NEW es \in Seq(DOMAIN line), NEW i \in DOMAIN es
  PROVE  /\ EstimatedStart(es)[i] = minute + SumFunctionOnSet(MinutesOf(es), 1 .. i - 1)
         /\ i \in 1 .. Len(es) /\ Len(es) \in Nat /\ DOMAIN es = 1 .. Len(es) /\ minute \in Int
         /\ IsFiniteSet(1 .. i - 1) /\ IsFiniteSet(1 .. i) /\ 1 .. i \subseteq DOMAIN es
         /\ \A j \in DOMAIN es : es[j] \in DOMAIN line /\ MinutesOf(es)[j] = Duration(es[j]) /\ Duration(es[j]) \in Nat \ {0}
         /\ SumFunctionOnSet(MinutesOf(es), 1 .. i - 1) \in Nat
         /\ SumFunctionOnSet(MinutesOf(es), 1 .. i) = SumFunctionOnSet(MinutesOf(es), 1 .. i - 1) + Duration(es[i])
<1>1. EstimatedStart(es)[i] = minute + SumFunctionOnSet(MinutesOf(es), 1 .. i - 1)
  BY DEF EstimatedStart, MinutesOf
<1>2. i \in 1 .. Len(es) /\ Len(es) \in Nat /\ DOMAIN es = 1 .. Len(es)
  OBVIOUS
<1>3. minute \in Int
  BY FloorBoardConstants DEF BoardTypeOK
<1>4. IsFiniteSet(1 .. i - 1) /\ IsFiniteSet(1 .. i)
  BY <1>2, FS_Interval
<1>5. 1 .. i \subseteq DOMAIN es /\ i \in 1 .. i /\ (1 .. i) \ {i} = 1 .. i - 1
  BY <1>2
<1>6. \A j \in DOMAIN es : es[j] \in DOMAIN line
  OBVIOUS
<1>7. \A j \in DOMAIN es : Duration(es[j]) \in Nat \ {0}
  BY <1>6, PartyIs
<1>8. \A j \in DOMAIN es : MinutesOf(es)[j] = Duration(es[j])
  BY DEF MinutesOf
<1> DEFINE f == MinutesOf(es)
<1> HIDE DEF f
<1>9. \A j \in 1 .. i : f[j] \in Nat /\ f[j] \in Int
  BY <1>5, <1>7, <1>8 DEF f
<1>10. \A j \in 1 .. i - 1 : f[j] \in Nat
  BY <1>5, <1>9
<1>11. SumFunctionOnSet(f, 1 .. i - 1) \in Nat
  BY <1>4, <1>10, SumTypes
<1>12. SumFunctionOnSet(f, 1 .. i) = f[i] + SumFunctionOnSet(f, (1 .. i) \ {i})
  BY <1>4, <1>5, <1>9, SumTakes
<1>13. SumFunctionOnSet(f, 1 .. i) = SumFunctionOnSet(f, 1 .. i - 1) + Duration(es[i])
  <2>1. f[i] = Duration(es[i])
    BY <1>8 DEF f
  <2>2. f[i] \in Int
    BY <1>5, <1>9
  <2> DEFINE untilThen == SumFunctionOnSet(f, 1 .. i - 1)
             upTo == SumFunctionOnSet(f, 1 .. i)
             d == f[i]
  <2>3. upTo = d + untilThen
    BY <1>5, <1>12
  <2>4. untilThen \in Int /\ d \in Int
    BY <1>11, <2>2
  <2> HIDE DEF untilThen, upTo, d
  <2>5. upTo = untilThen + d
    BY <2>3, <2>4
  <2> QED BY <2>1, <2>5 DEF untilThen, upTo, d
<1> QED BY <1>1, <1>2, <1>3, <1>4, <1>5, <1>6, <1>7, <1>8, <1>11, <1>13 DEF f

\* Each party starts when those before it are done.
LEMMA StartsFollow ==
  ASSUME BoardTypeOK, NEW es \in Seq(DOMAIN line), NEW i \in DOMAIN es, NEW j \in DOMAIN es, i < j
  PROVE  /\ EstimatedStart(es)[i] \in Int /\ EstimatedStart(es)[j] \in Int
         /\ EstimatedStart(es)[i] + Duration(es[i]) <= EstimatedStart(es)[j]
<1> DEFINE f == MinutesOf(es)
           S(k) == SumFunctionOnSet(f, 1 .. k)
<1>1. /\ EstimatedStart(es)[i] = minute + S(i - 1) /\ EstimatedStart(es)[j] = minute + S(j - 1)
      /\ S(i) = S(i - 1) + Duration(es[i]) /\ minute \in Int /\ S(i - 1) \in Nat /\ S(j - 1) \in Nat
      /\ Duration(es[i]) \in Nat
  BY StartIs
<1>2. /\ IsFiniteSet(1 .. j - 1) /\ DOMAIN es = 1 .. Len(es) /\ Len(es) \in Nat
      /\ \A k \in DOMAIN es : f[k] \in Nat
  BY StartIs
<1> HIDE DEF f
<1>3. 1 .. i \subseteq 1 .. j - 1 /\ 1 .. j - 1 \subseteq DOMAIN es
  BY <1>2
<1>4. \A k \in 1 .. j - 1 : f[k] \in Int /\ f[k] \in Nat
  BY <1>2, <1>3
<1>5. S(i) <= S(j - 1)
  BY <1>2, <1>3, <1>4, SumGrows
<1>6. S(i) \in Int
  BY <1>1
<1> HIDE DEF S
<1> QED BY <1>1, <1>5, <1>6

LEMMA StartsAlike ==
  ASSUME BoardTypeOK, NEW es \in Seq(DOMAIN line), NEW fs \in Seq(DOMAIN line), NEW i \in DOMAIN es, i \in DOMAIN fs,
         \A j \in 1 .. i - 1 : es[j] = fs[j]
  PROVE  EstimatedStart(es)[i] = EstimatedStart(fs)[i]
<1>1. /\ IsFiniteSet(1 .. i - 1) /\ 1 .. i \subseteq DOMAIN es /\ 1 .. i \subseteq DOMAIN fs /\ i \in Int
      /\ EstimatedStart(es)[i] = minute + SumFunctionOnSet(MinutesOf(es), 1 .. i - 1)
      /\ EstimatedStart(fs)[i] = minute + SumFunctionOnSet(MinutesOf(fs), 1 .. i - 1)
  BY StartIs
<1>2. \A j \in 1 .. i - 1 : j \in DOMAIN es /\ j \in DOMAIN fs
  BY <1>1
<1>3. \A j \in 1 .. i - 1 : MinutesOf(es)[j] = MinutesOf(fs)[j]
  BY <1>2 DEF MinutesOf
<1>4. SumFunctionOnSet(MinutesOf(es), 1 .. i - 1) = SumFunctionOnSet(MinutesOf(fs), 1 .. i - 1)
  BY <1>1, <1>3, SumSame
<1> QED BY <1>1, <1>4

InTime == {e \in DOMAIN line : ~line[e].late}

\* A line of all that are not late, each once.
IsQueue(es) ==
  /\ es \in Seq(DOMAIN line) /\ Len(es) = Cardinality(InTime)
  /\ \A i, j \in DOMAIN es : i # j => es[i] # es[j]
  /\ \A i \in DOMAIN es : es[i] \in InTime
  /\ \A e \in InTime : \E i \in DOMAIN es : es[i] = e

\* What the rounds of the bump keep.
SlaOK(x) ==
  /\ IsQueue(x.order)
  /\ \A e \in x.bumped : line[e].present /\ line[e].at # Never
  /\ \A d \in InTime \ x.bumped, e \in InTime : e < d => Before(x.order, e, d)

Slas == {x \in [order : Seq(DOMAIN line), bumped : SUBSET InTime] : SlaOK(x)}

LEMMA QueueIs ==
  ASSUME BoardTypeOK
  PROVE  /\ InTime \subseteq DOMAIN line /\ InTime \subseteq Nat \ {0} /\ IsFiniteSet(InTime)
         /\ Cardinality(InTime) \in Nat /\ DOMAIN line = 1 .. Len(line) /\ Len(line) \in Nat
<1>1. DOMAIN line = 1 .. Len(line) /\ Len(line) \in Nat
  BY DEF BoardTypeOK
<1>2. InTime \subseteq 1 .. Len(line) /\ IsFiniteSet(1 .. Len(line))
  BY <1>1, FS_Interval DEF InTime
<1>3. IsFiniteSet(InTime) /\ Cardinality(InTime) \in Nat
  BY <1>2, FS_Subset, FS_CardinalityType
<1>4. InTime \subseteq Nat \ {0}
  BY <1>1, <1>2
<1> QED BY <1>1, <1>2, <1>3, <1>4

LEMMA ParticipantsAre ==
  ASSUME BoardTypeOK
  PROVE  /\ IsQueue(Participants) /\ \A d, e \in InTime : e < d => Before(Participants, e, d)
         /\ ToSet(Participants) = InTime
<1> DEFINE S == InTime
           n == Cardinality(S)
           es == Participants
<1>1. es = Ranked(S, Ascending(S))
  BY DEF Participants, InTime
<1>2. S \subseteq DOMAIN line /\ S \subseteq Int /\ IsFiniteSet(S) /\ n \in Nat
  BY QueueIs
<1> HIDE DEF S, es
<1>3. StrictOrder(Ascending(S), S)
  BY <1>2, AscendingOrders
<1>4. /\ es \in [1 .. n -> S] /\ \A i, j \in 1 .. n : i < j => <<es[i], es[j]>> \in Ascending(S)
      /\ \A x \in S : \E i \in 1 .. n : es[i] = x
  BY <1>1, <1>2, <1>3, RankedIs
<1>5. es \in [1 .. n -> DOMAIN line] /\ \A i \in 1 .. n : es[i] \in S
  BY <1>2, <1>4
<1>6. es \in Seq(DOMAIN line) /\ Len(es) = n /\ DOMAIN es = 1 .. n
  BY <1>2, <1>5, SeqOfFunction
<1>7. ASSUME NEW i \in 1 .. n, NEW j \in 1 .. n, i < j PROVE es[i] < es[j]
  <2>1. <<es[i], es[j]>> \in Ascending(S)
    BY <1>4, <1>7
  <2> QED BY <2>1 DEF Ascending
<1>8. ASSUME NEW i \in 1 .. n, NEW j \in 1 .. n, i # j PROVE es[i] # es[j]
  <2>1. i < j \/ j < i
    BY <1>2, <1>8
  <2>2. es[i] \in Int /\ es[j] \in Int
    BY <1>2, <1>5
  <2> QED BY <1>7, <2>1, <2>2
<1>9. ASSUME NEW d \in S, NEW e \in S, e < d PROVE Before(es, e, d)
  <2>1. PICK i \in 1 .. n : es[i] = e
    BY <1>4
  <2>2. PICK k \in 1 .. n : es[k] = d
    BY <1>4
  <2>3. d \in Int /\ e \in Int
    BY <1>2
  <2>4. ~(k < i) /\ k # i
    BY <1>7, <1>9, <2>1, <2>2, <2>3
  <2>5. i < k
    BY <1>2, <2>4
  <2> QED BY <1>6, <2>1, <2>2, <2>5 DEF Before
<1>10. IsQueue(es)
  BY <1>4, <1>5, <1>6, <1>8 DEF IsQueue, S
<1>11. ToSet(es) = S
  BY <1>4, <1>5, <1>6 DEF ToSet
<1> QED BY <1>9, <1>10, <1>11 DEF S, es

\* The place behind the last that starts in time is no later than the place of one that does not.
LEMMA InsertPlaceIs ==
  ASSUME BoardTypeOK, NEW es \in Seq(DOMAIN line), NEW i \in Overdue(es)
  PROVE  InsertPlace(RemoveAt(es, i), Deadline(es[i])) \in 1 .. i
<1> DEFINE n == Len(es)
           rest == RemoveAt(es, i)
           last == Deadline(es[i])
           T == {j \in DOMAIN rest : EstimatedStart(rest)[j] <= last}
<1>1. i \in 1 .. n /\ n \in Nat /\ DOMAIN es = 1 .. n /\ es[i] \in DOMAIN line
  BY DEF Overdue
<1>2. line[es[i]].at # Never /\ EstimatedStart(es)[i] > last
  BY DEF Overdue
<1>3. last \in Int
  <2>1. line[es[i]].at \in Int
    BY <1>1, <1>2, PartyIs
  <2> QED BY <2>1, FloorBoardConstants DEF Deadline
<1>4. /\ rest \in Seq(DOMAIN line) /\ Len(rest) = n - 1 /\ DOMAIN rest = 1 .. n - 1
      /\ \A k \in 1 .. n - 1 : rest[k] = IF k < i THEN es[k] ELSE es[k + 1]
  <2>1. i \in 1 .. Len(es)
    BY <1>1
  <2>2. /\ rest \in Seq(DOMAIN line) /\ Len(rest) = n - 1
        /\ \A k \in 1 .. n - 1 : rest[k] = IF k < i THEN es[k] ELSE es[k + 1]
    BY <2>1, RemovedAt
  <2> HIDE DEF rest
  <2> QED BY <2>2
<1> HIDE DEF rest, last
<1>5. ASSUME NEW j \in T, j >= i PROVE FALSE
  <2>1. j \in DOMAIN rest /\ i \in DOMAIN rest /\ EstimatedStart(rest)[j] <= last
    BY <1>1, <1>4, <1>5
  <2>2. \A k \in 1 .. i - 1 : es[k] = rest[k]
    BY <1>1, <1>4, <2>1
  <2>3. EstimatedStart(es)[i] = EstimatedStart(rest)[i]
    BY <1>1, <1>4, <2>1, <2>2, StartsAlike
  <2>4. EstimatedStart(rest)[i] > last
    BY <1>2, <2>3
  <2>5. i = j \/ i < j
    BY <1>1, <1>4, <1>5
  <2>6. CASE i < j
    <3>1. Duration(rest[i]) \in Nat
      BY <1>4, <2>1, PartyIs
    <3>2. /\ EstimatedStart(rest)[i] \in Int /\ EstimatedStart(rest)[j] \in Int
          /\ EstimatedStart(rest)[i] + Duration(rest[i]) <= EstimatedStart(rest)[j]
      BY <1>4, <2>1, <2>6, StartsFollow
    <3> QED BY <1>3, <2>1, <2>4, <3>1, <3>2
  <2>7. CASE i = j
    <3>1. EstimatedStart(rest)[i] \in Int
      <4>1. /\ EstimatedStart(rest)[i] = minute + SumFunctionOnSet(MinutesOf(rest), 1 .. i - 1)
            /\ minute \in Int /\ SumFunctionOnSet(MinutesOf(rest), 1 .. i - 1) \in Nat
        BY <1>4, <2>1, StartIs
      <4> QED BY <4>1
    <3> QED BY <1>3, <2>1, <2>4, <2>7, <3>1
  <2> QED BY <2>5, <2>6, <2>7
<1>6. T \subseteq 1 .. i - 1
  <2>1. ASSUME NEW j \in T PROVE j \in 1 .. i - 1
    <3>1. j \in 1 .. n - 1 /\ ~(j >= i)
      BY <1>4, <1>5
    <3> QED BY <1>1, <3>1
  <2> QED BY <2>1
<1>7. InsertPlace(rest, last) = 1 + Cardinality(T)
  BY DEF InsertPlace
<1> HIDE DEF T
<1>8. IsFiniteSet(1 .. i - 1) /\ Cardinality(1 .. i - 1) = i - 1
  <2>1. i - 1 \in Int /\ 1 \in Int /\ i - 1 >= 0
    BY <1>1
  <2> QED BY <2>1, FS_Interval
<1>9. Cardinality(T) \in Nat /\ Cardinality(T) <= i - 1
  BY <1>6, <1>8, FS_Subset, FS_CardinalityType
<1>10. InsertPlace(rest, last) \in 1 .. i
  BY <1>1, <1>7, <1>9
<1> QED BY <1>10 DEF rest, last

\* The one at i is moved up to k.
MoveUp(es, i, k) == InsertAt(RemoveAt(es, i), k, es[i])

\* Where the one at x stood before the one at i was moved up to k.
Source(x, k, i) == IF x < k THEN x ELSE IF x = k THEN i ELSE IF x <= i THEN x - 1 ELSE x
\* Where the one at y stands after it.
Target(y, k, i) == IF y < k THEN y ELSE IF y < i THEN y + 1 ELSE IF y = i THEN k ELSE y

LEMMA MovedUp ==
  ASSUME NEW S, NEW es \in Seq(S), NEW i \in 1 .. Len(es), NEW k \in 1 .. i
  PROVE  /\ MoveUp(es, i, k) \in Seq(S) /\ Len(MoveUp(es, i, k)) = Len(es)
         /\ DOMAIN MoveUp(es, i, k) = 1 .. Len(es)
         /\ \A x \in 1 .. Len(es) :
              Source(x, k, i) \in 1 .. Len(es) /\ MoveUp(es, i, k)[x] = es[Source(x, k, i)]
<1> DEFINE n == Len(es)
           rest == RemoveAt(es, i)
           new == InsertAt(rest, k, es[i])
<1>1. n \in Nat /\ es[i] \in S
  OBVIOUS
<1>2. /\ rest \in Seq(S) /\ Len(rest) = n - 1
      /\ \A j \in 1 .. n - 1 : rest[j] = IF j < i THEN es[j] ELSE es[j + 1]
  BY RemovedAt
<1> HIDE DEF rest
<1>3. k \in 1 .. Len(rest) + 1
  BY <1>1, <1>2
<1>4. /\ new \in Seq(S) /\ Len(new) = n
      /\ \A j \in 1 .. n : new[j] = IF j < k THEN rest[j] ELSE IF j = k THEN es[i] ELSE rest[j - 1]
  <2>1. /\ new \in Seq(S) /\ Len(new) = Len(rest) + 1
        /\ \A j \in 1 .. Len(rest) + 1 : new[j] = IF j < k THEN rest[j] ELSE IF j = k THEN es[i] ELSE rest[j - 1]
    <3> DEFINE e == es[i]
    <3>1. e \in S
      BY <1>1
    <3> HIDE DEF e, new
    <3>2. new = InsertAt(rest, k, e)
      BY DEF new, e
    <3>3. /\ InsertAt(rest, k, e) \in Seq(S) /\ Len(InsertAt(rest, k, e)) = Len(rest) + 1
          /\ \A j \in 1 .. Len(rest) + 1 :
               InsertAt(rest, k, e)[j] = IF j < k THEN rest[j] ELSE IF j = k THEN e ELSE rest[j - 1]
      BY <1>2, <1>3, <3>1, InsertedAt
    <3>4. es[i] = e
      BY DEF e
    <3> QED BY <3>2, <3>3, <3>4
  <2>2. Len(rest) + 1 = n
    BY <1>1, <1>2
  <2> HIDE DEF new
  <2> QED BY <2>1, <2>2
<1> HIDE DEF new
<1>5. ASSUME NEW x \in 1 .. n PROVE Source(x, k, i) \in 1 .. n /\ new[x] = es[Source(x, k, i)]
  <2>1. CASE x < k
    <3>1. x \in 1 .. n - 1 /\ x < i /\ new[x] = rest[x]
      BY <1>1, <1>4, <2>1
    <3>2. rest[x] = es[x]
      BY <1>2, <3>1
    <3>3. Source(x, k, i) = x
      BY <2>1 DEF Source
    <3> QED BY <3>1, <3>2, <3>3
  <2>2. CASE x = k
    <3>1. new[k] = es[i]
      BY <1>4, <2>2
    <3>2. Source(x, k, i) = i /\ i \in 1 .. n
      BY <1>1, <2>2 DEF Source
    <3> QED BY <2>2, <3>1, <3>2
  <2>3. CASE x > k
    <3>1. x - 1 \in 1 .. n - 1 /\ new[x] = rest[x - 1] /\ (x - 1) + 1 = x
      BY <1>1, <1>4, <2>3
    <3>2. rest[x - 1] = IF x - 1 < i THEN es[x - 1] ELSE es[x]
      BY <1>2, <3>1
    <3> QED BY <1>1, <2>3, <3>1, <3>2 DEF Source
  <2> QED BY <1>1, <2>1, <2>2, <2>3
<1>6. DOMAIN new = 1 .. n
  BY <1>1, <1>4
<1>7. MoveUp(es, i, k) = new
  BY DEF MoveUp, new, rest
<1> QED BY <1>4, <1>5, <1>6, <1>7

LEMMA SourceTarget ==
  ASSUME NEW n \in Nat, NEW i \in 1 .. n, NEW k \in 1 .. i
  PROVE  /\ \A y \in 1 .. n : Target(y, k, i) \in 1 .. n /\ Source(Target(y, k, i), k, i) = y
         /\ \A x, z \in 1 .. n : x # z => Source(x, k, i) # Source(z, k, i)
         /\ \A y, z \in 1 .. n : y < z /\ z # i => Target(y, k, i) < Target(z, k, i)
<1>1. i \in Int /\ k \in Int /\ 1 <= k /\ k <= i /\ i <= n
  OBVIOUS
<1>2. ASSUME NEW y \in 1 .. n PROVE Target(y, k, i) \in 1 .. n /\ Source(Target(y, k, i), k, i) = y
  BY <1>1 DEF Target, Source
<1>3. ASSUME NEW x \in 1 .. n, NEW z \in 1 .. n, x # z PROVE Source(x, k, i) # Source(z, k, i)
  BY <1>1, <1>3 DEF Source
<1>4. ASSUME NEW y \in 1 .. n, NEW z \in 1 .. n, y < z, z # i PROVE Target(y, k, i) < Target(z, k, i)
  BY <1>1, <1>4 DEF Target
<1> QED BY <1>2, <1>3, <1>4

SlaStep(x) == IF Overdue(x.order) = {} THEN x ELSE BumpFirst(x)

LEMMA BumpKeeps ==
  ASSUME BoardTypeOK, NEW x \in Slas
  PROVE  SlaStep(x) \in Slas
<1>0. x.order \in Seq(DOMAIN line) /\ x.bumped \subseteq InTime /\ SlaOK(x) /\ x = [order |-> x.order, bumped |-> x.bumped]
  BY DEF Slas
<1>1. CASE Overdue(x.order) = {}
  BY <1>1 DEF SlaStep
<1>2. CASE Overdue(x.order) # {}
  <2> DEFINE es == x.order
             n == Len(es)
             i == Min(Overdue(es))
             e == es[i]
             k == InsertPlace(RemoveAt(es, i), Deadline(e))
             new == MoveUp(es, i, k)
  <2>1. n \in Nat /\ DOMAIN es = 1 .. n /\ es \in Seq(DOMAIN line)
    BY <1>0
  <2>2. i \in Overdue(es)
    <3>1. Overdue(es) \subseteq 1 .. n /\ Overdue(es) # {}
      BY <1>2, <2>1 DEF Overdue
    <3> HIDE DEF es, n
    <3>3. IsFiniteSet(1 .. n) /\ 1 .. n \subseteq Int
      BY <2>1, FS_Interval
    <3>2. Overdue(es) \subseteq Int /\ IsFiniteSet(Overdue(es))
      BY <3>1, <3>3, FS_Subset
    <3> QED BY <3>1, <3>2, MaxMinAre
  <2>3. SlaStep(x) = [order |-> new, bumped |-> x.bumped \cup {e}]
    BY <1>2 DEF SlaStep, BumpFirst, MoveUp
  <2> HIDE DEF i
  <2>4. i \in 1 .. n /\ line[e].present /\ line[e].at # Never
    BY <2>1, <2>2 DEF Overdue
  <2>5. k \in 1 .. i
    BY <2>1, <2>2, InsertPlaceIs
  <2> HIDE DEF k, es
  <2>6. /\ new \in Seq(DOMAIN line) /\ Len(new) = n /\ DOMAIN new = 1 .. n
        /\ \A y \in 1 .. n : Source(y, k, i) \in 1 .. n /\ new[y] = es[Source(y, k, i)]
    BY <2>1, <2>4, <2>5, MovedUp
  <2> HIDE DEF new, n
  <2>7. /\ \A y \in 1 .. n : Target(y, k, i) \in 1 .. n /\ Source(Target(y, k, i), k, i) = y
        /\ \A y, z \in 1 .. n : y # z => Source(y, k, i) # Source(z, k, i)
        /\ \A y, z \in 1 .. n : y < z /\ z # i => Target(y, k, i) < Target(z, k, i)
    BY <2>1, <2>4, <2>5, SourceTarget
  <2>8. IsQueue(es)
    BY <1>0 DEF SlaOK, es
  <2>9. IsQueue(new)
    <3>1. Len(new) = Cardinality(InTime)
      BY <2>6, <2>8 DEF IsQueue, n
    <3>2. \A y, z \in 1 .. n : y # z => new[y] # new[z]
      BY <2>1, <2>6, <2>7, <2>8 DEF IsQueue
    <3>3. \A y \in 1 .. n : new[y] \in InTime
      BY <2>1, <2>6, <2>8 DEF IsQueue
    <3>4. ASSUME NEW c \in InTime PROVE \E y \in 1 .. n : new[y] = c
      <4>1. PICK z \in 1 .. n : es[z] = c
        BY <2>1, <2>8 DEF IsQueue
      <4>2. Target(z, k, i) \in 1 .. n /\ new[Target(z, k, i)] = c
        BY <2>6, <2>7, <4>1
      <4> QED BY <4>2
    <3> QED BY <2>6, <3>1, <3>2, <3>3, <3>4 DEF IsQueue
  <2>10. e \in InTime
    BY <2>1, <2>4, <2>8 DEF IsQueue
  <2>11. ASSUME NEW d \in InTime \ (x.bumped \cup {e}), NEW c \in InTime, c < d PROVE Before(new, c, d)
    <3>1. d \in InTime \ x.bumped /\ d # e
      OBVIOUS
    <3>2. Before(es, c, d)
      BY <1>0, <2>11, <3>1 DEF SlaOK, es
    <3>3. PICK y, z \in 1 .. n : es[y] = c /\ es[z] = d /\ y < z
      BY <2>1, <3>2 DEF Before
    <3>4. z # i
      BY <3>1, <3>3
    <3>5. Target(y, k, i) < Target(z, k, i)
      BY <2>7, <3>3, <3>4
    <3>6. /\ Target(y, k, i) \in 1 .. n /\ new[Target(y, k, i)] = c
          /\ Target(z, k, i) \in 1 .. n /\ new[Target(z, k, i)] = d
      BY <2>6, <2>7, <3>3
    <3> QED BY <2>6, <3>5, <3>6 DEF Before
  <2>12. \A c \in x.bumped \cup {e} : line[c].present /\ line[c].at # Never
    BY <1>0, <2>4 DEF SlaOK
  <2> DEFINE y == [order |-> new, bumped |-> x.bumped \cup {e}]
  <2>13. y \in [order : Seq(DOMAIN line), bumped : SUBSET InTime] /\ y.order = new /\ y.bumped = x.bumped \cup {e}
    BY <1>0, <2>6, <2>10
  <2> HIDE DEF y
  <2>14. SlaOK(y)
    BY <2>9, <2>11, <2>12, <2>13 DEF SlaOK
  <2>15. y \in Slas
    BY <2>13, <2>14 DEF Slas
  <2> QED BY <2>3, <2>15 DEF y
<1> QED BY <1>1, <1>2

\* What the bumped line keeps of the line.
LEMMA SlaIs ==
  ASSUME BoardTypeOK
  PROVE  Sla \in Slas
<1> DEFINE l == Participants
           n == Len(l)
           A == Slas
           base == [order |-> l, bumped |-> {}]
           F == [x \in A \X (1 .. n) |-> SlaStep(x[1])]
           Eq(g) == g = [s \in SUBSET (DOMAIN l) |-> IF s = {} THEN base ELSE SlaStep(g[s \ {Max(s)}])]
           it == CHOOSE g : Eq(g)
<1>1. IsQueue(l) /\ \A d, e \in InTime : e < d => Before(l, e, d)
  BY ParticipantsAre
<1> HIDE DEF l
<1>0. n \in Nat /\ DOMAIN l = 1 .. n
  BY <1>1 DEF IsQueue
<1>2. base \in A
  <2>1. base \in [order : Seq(DOMAIN line), bumped : SUBSET InTime] /\ base.order = l /\ base.bumped = {}
    BY <1>1 DEF IsQueue
  <2> HIDE DEF base
  <2>2. SlaOK(base)
    BY <1>1, <2>1 DEF SlaOK
  <2> QED BY <2>1, <2>2 DEF Slas
<1>3. F \in [A \X (1 .. n) -> A]
  <2>1. \A x \in A \X (1 .. n) : SlaStep(x[1]) \in A
    BY BumpKeeps
  <2> QED BY <2>1
<1> HIDE DEF A, base, n
<1>4. \A x \in A, k \in 1 .. n : <<x, k>> \in A \X (1 .. n) /\ F[<<x, k>>] = SlaStep(x)
  OBVIOUS
<1> HIDE DEF F
<1>5. PICK g : Carried(g, F, base, n) /\ \A s \in SUBSET (1 .. n) : g[s] \in A
  BY <1>0, <1>2, <1>3, FoldSteps, Zenon
<1>6. Eq(g)
  <2>1. ASSUME NEW s \in SUBSET (1 .. n), s # {} PROVE F[<<g[s \ {Max(s)}], Max(s)>>] = SlaStep(g[s \ {Max(s)}])
    <3>1. Max(s) \in 1 .. n /\ s \ {Max(s)} \in SUBSET (1 .. n)
      BY <1>0, <2>1, LastOut
    <3> QED BY <1>4, <1>5, <3>1
  <2> QED BY <1>0, <1>5, <2>1 DEF Carried
<1>7. Eq(it)
  <2> HIDE DEF Eq
  <2> QED BY <1>6
<1>8. Sla = it[1 .. n]
  <2>1. Sla = it[DOMAIN l]
    BY DEF Sla, FoldLeft, MapThenFoldSet, SlaStep, base, l
  <2> QED BY <1>0, <2>1
<1> HIDE DEF it
<1>9. it[{}] = base
  BY <1>7
<1>10. ASSUME NEW s \in SUBSET (1 .. n), s # {}, it[s \ {Max(s)}] \in A
       PROVE  it[s] = F[<<it[s \ {Max(s)}], Max(s)>>]
  <2>1. Max(s) \in 1 .. n
    BY <1>0, <1>10, LastOut
  <2>2. it[s] = SlaStep(it[s \ {Max(s)}])
    BY <1>0, <1>7, <1>10
  <2> QED BY <1>4, <1>10, <2>1, <2>2
<1>11. WalksTo(it[1 .. n], F, base, A, n)
  <2> HIDE DEF Eq
  <2>1. Follows(it, F, base, A, n)
    BY <1>9, <1>10 DEF Follows
  <2> QED BY <1>0, <1>2, <1>3, <2>1, FoldWalks
<1>12. it[1 .. n] \in A
  BY <1>0, <1>11 DEF Walk, WalksTo
<1> QED BY <1>8, <1>12 DEF A

LEMMA OthersKeep ==
  ASSUME BoardTypeOK
  PROVE  OthersKeepTheirOrder(Sla)
<1> DEFINE x == Sla
<1>1. x \in Slas
  BY SlaIs
<1>2. IsQueue(Participants) /\ ToSet(Participants) = InTime
  BY ParticipantsAre
<1> HIDE DEF x
<1>3. /\ IsQueue(x.order) /\ \A e \in x.bumped : line[e].present /\ line[e].at # Never
      /\ \A d \in InTime \ x.bumped, e \in InTime : e < d => Before(x.order, e, d)
  BY <1>1 DEF Slas, SlaOK
<1>4. ToSet(x.order) = InTime /\ Len(x.order) = Len(Participants)
  BY <1>2, <1>3 DEF IsQueue, ToSet
<1> QED BY <1>2, <1>3, <1>4 DEF OthersKeepTheirOrder, x

\* Those of the roster at the places I.
LEMMA RosterPart ==
  ASSUME NEW s \in Seq(Barber), NEW I, I \subseteq DOMAIN s
  PROVE  /\ Sublist(s, I) \in Seq(Barber) /\ \A b : b \in ToSet(Sublist(s, I)) <=> \E i \in I : s[i] = b
         /\ Sublist(s, I) = <<>> <=> ToSet(Sublist(s, I)) = {}
<1> DEFINE l == Sublist(s, I)
<1>1. l \in Seq(Barber) /\ Range(l) = {s[i] : i \in I}
  BY KeptLists
<1> HIDE DEF l
<1>2. ToSet(l) = Range(l)
  BY DEF ToSet, Range
<1>3. l = <<>> <=> ToSet(l) = {}
  <2>1. CASE l = <<>>
    BY <2>1 DEF ToSet
  <2>2. CASE l # <<>>
    <3>1. 1 \in DOMAIN l
      BY <1>1, <2>2
    <3> QED BY <2>2, <3>1 DEF ToSet
  <2> QED BY <2>1, <2>2
<1> QED BY <1>1, <1>2, <1>3 DEF l

LEMMA FreeIs ==
  ASSUME NEW match
  PROVE  /\ Free(match) \in Seq(Barber) /\ (Free(match) = <<>> <=> ToSet(Free(match)) = {})
         /\ \A b : b \in ToSet(Free(match))
                     <=> b \in Barber /\ floor[b].clock = "available" /\ \A m \in match : m[2] # b
<1> DEFINE I == {i \in DOMAIN Roster : /\ floor[Roster[i]].clock = "available"
                                       /\ Roster[i] \notin {m[2] : m \in match}}
<1>1. Roster \in Seq(Barber) /\ I \subseteq DOMAIN Roster /\ Free(match) = Sublist(Roster, I)
  BY FloorBoardConstants DEF Free
<1>2. \A b : (\E i \in I : Roster[i] = b) <=> b \in Barber /\ floor[b].clock = "available" /\ \A m \in match : m[2] # b
  BY DEF Barber, ToSet
<1> HIDE DEF I
<1> QED BY <1>1, <1>2, RosterPart

LEMMA BestIsFree ==
  ASSUME BoardTypeOK, NEW e \in DOMAIN line, NEW free \in Seq(Barber), free # <<>>
  PROVE  /\ ChooseBestMatch(e, free) \in ToSet(free)
         /\ line[e].asked \in ToSet(free) => ChooseBestMatch(e, free) = line[e].asked
<1> DEFINE score(b) == Leaning * line[e].visits[b]
           S == {score(free[i]) : i \in DOMAIN free}
           I == {i \in DOMAIN free : score(free[i]) = Max(S)}
<1>1. Len(free) \in Nat /\ DOMAIN free = 1 .. Len(free) /\ 1 \in 1 .. Len(free)
  OBVIOUS
<1>2. \A b \in Barber : score(b) \in Int
  <2>1. Leaning \in Int /\ \A b \in Barber : line[e].visits[b] \in Int
    BY PartyIs, FloorBoardConstants
  <2> QED BY <2>1
<1>3. S \subseteq Int /\ S # {} /\ IsFiniteSet(S)
  <2>1. \A i \in DOMAIN free : free[i] \in Barber
    OBVIOUS
  <2>2. S \subseteq Int /\ S # {}
    BY <1>1, <1>2, <2>1
  <2> DEFINE f == [i \in 1 .. Len(free) |-> score(free[i])]
  <2>3. \A i \in 1 .. Len(free) : f[i] = score(free[i])
    OBVIOUS
  <2>4. S = {score(free[i]) : i \in 1 .. Len(free)}
    BY <1>1
  <2> HIDE DEF S, f, score
  <2>5. S = ImageOf(f, 1 .. Len(free))
    BY <2>3, <2>4 DEF ImageOf
  <2>6. IsFiniteSet(1 .. Len(free))
    BY <1>1, FS_Interval
  <2> QED BY <2>2, <2>5, <2>6, ImageIsSmaller
<1>4. Max(S) \in S
  <2> HIDE DEF S
  <2> QED BY <1>3, MaxMinAre
<1>5. I \subseteq 1 .. Len(free) /\ I # {}
  BY <1>1, <1>4
<1>6. Min(I) \in I
  <2> HIDE DEF I
  <2>1. IsFiniteSet(1 .. Len(free)) /\ 1 .. Len(free) \subseteq Int
    BY <1>1, FS_Interval
  <2>2. I \subseteq Int /\ IsFiniteSet(I)
    BY <1>5, <2>1, FS_Subset
  <2> QED BY <1>5, <2>2, MaxMinAre
<1>7. ChooseBestMatch(e, free) = IF line[e].asked \in ToSet(free) THEN line[e].asked ELSE free[Min(I)]
  BY DEF ChooseBestMatch
<1> HIDE DEF I
<1>8. free[Min(I)] \in ToSet(free)
  BY <1>1, <1>5, <1>6 DEF ToSet
<1> QED BY <1>7, <1>8

-----------------------------------------------------------------------------
MatchStep(match, e) ==
  IF ~Ready(e) \/ Free(match) = <<>> THEN match ELSE match \cup {<<e, ChooseBestMatch(e, Free(match))>>}

Matches == SUBSET ((DOMAIN line) \X Barber)

LEMMA RecommendationsWalk ==
  ASSUME BoardTypeOK, NEW es, es = Sla.order, IsQueue(es)
  PROVE  \E acc : /\ acc[0] = {} /\ acc[Len(es)] = Recommendations
                  /\ \A k \in 0 .. Len(es) : acc[k] \in Matches
                  /\ \A k \in 1 .. Len(es) : acc[k] = MatchStep(acc[k - 1], es[k])
<1> DEFINE n == Len(es)
           A == Matches
           F == [x \in A \X (1 .. n) |-> MatchStep(x[1], es[x[2]])]
           Eq(g) == g = [s \in SUBSET (DOMAIN es) |-> IF s = {} THEN {} ELSE MatchStep(g[s \ {Max(s)}], es[Max(s)])]
           it == CHOOSE g : Eq(g)
<1>0. n \in Nat /\ DOMAIN es = 1 .. n /\ \A k \in 1 .. n : es[k] \in DOMAIN line
  BY DEF IsQueue
<1>2. {} \in A
  BY DEF Matches
<1>3. F \in [A \X (1 .. n) -> A]
  <2>1. ASSUME NEW x \in A \X (1 .. n) PROVE MatchStep(x[1], es[x[2]]) \in A
    <3>1. es[x[2]] \in DOMAIN line /\ x[1] \in A
      BY <1>0
    <3>2. Free(x[1]) # <<>> => ChooseBestMatch(es[x[2]], Free(x[1])) \in Barber
      BY <3>1, BestIsFree, FreeIs
    <3> QED BY <3>1, <3>2 DEF MatchStep, Matches
  <2> QED BY <2>1
<1> HIDE DEF A, n
<1>4. \A x \in A, k \in 1 .. n : <<x, k>> \in A \X (1 .. n) /\ F[<<x, k>>] = MatchStep(x, es[k])
  OBVIOUS
<1> HIDE DEF F
<1>5. PICK g : Carried(g, F, {}, n) /\ \A s \in SUBSET (1 .. n) : g[s] \in A
  BY <1>0, <1>2, <1>3, FoldSteps, Zenon
<1>6. Eq(g)
  <2>1. ASSUME NEW s \in SUBSET (1 .. n), s # {} PROVE F[<<g[s \ {Max(s)}], Max(s)>>] = MatchStep(g[s \ {Max(s)}], es[Max(s)])
    <3>1. Max(s) \in 1 .. n /\ s \ {Max(s)} \in SUBSET (1 .. n)
      BY <1>0, <2>1, LastOut
    <3> QED BY <1>4, <1>5, <3>1
  <2> QED BY <1>0, <1>5, <2>1 DEF Carried
<1>7. Eq(it)
  <2> HIDE DEF Eq
  <2> QED BY <1>6
<1>8. Recommendations = it[1 .. n]
  <2>1. Recommendations = it[DOMAIN es]
    BY DEF Recommendations, FoldLeft, MapThenFoldSet, MatchStep
  <2> QED BY <1>0, <2>1
<1> HIDE DEF it
<1>9. it[{}] = {}
  BY <1>7
<1>10. ASSUME NEW s \in SUBSET (1 .. n), s # {}, it[s \ {Max(s)}] \in A
       PROVE  it[s] = F[<<it[s \ {Max(s)}], Max(s)>>]
  <2>1. Max(s) \in 1 .. n
    BY <1>0, <1>10, LastOut
  <2>2. it[s] = MatchStep(it[s \ {Max(s)}], es[Max(s)])
    BY <1>0, <1>7, <1>10
  <2> QED BY <1>4, <1>10, <2>1, <2>2
<1>11. WalksTo(it[1 .. n], F, {}, A, n)
  <2> HIDE DEF Eq
  <2>1. Follows(it, F, {}, A, n)
    BY <1>9, <1>10 DEF Follows
  <2> QED BY <1>0, <1>2, <1>3, <2>1, FoldWalks
<1>12. PICK acc : Walk(acc, F, {}, A, n) /\ acc[n] = it[1 .. n]
  BY <1>11 DEF WalksTo
<1>13. /\ acc[0] = {} /\ acc[n] = Recommendations /\ \A k \in 0 .. n : acc[k] \in A
  BY <1>8, <1>12 DEF Walk
<1>14. ASSUME NEW k \in 1 .. n PROVE acc[k] = MatchStep(acc[k - 1], es[k])
  <2>1. k - 1 \in 0 .. n
    BY <1>0
  <2> QED BY <1>4, <1>12, <1>13, <2>1 DEF Walk
<1> QED BY <1>13, <1>14 DEF n, A

\* What holds of the recommendations after k parties.
MatchOK(match, es, k) ==
  /\ \A m \in match : \E i \in 1 .. k : m[1] = es[i]
  /\ \A m, n \in match : m[2] = n[2] => m = n
  /\ (\E i \in 1 .. k : Ready(es[i]) /\ \A m \in match : m[1] # es[i]) => Free(match) = <<>>
  /\ \A i \in 1 .. k : Ready(es[i]) /\ line[es[i]].asked # NoBarber /\ <<es[i], line[es[i]].asked>> \notin match
       => \/ floor[line[es[i]].asked].clock # "available"
          \/ \E m \in match : m[2] = line[es[i]].asked /\ \E j \in 1 .. i - 1 : m[1] = es[j]

LEMMA MatchGoesOn ==
  ASSUME BoardTypeOK, NEW es, IsQueue(es), NEW k \in 1 .. Len(es), NEW match \in Matches, MatchOK(match, es, k - 1)
  PROVE  MatchOK(MatchStep(match, es[k]), es, k)
<1> DEFINE e == es[k]
           to == MatchStep(match, e)
           free == Free(match)
<1>0. /\ Len(es) \in Nat /\ DOMAIN es = 1 .. Len(es) /\ k \in Int /\ e \in DOMAIN line
      /\ \A i \in 1 .. k : i = k \/ i \in 1 .. k - 1
      /\ \A i \in 1 .. k - 1 : i \in 1 .. k /\ es[i] # e
      /\ k \in 1 .. k
  BY DEF IsQueue
<1>1. free \in Seq(Barber) /\ (free = <<>> <=> ToSet(free) = {})
      /\ \A b : b \in ToSet(free) <=> b \in Barber /\ floor[b].clock = "available" /\ \A m \in match : m[2] # b
  BY FreeIs
<1>2. line[e].asked \in Barber \cup {NoBarber}
  BY <1>0, PartyIs
<1>3. /\ \A m \in match : \E i \in 1 .. k - 1 : m[1] = es[i]
      /\ \A m, n \in match : m[2] = n[2] => m = n
      /\ (\E i \in 1 .. k - 1 : Ready(es[i]) /\ \A m \in match : m[1] # es[i]) => free = <<>>
      /\ \A i \in 1 .. k - 1 : Ready(es[i]) /\ line[es[i]].asked # NoBarber /\ <<es[i], line[es[i]].asked>> \notin match
           => \/ floor[line[es[i]].asked].clock # "available"
              \/ \E m \in match : m[2] = line[es[i]].asked /\ \E j \in 1 .. i - 1 : m[1] = es[j]
  BY DEF MatchOK
<1>4. line[e].asked # NoBarber /\ line[e].asked \notin ToSet(free)
        => \/ floor[line[e].asked].clock # "available"
           \/ \E m \in match : m[2] = line[e].asked /\ \E j \in 1 .. k - 1 : m[1] = es[j]
  BY <1>1, <1>2, <1>3
<1> HIDE DEF free
<1>5. CASE ~Ready(e) \/ free = <<>>
  <2>1. to = match
    BY <1>5 DEF MatchStep, free
  <2> HIDE DEF to, e
  <2>2. Ready(e) => free = <<>> /\ line[e].asked \notin ToSet(free)
    BY <1>1, <1>5
  <2>3. (\E i \in 1 .. k : Ready(es[i]) /\ \A m \in match : m[1] # es[i]) => free = <<>>
    BY <1>0, <1>3, <2>2 DEF e
  <2>4. ASSUME NEW i \in 1 .. k, Ready(es[i]), line[es[i]].asked # NoBarber, <<es[i], line[es[i]].asked>> \notin match
        PROVE  \/ floor[line[es[i]].asked].clock # "available"
               \/ \E m \in match : m[2] = line[es[i]].asked /\ \E j \in 1 .. i - 1 : m[1] = es[j]
    <3>1. CASE i = k
      BY <1>4, <2>2, <2>4, <3>1 DEF e
    <3>2. CASE i \in 1 .. k - 1
      BY <1>3, <2>4, <3>2
    <3> QED BY <1>0, <3>1, <3>2
  <2>5. \A m \in match : \E i \in 1 .. k : m[1] = es[i]
    BY <1>0, <1>3
  <2>6. MatchOK(match, es, k)
    BY <1>3, <2>3, <2>4, <2>5 DEF MatchOK, free
  <2> QED BY <2>1, <2>6 DEF to, e
<1>6. CASE Ready(e) /\ free # <<>>
  <2> DEFINE c == ChooseBestMatch(e, free)
  <2>1. to = match \cup {<<e, c>>}
    BY <1>6 DEF MatchStep, free
  <2>2. c \in ToSet(free) /\ (line[e].asked \in ToSet(free) => c = line[e].asked)
    BY <1>0, <1>1, <1>6, BestIsFree
  <2> HIDE DEF to, e, c
  <2>3. c \in Barber /\ \A m \in match : m[2] # c
    BY <1>1, <2>2
  <2>4. \A m \in to : \E i \in 1 .. k : m[1] = es[i]
    BY <1>0, <1>3, <2>1 DEF e
  <2>5. \A m, n \in to : m[2] = n[2] => m = n
    BY <1>3, <2>1, <2>3
  <2>6. \A i \in 1 .. k : Ready(es[i]) => \E m \in to : m[1] = es[i]
    <3>1. ASSUME NEW i \in 1 .. k - 1, Ready(es[i]) PROVE \E m \in to : m[1] = es[i]
      BY <1>3, <1>6, <2>1, <3>1
    <3>2. <<e, c>> \in to /\ <<e, c>>[1] = es[k]
      BY <2>1 DEF e
    <3> QED BY <1>0, <3>1, <3>2
  <2>7. ASSUME NEW i \in 1 .. k, Ready(es[i]), line[es[i]].asked # NoBarber, <<es[i], line[es[i]].asked>> \notin to
        PROVE  \/ floor[line[es[i]].asked].clock # "available"
               \/ \E m \in to : m[2] = line[es[i]].asked /\ \E j \in 1 .. i - 1 : m[1] = es[j]
    <3>1. CASE i = k
      <4>1. c # line[e].asked
        BY <2>1, <2>7, <3>1 DEF e
      <4> QED BY <1>4, <2>1, <2>2, <2>7, <3>1, <4>1 DEF e
    <3>2. CASE i \in 1 .. k - 1
      BY <1>3, <2>1, <2>7, <3>2
    <3> QED BY <1>0, <3>1, <3>2
  <2>8. MatchOK(to, es, k)
    BY <2>4, <2>5, <2>6, <2>7 DEF MatchOK
  <2> QED BY <2>8 DEF to, e
<1> QED BY <1>5, <1>6

LEMMA MatchesAreFit ==
  ASSUME BoardTypeOK
  PROVE  MatchesFit(Sla.order, Recommendations)
<1> DEFINE es == Sla.order
           n == Len(es)
<1>1. IsQueue(es)
  BY SlaIs DEF Slas, SlaOK
<1> HIDE DEF es
<1>2. n \in Nat /\ DOMAIN es = 1 .. n
  BY <1>1 DEF IsQueue
<1>3. PICK acc : /\ acc[0] = {} /\ acc[n] = Recommendations
                 /\ \A k \in 0 .. n : acc[k] \in Matches
                 /\ \A k \in 1 .. n : acc[k] = MatchStep(acc[k - 1], es[k])
  BY <1>1, RecommendationsWalk DEF es
<1> DEFINE T == {k \in 0 .. n : MatchOK(acc[k], es, k)}
<1>4. 0 \in T
  BY <1>2, <1>3 DEF MatchOK
<1>5. ASSUME NEW k \in 0 .. n - 1, k \in T PROVE k + 1 \in T
  <2>1. k + 1 \in 1 .. n /\ (k + 1) - 1 = k /\ k + 1 \in 0 .. n /\ k \in 0 .. n
    BY <1>2
  <2>2. acc[k] \in Matches /\ MatchOK(acc[k], es, k) /\ acc[k + 1] = MatchStep(acc[k], es[k + 1])
    BY <1>3, <1>5, <2>1
  <2>3. MatchOK(acc[k + 1], es, k + 1)
    BY <1>1, <2>1, <2>2, MatchGoesOn
  <2> QED BY <2>1, <2>3
<1> HIDE DEF T
<1>6. \A k \in 0 .. n : k \in T
  BY <1>2, <1>4, <1>5, CountUp
<1>7. MatchOK(Recommendations, es, n)
  BY <1>2, <1>3, <1>6 DEF T
<1> DEFINE match == Recommendations
<1> HIDE DEF match
<1>8. /\ \A m, o \in match : m[2] = o[2] => m = o
      /\ (\E i \in 1 .. n : Ready(es[i]) /\ \A m \in match : m[1] # es[i]) => Free(match) = <<>>
      /\ \A i \in 1 .. n : Ready(es[i]) /\ line[es[i]].asked # NoBarber /\ <<es[i], line[es[i]].asked>> \notin match
           => \/ floor[line[es[i]].asked].clock # "available"
              \/ \E m \in match : m[2] = line[es[i]].asked /\ \E j \in 1 .. i - 1 : m[1] = es[j]
  BY <1>7 DEF MatchOK, match
<1>9. \A e \in ToSet(es) : \E i \in 1 .. n : e = es[i]
  BY <1>2 DEF ToSet
<1>10. (\E e \in {e \in ToSet(es) : Ready(e)} : \A m \in match : m[1] # e) => Free(match) = <<>>
  BY <1>8, <1>9
<1>11. ASSUME NEW e \in ToSet(es), Ready(e), line[e].asked # NoBarber, <<e, line[e].asked>> \notin match
       PROVE  \/ floor[line[e].asked].clock # "available"
              \/ \E m \in match : m[2] = line[e].asked /\ Before(es, m[1], e)
  <2>1. PICK i \in 1 .. n : e = es[i]
    BY <1>9
  <2>2. \A j \in 1 .. i - 1 : j \in DOMAIN es /\ i \in DOMAIN es /\ j < i
    BY <1>2
  <2>3. \A m : (\E j \in 1 .. i - 1 : m[1] = es[j]) => Before(es, m[1], e)
    BY <2>1, <2>2 DEF Before
  <2> QED BY <1>8, <1>11, <2>1, <2>3
<1> QED BY <1>8, <1>10, <1>11 DEF MatchesFit, match, es

\* The minutes of a line are those of its parties, in whatever order.
LEMMA MinutesAlike ==
  ASSUME BoardTypeOK, NEW es, IsQueue(es), NEW all, \A e \in DOMAIN line : all[e] = Duration(e)
  PROVE  SumFunctionOnSet(all, InTime) = SumFunctionOnSet(MinutesOf(es), 1 .. Len(es))
<1> DEFINE n == Len(es)
           f == MinutesOf(es)
<1>1. n \in Nat /\ DOMAIN es = 1 .. n /\ es \in Seq(DOMAIN line) /\ \A i \in 1 .. n : es[i] \in DOMAIN line
  BY DEF IsQueue
<1>2. \A i \in 1 .. n : f[i] = Duration(es[i]) /\ f[i] \in Int
  BY <1>1, PartyIs DEF MinutesOf
<1>3. IsFiniteSet(1 .. n) /\ IsFiniteSet(InTime) /\ InTime \subseteq DOMAIN line
  BY <1>1, FS_Interval, QueueIs
<1>4. \A i \in 1 .. n : es[i] \in InTime
  BY <1>1 DEF IsQueue
<1> HIDE DEF f
<1>5. ASSUME NEW p \in InTime PROVE all[p] = SumFunctionOnSet(f, PartAt(es, 1 .. n, p))
  <2>1. PICK i \in 1 .. n : es[i] = p
    BY <1>1 DEF IsQueue
  <2>2. \A j \in 1 .. n : es[j] = p <=> j = i
    BY <1>1, <2>1 DEF IsQueue
  <2>3. PartAt(es, 1 .. n, p) = {i}
    BY <2>1, <2>2 DEF PartAt
  <2>4. SumFunctionOnSet(f, {i}) = f[i]
    BY <1>2, SumOfOne
  <2> QED BY <1>2, <1>3, <2>1, <2>3, <2>4
<1> HIDE DEF n
<1> QED BY <1>2, <1>3, <1>4, <1>5, SumByParts DEF f, n

LEMMA PhonesTold ==
  ASSUME BoardTypeOK
  PROVE  PhonesAgree(PublicStatuses, PublicWait)
<1> DEFINE es == Sla.order
           n == Len(es)
           start == EstimatedStart(es)
           all == [e \in DOMAIN line |-> Duration(e)]
           f == MinutesOf(es)
<1>1. IsQueue(es)
  BY SlaIs DEF Slas, SlaOK
<1>2. PublicStatuses = {[party |-> es[i], place |-> i, start |-> start[i]] : i \in DOMAIN es}
  BY DEF PublicStatuses
<1>3. PublicWait = SumFunctionOnSet(all, DOMAIN line)
  BY DEF PublicWait
<1> HIDE DEF es
<1>4. n \in Nat /\ DOMAIN es = 1 .. n /\ es \in Seq(DOMAIN line)
  BY <1>1 DEF IsQueue
<1>5. {t.party : t \in PublicStatuses} = InTime
  <2> DEFINE told(i) == [party |-> es[i], place |-> i, start |-> start[i]]
  <2>3. PublicStatuses = {told(i) : i \in 1 .. n} /\ \A i : told(i).party = es[i]
    BY <1>2, <1>4
  <2> HIDE DEF told
  <2>1. {t.party : t \in PublicStatuses} = {es[i] : i \in 1 .. n}
    BY <2>3
  <2>2. {es[i] : i \in 1 .. n} = InTime
    BY <1>1, <1>4 DEF IsQueue
  <2> QED BY <2>1, <2>2
<1> HIDE DEF start
<1>6. \A i, j \in 1 .. n : i < j => start[i] \in Int /\ start[j] \in Int /\ start[i] < start[j]
  <2> SUFFICES ASSUME NEW i \in 1 .. n, NEW j \in 1 .. n, i < j
               PROVE  start[i] \in Int /\ start[j] \in Int /\ start[i] < start[j]
    OBVIOUS
  <2>1. start[i] \in Int /\ start[j] \in Int /\ start[i] + Duration(es[i]) <= start[j]
    BY <1>4, StartsFollow DEF start
  <2>2. Duration(es[i]) \in Nat \ {0}
    BY <1>4, PartyIs
  <2> QED BY <2>1, <2>2
<1>7. \A i, j \in 1 .. n : (i < j) = (start[i] < start[j])
  <2> SUFFICES ASSUME NEW i \in 1 .. n, NEW j \in 1 .. n PROVE (i < j) = (start[i] < start[j])
    OBVIOUS
  <2>1. start[i] \in Int /\ start[j] \in Int
    BY <1>4, StartIs DEF start
  <2>2. i < j => start[i] < start[j]
    BY <1>6
  <2>3. j < i => start[j] < start[i]
    BY <1>6
  <2>4. i = j => ~(start[i] < start[j])
    BY <2>1
  <2>5. i \in Int /\ j \in Int /\ (i < j \/ i = j \/ j < i)
    OBVIOUS
  <2>6. i < j <=> start[i] < start[j]
    BY <2>1, <2>2, <2>3, <2>4, <2>5
  <2> QED BY <2>6
<1> HIDE DEF n
<1>8. \A t, u \in PublicStatuses : (t.place < u.place) = (t.start < u.start) /\ (t.place = u.place => t = u)
  BY <1>2, <1>4, <1>7
<1>9. ASSUME NEW i \in 1 .. n PROVE start[i] + Duration(es[i]) <= minute + PublicWait
  <2> DEFINE upTo == SumFunctionOnSet(f, 1 .. i)
             untilThen == SumFunctionOnSet(f, 1 .. i - 1)
             inAll == SumFunctionOnSet(f, 1 .. n)
             d == Duration(es[i])
  <2>1. /\ start[i] = minute + untilThen /\ upTo = untilThen + d /\ minute \in Int /\ untilThen \in Int /\ d \in Int
        /\ 1 .. i \subseteq 1 .. n
        /\ \A j \in 1 .. n : f[j] = Duration(es[j]) /\ f[j] \in Nat
    <3>1. i \in DOMAIN es
      BY <1>4
    <3>2. /\ start[i] = minute + untilThen /\ upTo = untilThen + d /\ minute \in Int /\ untilThen \in Int /\ d \in Int
          /\ 1 .. i \subseteq 1 .. n
      BY <1>4, <3>1, StartIs DEF start
    <3>3. \A j \in 1 .. n : f[j] = Duration(es[j]) /\ f[j] \in Nat
      BY <1>4, <3>1, StartIs
    <3> QED BY <3>2, <3>3
  <2>2. IsFiniteSet(1 .. n)
    BY <1>4, FS_Interval
  <2>3. \A e \in DOMAIN line : all[e] = Duration(e) /\ all[e] \in Nat
    BY PartyIs
  <2>4. InTime \subseteq DOMAIN line /\ IsFiniteSet(DOMAIN line)
    BY QueueIs, FS_Interval
  <2> HIDE DEF f, all
  <2>5. \A j \in 1 .. n : f[j] \in Int
    BY <2>1
  <2>6. \A j \in 1 .. n \ 1 .. i : f[j] \in Nat
    BY <2>1
  <2>7. upTo <= inAll
    BY <2>1, <2>2, <2>5, <2>6, SumGrows
  <2>8. SumFunctionOnSet(all, InTime) = inAll
    BY <1>1, <2>3, MinutesAlike DEF f, n
  <2>9. \A e \in DOMAIN line : all[e] \in Int
    BY <2>3
  <2>10. \A e \in DOMAIN line \ InTime : all[e] \in Nat
    BY <2>3
  <2>11. SumFunctionOnSet(all, InTime) <= SumFunctionOnSet(all, DOMAIN line)
    BY <2>4, <2>9, <2>10, SumGrows
  <2>12. PublicWait \in Int /\ inAll \in Int
    BY <1>3, <2>2, <2>4, <2>5, <2>9, SumTypes
  <2> HIDE DEF upTo, untilThen, inAll, d
  <2>13. upTo <= PublicWait
    BY <1>3, <2>1, <2>7, <2>8, <2>11, <2>12
  <2>14. start[i] + d <= minute + PublicWait
    BY <2>1, <2>12, <2>13
  <2> QED BY <2>14 DEF d
<1>10. \A t \in PublicStatuses : t.start + Duration(t.party) <= minute + PublicWait
  <2> SUFFICES ASSUME NEW t \in PublicStatuses PROVE t.start + Duration(t.party) <= minute + PublicWait
    OBVIOUS
  <2>1. PICK i \in 1 .. n : t = [party |-> es[i], place |-> i, start |-> start[i]]
    BY <1>2, <1>4
  <2>2. t.start = start[i] /\ t.party = es[i]
    BY <2>1
  <2> QED BY <1>9, <2>2
<1> QED BY <1>5, <1>8, <1>10 DEF PhonesAgree, InTime

Block == [party: {0} \cup DOMAIN line, barber: Barber, from: Int, to: Int]
Plans == [free: [Barber -> Int], blocks: SUBSET Block, nobody: SUBSET DOMAIN line]

\* Nobody at work would serve the party.
Unserved(e) == \A b \in ToSet(OnFloor) : line[e].asked \notin {NoBarber, b}

\* When a barber could start it.
Soonest(plan, e, b) == IF line[e].at = Never THEN plan.free[b] ELSE Max({plan.free[b], line[e].at})

LEMMA SoonestIs ==
  ASSUME BoardTypeOK, NEW plan \in Plans, NEW e \in DOMAIN line, NEW b \in Barber
  PROVE  /\ Soonest(plan, e, b) \in Int /\ plan.free[b] \in Int /\ plan.free[b] <= Soonest(plan, e, b)
         /\ line[e].at # Never => line[e].at \in Int /\ line[e].at <= Soonest(plan, e, b)
         /\ Soonest(plan, e, b) \in {plan.free[b], line[e].at}
<1>1. plan.free[b] \in Int /\ line[e].at \in Int \cup {Never}
  BY PartyIs DEF Plans
<1>2. CASE line[e].at = Never
  BY <1>1, <1>2 DEF Soonest
<1>3. CASE line[e].at # Never
  <2>1. line[e].at \in Int
    BY <1>1, <1>3
  <2>2. Max({plan.free[b], line[e].at}) = IF plan.free[b] >= line[e].at THEN plan.free[b] ELSE line[e].at
    BY <1>1, <2>1, MaxOfTwo
  <2>3. Soonest(plan, e, b) = IF plan.free[b] >= line[e].at THEN plan.free[b] ELSE line[e].at
    BY <1>3, <2>2 DEF Soonest
  <2> QED BY <1>1, <2>1, <2>3
<1> QED BY <1>2, <1>3

LEMMA OnFloorIs ==
  /\ OnFloor \in Seq(Barber) /\ ToSet(OnFloor) \subseteq Barber
  /\ \A i \in DOMAIN OnFloor : OnFloor[i] \in ToSet(OnFloor)
  /\ \A b \in ToSet(OnFloor) : \E i \in DOMAIN OnFloor : OnFloor[i] = b
<1> DEFINE I == {i \in DOMAIN Roster : floor[Roster[i]].clock # "off"}
           l == OnFloor
<1>1. Roster \in Seq(Barber) /\ I \subseteq DOMAIN Roster /\ l = Sublist(Roster, I)
  BY FloorBoardConstants DEF OnFloor
<1> HIDE DEF I
<1>2. l \in Seq(Barber)
  BY <1>1, RosterPart
<1> HIDE DEF l
<1>3. /\ ToSet(l) \subseteq Barber /\ \A i \in DOMAIN l : l[i] \in ToSet(l)
      /\ \A b \in ToSet(l) : \E i \in DOMAIN l : l[i] = b
  BY <1>2 DEF ToSet
<1> QED BY <1>2, <1>3 DEF l

\* A party goes to a barber on the floor it may go to, at the time that barber can start it.
LEMMA AssignedTo ==
  ASSUME BoardTypeOK, NEW plan \in Plans, NEW e \in DOMAIN line
  PROVE  IF Unserved(e) THEN Assign(plan, e) = [plan EXCEPT !.nobody = @ \cup {e}]
         ELSE \E b \in Barber : Assign(plan, e) = Seat(plan, e, b, Soonest(plan, e, b))
<1> DEFINE I == {i \in DOMAIN OnFloor : line[e].asked \in {NoBarber, OnFloor[i]}}
           l == Sublist(OnFloor, I)
           soonest(b) == Soonest(plan, e, b)
           S == {soonest(l[i]) : i \in DOMAIN l}
           K == {i \in DOMAIN l : soonest(l[i]) = Min(S)}
           b == l[Min(K)]
<1>1. Assign(plan, e) = IF l = <<>> THEN [plan EXCEPT !.nobody = @ \cup {e}] ELSE Seat(plan, e, b, Min(S))
  BY DEF Assign, Soonest
<1>2. I \subseteq DOMAIN OnFloor /\ (I = {} <=> Unserved(e))
  BY OnFloorIs DEF Unserved
<1>3. OnFloor \in Seq(Barber)
  BY OnFloorIs
<1> HIDE DEF I
<1>4. l \in Seq(Barber) /\ (l = <<>> <=> Unserved(e))
  <2>1. l \in Seq(Barber) /\ (\A c : c \in ToSet(l) <=> \E i \in I : OnFloor[i] = c) /\ (l = <<>> <=> ToSet(l) = {})
    BY <1>2, <1>3, RosterPart
  <2>2. ToSet(l) = {} <=> I = {}
    BY <2>1
  <2> QED BY <1>2, <2>1, <2>2
<1> HIDE DEF l, soonest
<1>5. CASE l = <<>>
  BY <1>1, <1>4, <1>5
<1>6. CASE l # <<>>
  <2>1. Len(l) \in Nat /\ DOMAIN l = 1 .. Len(l) /\ 1 \in 1 .. Len(l) /\ \A i \in 1 .. Len(l) : l[i] \in Barber
    BY <1>4, <1>6
  <2>2. \A c \in Barber : soonest(c) \in Int
    BY SoonestIs DEF soonest
  <2> DEFINE f == [i \in 1 .. Len(l) |-> soonest(l[i])]
  <2>3. S \subseteq Int /\ S # {}
    BY <2>1, <2>2
  <2>4. S = {soonest(l[i]) : i \in 1 .. Len(l)}
    BY <2>1
  <2>5. \A i \in 1 .. Len(l) : f[i] = soonest(l[i])
    OBVIOUS
  <2> HIDE DEF f, S
  <2>6. S = ImageOf(f, 1 .. Len(l))
    BY <2>4, <2>5 DEF ImageOf
  <2>7. IsFiniteSet(1 .. Len(l))
    BY <2>1, FS_Interval
  <2>8. IsFiniteSet(S)
    BY <2>6, <2>7, ImageIsSmaller
  <2>9. Min(S) \in S
    BY <2>3, <2>8, MaxMinAre
  <2>10. K \subseteq 1 .. Len(l) /\ K # {}
    BY <2>1, <2>4, <2>9
  <2>11. K \subseteq Int /\ IsFiniteSet(K)
    BY <2>7, <2>10, FS_Subset
  <2>12. Min(K) \in K
    <3> HIDE DEF K
    <3> QED BY <2>10, <2>11, MaxMinAre
  <2>13. soonest(b) = Min(S) /\ b \in Barber
    <3>1. Min(K) \in 1 .. Len(l) /\ soonest(l[Min(K)]) = Min(S)
      BY <2>10, <2>12
    <3> QED BY <2>1, <3>1
  <2> HIDE DEF b
  <2>14. Assign(plan, e) = Seat(plan, e, b, Soonest(plan, e, b))
    BY <1>1, <1>6, <2>13 DEF soonest
  <2> QED BY <1>4, <1>6, <2>13, <2>14
<1> QED BY <1>5, <1>6

LEMMA SeatIs ==
  ASSUME BoardTypeOK, NEW plan \in Plans, NEW e \in DOMAIN line, NEW b \in Barber, NEW from \in Int,
         NEW new, new = [party |-> e, barber |-> b, from |-> from, to |-> from + Duration(e)]
  PROVE  /\ Seat(plan, e, b, from).free = [plan.free EXCEPT ![b] = from + Duration(e)]
         /\ Seat(plan, e, b, from).blocks = plan.blocks \cup {new}
         /\ Seat(plan, e, b, from).nobody = plan.nobody
         /\ Seat(plan, e, b, from) \in Plans /\ new \in Block
<1>1. Duration(e) \in Nat /\ from + Duration(e) \in Int
  BY PartyIs
<1>2. new \in Block
  BY <1>1 DEF Block
<1>3. Seat(plan, e, b, from)
        = [plan EXCEPT !.free[b] = from + Duration(e), !.blocks = @ \cup {new}]
  BY DEF Seat
<1>4. /\ plan = [free |-> plan.free, blocks |-> plan.blocks, nobody |-> plan.nobody]
      /\ plan.free \in [Barber -> Int] /\ plan.blocks \subseteq Block /\ plan.nobody \subseteq DOMAIN line
  BY DEF Plans
<1>5. /\ Seat(plan, e, b, from).free = [plan.free EXCEPT ![b] = from + Duration(e)]
      /\ Seat(plan, e, b, from).blocks = plan.blocks \cup {new}
      /\ Seat(plan, e, b, from).nobody = plan.nobody
      /\ Seat(plan, e, b, from) = [free |-> [plan.free EXCEPT ![b] = from + Duration(e)],
                                   blocks |-> plan.blocks \cup {new}, nobody |-> plan.nobody]
  BY <1>3, <1>4
<1>6. Seat(plan, e, b, from) \in Plans
  BY <1>1, <1>2, <1>4, <1>5 DEF Plans
<1> QED BY <1>2, <1>5, <1>6

LEMMA AssignKeepsPlans ==
  ASSUME BoardTypeOK, NEW plan \in Plans, NEW e \in DOMAIN line
  PROVE  Assign(plan, e) \in Plans
<1>1. CASE Unserved(e)
  <2>1. Assign(plan, e) = [plan EXCEPT !.nobody = @ \cup {e}]
    BY <1>1, AssignedTo
  <2> QED BY <2>1 DEF Plans
<1>2. CASE ~Unserved(e)
  <2>1. PICK b \in Barber : Assign(plan, e) = Seat(plan, e, b, Soonest(plan, e, b))
    BY <1>2, AssignedTo
  <2> DEFINE from == Soonest(plan, e, b)
  <2>2. from \in Int
    BY SoonestIs
  <2> HIDE DEF from
  <2>3. Seat(plan, e, b, from) \in Plans
    BY <2>2, SeatIs
  <2> QED BY <2>1, <2>3 DEF from
<1> QED BY <1>1, <1>2

LEMMA AnchoredIs ==
  ASSUME BoardTypeOK
  PROVE  /\ Anchored \in Plans /\ Anchored.nobody = {} /\ \A p \in Anchored.blocks : p.party = 0
         /\ \A p, q \in Anchored.blocks : p.barber = q.barber => p = q
         /\ \A p \in Anchored.blocks : p.to = Anchored.free[p.barber]
         /\ \A b \in Barber : \/ Anchored.free[b] = minute
                              \/ \E q \in Anchored.blocks : q.barber = b /\ q.to = Anchored.free[b]
<1>1. \A b \in InService : b \in Barber /\ ProjectedEnd(b) \in Int
  <2> SUFFICES ASSUME NEW b \in InService PROVE b \in Barber /\ ProjectedEnd(b) \in Int
    OBVIOUS
  <2>1. b \in Barber /\ floor[b].since # Never
    BY DEF InService
  <2>2. floor[b] \in Chair /\ minute \in Int
    BY <2>1 DEF BoardTypeOK
  <2>3. floor[b].since \in Int /\ floor[b].work \in Works
    BY <2>1, <2>2 DEF Chair
  <2>4. ExpectedMinutesFor(b, floor[b].work) \in Nat
    BY <2>1, <2>3, MinutesPositive
  <2>5. CatchUp \in Nat
    BY FloorBoardConstants
  <2> QED BY <2>1, <2>2, <2>3, <2>4, <2>5 DEF ProjectedEnd
<1>2. minute \in Int
  BY DEF BoardTypeOK
<1> DEFINE new(b) == [party |-> 0, barber |-> b, from |-> minute, to |-> ProjectedEnd(b)]
<1>3. /\ Anchored.free = [b \in Barber |-> IF b \in InService THEN ProjectedEnd(b) ELSE minute]
      /\ Anchored.blocks = {new(b) : b \in InService} /\ Anchored.nobody = {}
      /\ Anchored = [free |-> Anchored.free, blocks |-> Anchored.blocks, nobody |-> {}]
  BY DEF Anchored
<1>4. \A b \in InService : new(b) \in Block /\ new(b).party = 0 /\ new(b).barber = b /\ new(b).to = ProjectedEnd(b)
  BY <1>1, <1>2 DEF Block
<1> HIDE DEF new
<1>5. Anchored.free \in [Barber -> Int] /\ Anchored.blocks \subseteq Block
  BY <1>1, <1>2, <1>3, <1>4
<1>6. Anchored \in Plans
  BY <1>3, <1>5 DEF Plans
<1>7. \A p \in Anchored.blocks : \E b \in InService : p = new(b)
  BY <1>3
<1>8. \A b \in InService : new(b) \in Anchored.blocks /\ Anchored.free[b] = ProjectedEnd(b)
  BY <1>1, <1>3
<1>9. \A b \in Barber \ InService : Anchored.free[b] = minute
  BY <1>3
<1> QED BY <1>3, <1>4, <1>6, <1>7, <1>8, <1>9

\* Not before the appointment, and not behind a gap that no appointment explains.
InPlace(blocks, p) ==
  /\ line[p.party].at # Never => p.from >= line[p.party].at
  /\ \/ p.from \in {minute, line[p.party].at}
     \/ \E q \in blocks : q.barber = p.barber /\ q.to = p.from

Apart(p, q) == p.to <= q.from \/ q.to <= p.from

\* What holds of the plan after k parties.
BlocksOK(plan, es, k) ==
  /\ \A p \in plan.blocks : p.party = 0 \/ \E i \in 1 .. k : p.party = es[i]
  /\ \A p \in plan.blocks : p.to <= plan.free[p.barber]
  /\ \A p, q \in plan.blocks : p.barber = q.barber /\ p # q => Apart(p, q)
  /\ \A b \in Barber : plan.free[b] = minute \/ \E q \in plan.blocks : q.barber = b /\ q.to = plan.free[b]
  /\ \A p \in plan.blocks : p.party # 0 => InPlace(plan.blocks, p)

PlannedOK(plan, es, k) ==
  /\ \A e \in plan.nobody : \E i \in 1 .. k : e = es[i]
  /\ \A i \in 1 .. k : es[i] \in plan.nobody <=> Unserved(es[i])
  /\ \A i \in 1 .. k : es[i] \in plan.nobody => \A p \in plan.blocks : p.party # es[i]
  /\ \A i \in 1 .. k : es[i] \notin plan.nobody
       => \E p \in plan.blocks : p.party = es[i] /\ \A q \in plan.blocks : q.party = es[i] => q = p

LEMMA PlanStarts ==
  ASSUME BoardTypeOK, NEW es
  PROVE  BlocksOK(Anchored, es, 0) /\ PlannedOK(Anchored, es, 0)
<1> DEFINE plan == Anchored
<1>1. /\ plan \in Plans /\ plan.nobody = {} /\ \A p \in plan.blocks : p.party = 0
      /\ \A p, q \in plan.blocks : p.barber = q.barber => p = q
      /\ \A p \in plan.blocks : p.to = plan.free[p.barber]
      /\ \A b \in Barber : plan.free[b] = minute \/ \E q \in plan.blocks : q.barber = b /\ q.to = plan.free[b]
  BY AnchoredIs
<1> HIDE DEF plan
<1>2. plan.free \in [Barber -> Int] /\ \A p \in plan.blocks : p.barber \in Barber
  BY <1>1 DEF Plans, Block
<1>3. \A p \in plan.blocks : p.to <= plan.free[p.barber]
  BY <1>1, <1>2
<1>4. BlocksOK(plan, es, 0)
  BY <1>1, <1>3 DEF BlocksOK
<1>5. PlannedOK(plan, es, 0)
  BY <1>1 DEF PlannedOK
<1> QED BY <1>4, <1>5 DEF plan

LEMMA PlanGoesOn ==
  ASSUME BoardTypeOK, NEW es, IsQueue(es), NEW k \in 1 .. Len(es), NEW plan \in Plans,
         BlocksOK(plan, es, k - 1), PlannedOK(plan, es, k - 1)
  PROVE  BlocksOK(Assign(plan, es[k]), es, k) /\ PlannedOK(Assign(plan, es[k]), es, k)
<1> DEFINE e == es[k]
           to == Assign(plan, e)
<1>0. /\ Len(es) \in Nat /\ DOMAIN es = 1 .. Len(es) /\ k \in Int /\ e \in DOMAIN line
      /\ \A i \in 1 .. k : i = k \/ i \in 1 .. k - 1
      /\ \A i \in 1 .. k - 1 : i \in 1 .. k /\ es[i] # e
      /\ k \in 1 .. k
  BY DEF IsQueue
<1>1. e # 0
  BY <1>0, PartyIs
<1>2. /\ plan.free \in [Barber -> Int] /\ plan.blocks \subseteq Block /\ minute \in Int
      /\ \A p \in plan.blocks : p.party # e /\ p.barber \in Barber /\ p.from \in Int /\ p.to \in Int
  <2>1. plan.free \in [Barber -> Int] /\ plan.blocks \subseteq Block /\ minute \in Int
    BY DEF Plans, BoardTypeOK
  <2>2. \A p \in plan.blocks : p.party # e
    BY <1>0, <1>1 DEF BlocksOK
  <2>3. \A p \in plan.blocks : p.barber \in Barber /\ p.from \in Int /\ p.to \in Int
    BY <2>1 DEF Block
  <2> QED BY <2>1, <2>2, <2>3
<1>3. e \notin plan.nobody
  BY <1>0 DEF PlannedOK
<1>4. CASE Unserved(e)
  <2>1. to = [plan EXCEPT !.nobody = @ \cup {e}]
    BY <1>0, <1>4, AssignedTo
  <2>2. to.free = plan.free /\ to.blocks = plan.blocks /\ to.nobody = plan.nobody \cup {e}
    BY <2>1 DEF Plans
  <2> HIDE DEF to, e
  <2>3. BlocksOK(to, es, k)
    <3>1. \A p \in to.blocks : p.party = 0 \/ \E i \in 1 .. k : p.party = es[i]
      BY <1>0, <2>2 DEF BlocksOK
    <3> QED BY <2>2, <3>1 DEF BlocksOK
  <2>4. PlannedOK(to, es, k)
    <3>1. \A d \in to.nobody : \E i \in 1 .. k : d = es[i]
      BY <1>0, <2>2 DEF PlannedOK, e
    <3>2. \A i \in 1 .. k : es[i] \in to.nobody <=> Unserved(es[i])
      BY <1>0, <1>4, <2>2 DEF PlannedOK, e
    <3>3. \A i \in 1 .. k : es[i] \in to.nobody => \A p \in to.blocks : p.party # es[i]
      BY <1>0, <1>2, <2>2 DEF PlannedOK, e
    <3>4. \A i \in 1 .. k : es[i] \notin to.nobody
             => \E p \in to.blocks : p.party = es[i] /\ \A q \in to.blocks : q.party = es[i] => q = p
      BY <1>0, <2>2 DEF PlannedOK, e
    <3> QED BY <3>1, <3>2, <3>3, <3>4 DEF PlannedOK
  <2> QED BY <2>3, <2>4 DEF to, e
<1>5. CASE ~Unserved(e)
  <2>1. PICK b \in Barber : to = Seat(plan, e, b, Soonest(plan, e, b))
    BY <1>0, <1>5, AssignedTo
  <2> DEFINE from == Soonest(plan, e, b)
             end == from + Duration(e)
             new == [party |-> e, barber |-> b, from |-> from, to |-> end]
  <2>2. /\ from \in Int /\ plan.free[b] \in Int /\ plan.free[b] <= from
        /\ line[e].at # Never => line[e].at \in Int /\ line[e].at <= from
        /\ from \in {plan.free[b], line[e].at}
    BY <1>0, SoonestIs
  <2>3. Duration(e) \in Nat /\ end \in Int /\ from <= end
    <3>1. Duration(e) \in Nat
      BY <1>0, PartyIs
    <3> HIDE DEF from
    <3> QED BY <2>2, <3>1
  <2> HIDE DEF from
  <2>4. to.free = [plan.free EXCEPT ![b] = end] /\ to.blocks = plan.blocks \cup {new} /\ to.nobody = plan.nobody
    <3>1. to = Seat(plan, e, b, from)
      BY <2>1 DEF from
    <3>2. e \in DOMAIN line /\ from \in Int /\ new = [party |-> e, barber |-> b, from |-> from, to |-> from + Duration(e)]
      BY <1>0, <2>2
    <3>3. end = from + Duration(e)
      OBVIOUS
    <3> HIDE DEF e, to, new, end
    <3> QED BY <3>1, <3>2, <3>3, SeatIs
  <2>5. new.party = e /\ new.barber = b /\ new.from = from /\ new.to = end
    OBVIOUS
  <2> HIDE DEF to, e, new, end
  <2>6. to.free[b] = end /\ \A c \in Barber : c # b => to.free[c] = plan.free[c]
    BY <1>2, <2>4
  <2>7. \A c \in Barber : plan.free[c] <= to.free[c] /\ plan.free[c] \in Int /\ to.free[c] \in Int
    BY <1>2, <2>2, <2>3, <2>6
  <2>8. \A p \in plan.blocks : p.to <= plan.free[p.barber]
    BY DEF BlocksOK
  <2>9. BlocksOK(to, es, k)
    <3>1. \A p \in to.blocks : p.party = 0 \/ \E i \in 1 .. k : p.party = es[i]
      BY <1>0, <2>4, <2>5 DEF BlocksOK, e
    <3>2. \A p \in to.blocks : p.to <= to.free[p.barber]
      <4>1. ASSUME NEW p \in plan.blocks PROVE p.to <= to.free[p.barber]
        BY <1>2, <2>7, <2>8
      <4>2. new.to <= to.free[new.barber]
        BY <2>3, <2>5, <2>6
      <4> QED BY <2>4, <4>1, <4>2
    <3>3. \A p, q \in to.blocks : p.barber = q.barber /\ p # q => Apart(p, q)
      <4>1. ASSUME NEW p \in plan.blocks, p.barber = b PROVE Apart(p, new) /\ Apart(new, p)
        <5>1. p.to <= plan.free[b] /\ p.to \in Int
          BY <1>2, <2>8, <4>1
        <5>2. p.to <= new.from
          BY <2>2, <2>5, <5>1
        <5> QED BY <5>2 DEF Apart
      <4>2. \A p, q \in plan.blocks : p.barber = q.barber /\ p # q => Apart(p, q)
        BY DEF BlocksOK
      <4> QED BY <2>4, <2>5, <4>1, <4>2
    <3>4. \A c \in Barber : to.free[c] = minute \/ \E q \in to.blocks : q.barber = c /\ q.to = to.free[c]
      <4>1. ASSUME NEW c \in Barber, c # b
            PROVE  to.free[c] = minute \/ \E q \in to.blocks : q.barber = c /\ q.to = to.free[c]
        BY <2>4, <2>6, <4>1 DEF BlocksOK
      <4>2. new \in to.blocks /\ new.barber = b /\ new.to = to.free[b]
        BY <2>4, <2>5, <2>6
      <4> QED BY <4>1, <4>2
    <3>5. \A p \in to.blocks : p.party # 0 => InPlace(to.blocks, p)
      <4>1. ASSUME NEW p \in plan.blocks, p.party # 0 PROVE InPlace(to.blocks, p)
        <5>1. InPlace(plan.blocks, p)
          BY <4>1 DEF BlocksOK
        <5>2. plan.blocks \subseteq to.blocks
          BY <2>4
        <5> QED BY <5>1, <5>2 DEF InPlace
      <4>2. InPlace(to.blocks, new)
        <5>1. line[e].at # Never => from >= line[e].at
          BY <2>2
        <5>2. from = plan.free[b] => from = minute \/ \E q \in to.blocks : q.barber = b /\ q.to = from
          BY <2>4 DEF BlocksOK
        <5>3. from \in {minute, line[e].at} \/ \E q \in to.blocks : q.barber = b /\ q.to = from
          BY <2>2, <5>2
        <5> QED BY <2>5, <5>1, <5>3 DEF InPlace
      <4> QED BY <2>4, <4>1, <4>2
    <3> QED BY <3>1, <3>2, <3>3, <3>4, <3>5 DEF BlocksOK
  <2>10. PlannedOK(to, es, k)
    <3>1. \A d \in to.nobody : \E i \in 1 .. k : d = es[i]
      BY <1>0, <2>4 DEF PlannedOK
    <3>2. \A i \in 1 .. k : es[i] \in to.nobody <=> Unserved(es[i])
      BY <1>0, <1>3, <1>5, <2>4 DEF PlannedOK, e
    <3>3. \A i \in 1 .. k : es[i] \in to.nobody => \A p \in to.blocks : p.party # es[i]
      BY <1>0, <1>3, <2>4, <2>5 DEF PlannedOK, e
    <3>4. ASSUME NEW i \in 1 .. k, es[i] \notin to.nobody
          PROVE  \E p \in to.blocks : p.party = es[i] /\ \A q \in to.blocks : q.party = es[i] => q = p
      <4>1. CASE i = k
        BY <1>2, <2>4, <2>5, <4>1 DEF e
      <4>2. CASE i \in 1 .. k - 1
        BY <1>0, <2>4, <2>5, <3>4, <4>2 DEF PlannedOK
      <4> QED BY <1>0, <4>1, <4>2
    <3> QED BY <3>1, <3>2, <3>3, <3>4 DEF PlannedOK
  <2> QED BY <2>9, <2>10 DEF to, e
<1> QED BY <1>4, <1>5

LEMMA TimelinesWalk ==
  ASSUME BoardTypeOK, NEW es, es = Sla.order, IsQueue(es)
  PROVE  \E acc : /\ acc[0] = Anchored /\ acc[Len(es)] = Timelines
                  /\ \A k \in 0 .. Len(es) : acc[k] \in Plans
                  /\ \A k \in 1 .. Len(es) : acc[k] = Assign(acc[k - 1], es[k])
<1> DEFINE n == Len(es)
           A == Plans
           base == Anchored
           F == [x \in A \X (1 .. n) |-> Assign(x[1], es[x[2]])]
           Eq(g) == g = [s \in SUBSET (DOMAIN es) |-> IF s = {} THEN base ELSE Assign(g[s \ {Max(s)}], es[Max(s)])]
           it == CHOOSE g : Eq(g)
<1>0. n \in Nat /\ DOMAIN es = 1 .. n /\ \A k \in 1 .. n : es[k] \in DOMAIN line
  BY DEF IsQueue
<1>2. base \in A
  BY AnchoredIs
<1>3. F \in [A \X (1 .. n) -> A]
  <2>1. ASSUME NEW x \in A \X (1 .. n) PROVE Assign(x[1], es[x[2]]) \in A
    <3>1. es[x[2]] \in DOMAIN line /\ x[1] \in A
      BY <1>0
    <3> QED BY <3>1, AssignKeepsPlans
  <2> HIDE DEF A
  <2> QED BY <2>1
<1> HIDE DEF A, n, base
<1>4. \A x \in A, k \in 1 .. n : <<x, k>> \in A \X (1 .. n) /\ F[<<x, k>>] = Assign(x, es[k])
  OBVIOUS
<1> HIDE DEF F
<1>5. PICK g : Carried(g, F, base, n) /\ \A s \in SUBSET (1 .. n) : g[s] \in A
  BY <1>0, <1>2, <1>3, FoldSteps, Zenon
<1>6. Eq(g)
  <2>1. ASSUME NEW s \in SUBSET (1 .. n), s # {} PROVE F[<<g[s \ {Max(s)}], Max(s)>>] = Assign(g[s \ {Max(s)}], es[Max(s)])
    <3>1. Max(s) \in 1 .. n /\ s \ {Max(s)} \in SUBSET (1 .. n)
      BY <1>0, <2>1, LastOut
    <3> QED BY <1>4, <1>5, <3>1
  <2> QED BY <1>0, <1>5, <2>1 DEF Carried
<1>7. Eq(it)
  <2> HIDE DEF Eq
  <2> QED BY <1>6
<1>8. Timelines = it[1 .. n]
  <2>1. Timelines = it[DOMAIN es]
    BY DEF Timelines, FoldLeft, MapThenFoldSet, base
  <2> QED BY <1>0, <2>1
<1> HIDE DEF it
<1>9. it[{}] = base
  BY <1>7
<1>10. ASSUME NEW s \in SUBSET (1 .. n), s # {}, it[s \ {Max(s)}] \in A
       PROVE  it[s] = F[<<it[s \ {Max(s)}], Max(s)>>]
  <2>1. Max(s) \in 1 .. n
    BY <1>0, <1>10, LastOut
  <2>2. it[s] = Assign(it[s \ {Max(s)}], es[Max(s)])
    BY <1>0, <1>7, <1>10
  <2> QED BY <1>4, <1>10, <2>1, <2>2
<1>11. WalksTo(it[1 .. n], F, base, A, n)
  <2> HIDE DEF Eq
  <2>1. Follows(it, F, base, A, n)
    BY <1>9, <1>10 DEF Follows
  <2> QED BY <1>0, <1>2, <1>3, <2>1, FoldWalks
<1>12. PICK acc : Walk(acc, F, base, A, n) /\ acc[n] = it[1 .. n]
  BY <1>11 DEF WalksTo
<1>13. /\ acc[0] = base /\ acc[n] = Timelines /\ \A k \in 0 .. n : acc[k] \in A
  BY <1>8, <1>12 DEF Walk
<1>14. ASSUME NEW k \in 1 .. n PROVE acc[k] = Assign(acc[k - 1], es[k])
  <2>1. k - 1 \in 0 .. n
    BY <1>0
  <2> QED BY <1>4, <1>12, <1>13, <2>1 DEF Walk
<1> QED BY <1>13, <1>14 DEF n, A, base

LEMMA DaysAreFit ==
  ASSUME BoardTypeOK
  PROVE  DaysFit(Timelines)
<1> DEFINE es == Sla.order
           n == Len(es)
           plan == Timelines
<1>1. IsQueue(es)
  BY SlaIs DEF Slas, SlaOK
<1> HIDE DEF es
<1>2. n \in Nat /\ DOMAIN es = 1 .. n
  BY <1>1 DEF IsQueue
<1>3. PICK acc : /\ acc[0] = Anchored /\ acc[n] = plan
                 /\ \A k \in 0 .. n : acc[k] \in Plans
                 /\ \A k \in 1 .. n : acc[k] = Assign(acc[k - 1], es[k])
  BY <1>1, TimelinesWalk DEF es
<1> DEFINE T == {k \in 0 .. n : BlocksOK(acc[k], es, k) /\ PlannedOK(acc[k], es, k)}
<1>4. 0 \in T
  BY <1>2, <1>3, PlanStarts
<1>5. ASSUME NEW k \in 0 .. n - 1, k \in T PROVE k + 1 \in T
  <2>1. k + 1 \in 1 .. n /\ (k + 1) - 1 = k /\ k + 1 \in 0 .. n /\ k \in 0 .. n
    BY <1>2
  <2>2. /\ acc[k] \in Plans /\ BlocksOK(acc[k], es, k) /\ PlannedOK(acc[k], es, k)
        /\ acc[k + 1] = Assign(acc[k], es[k + 1])
    BY <1>3, <1>5, <2>1
  <2>3. BlocksOK(acc[k + 1], es, k + 1) /\ PlannedOK(acc[k + 1], es, k + 1)
    BY <1>1, <2>1, <2>2, PlanGoesOn
  <2> QED BY <2>1, <2>3
<1> HIDE DEF T
<1>6. \A k \in 0 .. n : k \in T
  BY <1>2, <1>4, <1>5, CountUp
<1>7. BlocksOK(plan, es, n) /\ PlannedOK(plan, es, n) /\ plan \in Plans
  BY <1>2, <1>3, <1>6 DEF T
<1> HIDE DEF plan, n
<1>8. \A p, q \in plan.blocks : p.barber = q.barber /\ p # q => p.to <= q.from \/ q.to <= p.from
  BY <1>7 DEF BlocksOK, Apart
<1>9. \A p \in plan.blocks : p.party # 0 =>
        /\ line[p.party].at # Never => p.from >= line[p.party].at
        /\ \/ p.from \in {minute, line[p.party].at}
           \/ \E q \in plan.blocks : q.barber = p.barber /\ q.to = p.from
  BY <1>7 DEF BlocksOK, InPlace
<1>10. ASSUME NEW e \in InTime
       PROVE  /\ Cardinality({p \in plan.blocks : p.party = e}) = IF e \in plan.nobody THEN 0 ELSE 1
              /\ e \in plan.nobody <=> Unserved(e)
  <2>1. PICK i \in 1 .. n : es[i] = e
    BY <1>1, <1>2 DEF IsQueue
  <2>2. /\ e \in plan.nobody <=> Unserved(e)
        /\ e \in plan.nobody => \A p \in plan.blocks : p.party # e
        /\ e \notin plan.nobody
             => \E p \in plan.blocks : p.party = e /\ \A q \in plan.blocks : q.party = e => q = p
    BY <1>7, <2>1 DEF PlannedOK
  <2>3. CASE e \in plan.nobody
    <3>1. {p \in plan.blocks : p.party = e} = {}
      BY <2>2, <2>3
    <3> QED BY <2>2, <2>3, <3>1, FS_EmptySet
  <2>4. CASE e \notin plan.nobody
    <3>1. PICK p \in plan.blocks : p.party = e /\ \A q \in plan.blocks : q.party = e => q = p
      BY <2>2, <2>4
    <3>2. {q \in plan.blocks : q.party = e} = {p}
      BY <3>1
    <3>3. Cardinality({p}) = 1
      BY FS_Singleton
    <3> QED BY <2>2, <2>4, <3>2, <3>3
  <2> QED BY <2>3, <2>4
<1>11. ToSet(Participants) = InTime
  BY ParticipantsAre
<1>12. \A e \in ToSet(Participants) :
         LET mine == {p \in plan.blocks : p.party = e}
         IN  /\ Cardinality(mine) = IF e \in plan.nobody THEN 0 ELSE 1
             /\ e \in plan.nobody <=> \A b \in ToSet(OnFloor) : line[e].asked \notin {NoBarber, b}
  BY <1>10, <1>11 DEF Unserved
<1> QED BY <1>8, <1>9, <1>12 DEF DaysFit, plan

\* What the board plans is sound whatever the line, the chairs and the clock.
LEMMA BoardPlans ==
  ASSUME BoardTypeOK
  PROVE  PlanIsSound
BY OthersKeep, MatchesAreFit, DaysAreFit, OneReadingIsOne, PhonesTold DEF PlanIsSound

\* The line, the chairs and the history are of their kinds: a barber takes one chair and a party comes once.
THEOREM BoardTyped == BoardSpec => []BoardTypeOK
<1>1. BoardInit => BoardTypeOK
  <2>1. Lines \subseteq Seq(Party) /\ Floors \subseteq [Barber -> Chair] /\ LastMinute \in Nat
    BY FloorBoardConstants
  <2>2. Histories \subseteq Seq([barber: Barber, work: Works, minutes: Int])
    BY FloorBoardConstants
  <2> SUFFICES ASSUME BoardInit PROVE BoardTypeOK
    OBVIOUS
  <2>3. line \in Seq(Party) /\ floor \in [Barber -> Chair]
    BY <2>1 DEF BoardInit
  <2>4. history \in Seq([barber: Barber, work: Works, minutes: Int])
    BY <2>2 DEF BoardInit
  <2>5. minute \in 0 .. LastMinute
    BY <2>1 DEF BoardInit
  <2> QED BY <2>3, <2>4, <2>5 DEF BoardTypeOK
<1>2. BoardTypeOK /\ [BoardNext]_boardVars => BoardTypeOK'
  BY BoardStaysTyped DEF boardVars, BoardTypeOK
<1> QED BY <1>1, <1>2, PTL DEF BoardSpec

\* Whatever the line, the chairs, the catalog, the history and the minute: an appointment that is moved up
\* reorders nobody else, no barber is recommended to two parties nor left free while a party is ready, one
\* barber is never planned in two places at once, one odd reading moves a trusted median no further than
\* the readings lie apart, and the phones agree with each other and with the wait a newcomer is told
\* (appointment-sla.ts, best-match.ts, barber-timeline.ts, service-performance.ts, queue.service publicStatus).
THEOREM BoardPlansAsItCan == BoardSpec => []PlanIsSound
<1>1. BoardTypeOK => PlanIsSound
  BY BoardPlans
<1> QED BY <1>1, BoardTyped, PTL

-----------------------------------------------------------------------------
(***************************************************************************)
(* Reports.  A run has read sales of its period and what was paid back of  *)
(* them; on a server that keeps UTC every sale of a period is told apart   *)
(* by its day, its barber, its code and its lines, so the tables' sums are *)
(* one.                                                                    *)
(***************************************************************************)

RateRow == [pay: Pays, from: Int, to: Int \cup {Unsold}]

\* What a run has read so far: sales of its period, and what was paid back of them.
RunReads ==
  /\ run.step \in {"idle", "refunds", "rates"}
  /\ run.step # "idle" => run.period \in Periods /\ run.sales \in SUBSET SalesOf(run.period)
  /\ run.step = "rates" => run.back \in [run.sales -> Nat]

ReportInv ==
  /\ west \in Nat /\ clock \in Nat
  /\ created \in [Sales -> Nat \cup {Unsold}]
  /\ sold \subseteq Sales /\ \A s \in sold : created[s] \in Nat
  /\ refunded \in [Sales -> Nat]
  /\ payRates \in [Barbers -> Seq(RateRow)] /\ \A b \in Barbers : Len(payRates[b]) > 0
  /\ RunReads
  /\ \A r \in logged : r.period \in Periods /\ r.sales \subseteq SalesOf(r.period)

-----------------------------------------------------------------------------
(* A sale and its items. *)

Prices == [i \in Items |-> Item[i].price]

LEMMA ItemTypes ==
  ASSUME NEW X, X \subseteq Items
  PROVE  /\ IsFiniteSet(X)
         /\ \A i \in X : /\ Item[i].price \in Nat /\ Prices[i] = Item[i].price /\ Item[i].sale \in Sales
                         /\ Item[i].type \in {"service", "retail"}
         /\ SumFunction([i \in X |-> Item[i].price]) = SumFunctionOnSet(Prices, X)
         /\ SumFunctionOnSet(Prices, X) \in Nat
<1>1. IsFiniteSet(X)
  BY ReportConstants, FS_Subset
<1>2. \A i \in X : /\ Item[i].price \in Nat /\ Prices[i] = Item[i].price /\ Item[i].sale \in Sales
                   /\ Item[i].type \in {"service", "retail"}
  <2> SUFFICES ASSUME NEW i \in X
               PROVE  /\ Item[i].price \in Nat /\ Prices[i] = Item[i].price /\ Item[i].sale \in Sales
                      /\ Item[i].type \in {"service", "retail"}
    OBVIOUS
  <2>1. i \in Items /\ Item[i] \in Line
    BY ReportConstants
  <2> QED BY <2>1 DEF Line, Prices
<1>3. SumFunction([i \in X |-> Item[i].price]) = SumFunctionOnSet(Prices, X)
  BY <1>1, <1>2, SumFunctionIs
<1>4. SumFunctionOnSet(Prices, X) \in Nat
  BY <1>1, <1>2, SumTypes
<1> QED BY <1>1, <1>2, <1>3, <1>4

LEMMA BilledIs ==
  ASSUME NEW s, NEW type
  PROVE  Billed(s, type) = SumFunctionOnSet(Prices, ItemsOf(s, type)) /\ Billed(s, type) \in Nat
<1>1. ItemsOf(s, type) \subseteq Items
  BY DEF ItemsOf
<1> QED BY <1>1, ItemTypes DEF Billed

LEMMA TotalIs ==
  ASSUME NEW s \in Sales
  PROVE  /\ Total(s) \in Nat /\ Ticket[s].discount \in Nat /\ Ticket[s].tip \in Nat
<1>1. /\ Ticket[s].discount \in Nat /\ Ticket[s].tax \in Nat /\ Ticket[s].tip \in Nat
      /\ Ticket[s].discount <= Billed(s, "service") + Billed(s, "retail")
  BY ReportConstants, DiscountsFit
<1>2. Billed(s, "service") \in Nat /\ Billed(s, "retail") \in Nat
  BY BilledIs
<1> QED BY <1>1, <1>2 DEF Total

-----------------------------------------------------------------------------
(* The invariant. *)

LEMMA ReportStarts == ReportInit => ReportInv
<1> SUFFICES ASSUME ReportInit PROVE ReportInv
  OBVIOUS
<1>1. west \in Nat /\ clock \in Nat
  BY ReportConstants DEF ReportInit
<1>2. \A b \in Barbers : payRates[b] \in Seq(RateRow) /\ Len(payRates[b]) > 0
  <2> SUFFICES ASSUME NEW b \in Barbers PROVE payRates[b] \in Seq(RateRow) /\ Len(payRates[b]) > 0
    OBVIOUS
  <2>1. payRates[b] = <<[pay |-> Hired[b], from |-> -1, to |-> Unsold]>>
    BY DEF ReportInit
  <2>2. [pay |-> Hired[b], from |-> -1, to |-> Unsold] \in RateRow
    BY ReportConstants DEF RateRow
  <2> QED BY <2>1, <2>2
<1>3. payRates \in [Barbers -> Seq(RateRow)]
  BY <1>2 DEF ReportInit
<1>4. RunReads
  BY DEF ReportInit, Idle, RunReads
<1> QED BY <1>1, <1>2, <1>3, <1>4 DEF ReportInit, ReportInv

\* A sale that has committed stays in the periods it is in.
LEMMA SalesStay ==
  ASSUME UNCHANGED west, sold \subseteq sold', \A s \in sold : created'[s] = created[s]
  PROVE  \A p : SalesOf(p) \subseteq SalesOf(p)'
BY DEF SalesOf, InRange, Start

LEMMA RunStays ==
  ASSUME RunReads, UNCHANGED run, \A p : SalesOf(p) \subseteq SalesOf(p)'
  PROVE  RunReads'
<1>1. \A p : SalesOf(p)' = SalesOf(p)'
  OBVIOUS
<1> QED BY DEF RunReads

LEMMA ReportStep == ReportInv /\ [ReportNext]_reportVars => ReportInv'
<1> SUFFICES ASSUME ReportInv, [ReportNext]_reportVars
             PROVE  ReportInv'
  OBVIOUS
<1>1. CASE ClockTick
  <2>1. clock' = clock + 1 /\ UNCHANGED <<west, created, sold, refunded, payRates, run, logged>>
    BY <1>1 DEF ClockTick
  <2>2. \A p : SalesOf(p)' = SalesOf(p)
    BY <2>1 DEF SalesOf, InRange, Start
  <2> QED BY <2>1, <2>2 DEF ReportInv, RunReads
<1>2. ASSUME NEW s \in Sales, BeginSale(s)
      PROVE  ReportInv'
  <2>1. /\ created[s] = Unsold /\ created' = [created EXCEPT ![s] = clock]
        /\ UNCHANGED <<west, clock, sold, refunded, payRates, run, logged>>
    BY <1>2 DEF BeginSale
  <2>2. s \notin sold
    BY <2>1, ReportConstants DEF ReportInv
  <2>3. \A x \in sold : created'[x] = created[x]
    BY <2>1, <2>2 DEF ReportInv
  <2>4. \A p : SalesOf(p) \subseteq SalesOf(p)'
    BY <2>1, <2>3, SalesStay
  <2>5. RunReads'
    BY <2>1, <2>4, RunStays DEF ReportInv
  <2>6. created' \in [Sales -> Nat \cup {Unsold}] /\ \A x \in sold' : created'[x] \in Nat
    BY <2>1, <2>3 DEF ReportInv
  <2>7. \A r \in logged' : r.period \in Periods /\ r.sales \subseteq SalesOf(r.period)'
    BY <2>1, <2>4 DEF ReportInv
  <2> QED BY <2>1, <2>5, <2>6, <2>7 DEF ReportInv
<1>3. ASSUME NEW s \in Sales, CommitSale(s)
      PROVE  ReportInv'
  <2>1. /\ created[s] # Unsold /\ sold' = sold \cup {s}
        /\ UNCHANGED <<west, clock, created, refunded, payRates, run, logged>>
    BY <1>3 DEF CommitSale
  <2>2. \A p : SalesOf(p) \subseteq SalesOf(p)'
    BY <2>1, SalesStay
  <2>3. RunReads'
    BY <2>1, <2>2, RunStays DEF ReportInv
  <2>4. sold' \subseteq Sales /\ \A x \in sold' : created'[x] \in Nat
    BY <2>1 DEF ReportInv
  <2>5. \A r \in logged' : r.period \in Periods /\ r.sales \subseteq SalesOf(r.period)'
    BY <2>1, <2>2 DEF ReportInv
  <2> QED BY <2>1, <2>3, <2>4, <2>5 DEF ReportInv
<1>4. ASSUME NEW s \in Sales, PayBack(s)
      PROVE  ReportInv'
  <2>1. /\ refunded' = [refunded EXCEPT ![s] = Total(s)]
        /\ UNCHANGED <<west, clock, created, sold, payRates, run, logged>>
    BY <1>4 DEF PayBack
  <2>2. \A p : SalesOf(p) \subseteq SalesOf(p)'
    BY <2>1, SalesStay
  <2>3. RunReads'
    BY <2>1, <2>2, RunStays DEF ReportInv
  <2>4. refunded' \in [Sales -> Nat]
    BY <2>1, TotalIs DEF ReportInv
  <2>5. \A r \in logged' : r.period \in Periods /\ r.sales \subseteq SalesOf(r.period)'
    BY <2>1, <2>2 DEF ReportInv
  <2> QED BY <2>1, <2>3, <2>4, <2>5 DEF ReportInv
<1>5. ASSUME NEW b \in Barbers, NEW pay \in Pays, ChangeRate(b, pay)
      PROVE  ReportInv'
  <2> DEFINE n == Len(payRates[b])
             old == [payRates[b] EXCEPT ![n].to = clock]
             new == [pay |-> pay, from |-> clock, to |-> Unsold]
  <2>1. /\ payRates' = [payRates EXCEPT ![b] = Append(old, new)]
        /\ UNCHANGED <<west, clock, created, sold, refunded, run, logged>>
    BY <1>5 DEF ChangeRate, ReportInv
  <2>2. \A p : SalesOf(p) \subseteq SalesOf(p)'
    BY <2>1, SalesStay
  <2>3. RunReads'
    BY <2>1, <2>2, RunStays DEF ReportInv
  <2>4. payRates[b] \in Seq(RateRow) /\ n \in Nat /\ n > 0 /\ clock \in Nat
    BY DEF ReportInv
  <2>5. new \in RateRow
    BY <2>4 DEF RateRow
  <2>6. old \in Seq(RateRow)
    <3>1. payRates[b][n] \in RateRow
      BY <2>4
    <3>2. [payRates[b][n] EXCEPT !.to = clock] \in RateRow
      BY <2>4, <3>1 DEF RateRow
    <3> QED BY <2>4, <3>2
  <2>7. Append(old, new) \in Seq(RateRow) /\ Len(Append(old, new)) > 0
    BY <2>5, <2>6
  <2>8. payRates' \in [Barbers -> Seq(RateRow)] /\ \A x \in Barbers : Len(payRates'[x]) > 0
    <3> HIDE DEF old, new
    <3> QED BY <2>1, <2>7 DEF ReportInv
  <2>9. \A r \in logged' : r.period \in Periods /\ r.sales \subseteq SalesOf(r.period)'
    BY <2>1, <2>2 DEF ReportInv
  <2> HIDE DEF old, new, n
  <2> QED BY <2>1, <2>3, <2>8, <2>9 DEF ReportInv
<1>6. ASSUME NEW p \in Periods, ReadSales(p)
      PROVE  ReportInv'
  <2>1. /\ run' = [step |-> "refunds", period |-> p, sales |-> SalesOf(p)]
        /\ UNCHANGED <<west, clock, created, sold, refunded, payRates, logged>>
    BY <1>6 DEF ReadSales
  <2>2. \A q : SalesOf(q)' = SalesOf(q)
    BY <2>1 DEF SalesOf, InRange, Start
  <2>3. RunReads'
    BY <2>1, <2>2 DEF RunReads
  <2> QED BY <2>1, <2>2, <2>3 DEF ReportInv
<1>7. CASE ReadRefunds
  <2>1. /\ run.step = "refunds"
        /\ run' = [step |-> "rates", period |-> run.period, sales |-> run.sales,
                   back |-> [s \in run.sales |-> refunded[s]]]
        /\ UNCHANGED <<west, clock, created, sold, refunded, payRates, logged>>
    BY <1>7 DEF ReadRefunds
  <2>2. \A q : SalesOf(q)' = SalesOf(q)
    BY <2>1 DEF SalesOf, InRange, Start
  <2>3. run.period \in Periods /\ run.sales \in SUBSET SalesOf(run.period) /\ SalesOf(run.period) \subseteq Sales
    BY <2>1 DEF ReportInv, RunReads, SalesOf
  <2>4. [s \in run.sales |-> refunded[s]] \in [run.sales -> Nat]
    BY <2>3 DEF ReportInv
  <2>5. RunReads'
    BY <2>1, <2>2, <2>3, <2>4 DEF RunReads
  <2> QED BY <2>1, <2>2, <2>5 DEF ReportInv
<1>8. CASE LogRun
  <2>1. /\ run.step = "rates" /\ run' = Idle
        /\ logged' = logged \cup {[period |-> run.period, sales |-> run.sales]}
        /\ UNCHANGED <<west, clock, created, sold, refunded, payRates>>
    BY <1>8 DEF LogRun
  <2>2. \A q : SalesOf(q)' = SalesOf(q)
    BY <2>1 DEF SalesOf, InRange, Start
  <2>3. RunReads'
    BY <2>1 DEF RunReads, Idle
  <2>4. run.period \in Periods /\ run.sales \subseteq SalesOf(run.period)
    BY <2>1 DEF ReportInv, RunReads
  <2>5. \A r \in logged' : r.period \in Periods /\ r.sales \subseteq SalesOf(r.period)'
    BY <2>1, <2>2, <2>4 DEF ReportInv
  <2> QED BY <2>1, <2>3, <2>5 DEF ReportInv
<1>9. CASE UNCHANGED reportVars
  <2>1. \A q : SalesOf(q)' = SalesOf(q)
    BY <1>9 DEF reportVars, SalesOf, InRange, Start
  <2> QED BY <1>9, <2>1 DEF reportVars, ReportInv, RunReads
<1> QED BY <1>1, <1>2, <1>3, <1>4, <1>5, <1>6, <1>7, <1>8, <1>9 DEF ReportNext

-----------------------------------------------------------------------------
(* Days and periods. *)

LEMMA PeriodInts ==
  ASSUME ReportInv, NEW p \in Periods
  PROVE  /\ p[1] \in Int /\ p[2] \in Int /\ DayLength \in Nat \ {0}
         /\ Start(p[1]) = p[1] * DayLength + west /\ Start(p[1]) \in Int
         /\ Start(p[2]) = p[2] * DayLength + west /\ Start(p[2]) \in Int
<1>1. p[1] \in Int /\ p[2] \in Int /\ DayLength \in Nat \ {0}
  BY ReportConstants
<1> QED BY <1>1 DEF ReportInv, Start

LEMMA PeriodSales ==
  ASSUME ReportInv, NEW p
  PROVE  /\ SalesOf(p) \subseteq Sales /\ IsFiniteSet(SalesOf(p))
         /\ \A s \in SalesOf(p) : created[s] \in Nat /\ InRange(p, s)
<1>1. SalesOf(p) \subseteq Sales /\ \A s \in SalesOf(p) : created[s] \in Nat /\ InRange(p, s)
  BY DEF ReportInv, SalesOf
<1> QED BY <1>1, ReportConstants, FS_Subset

LEMMA DaysAreFinite ==
  ASSUME ReportInv, NEW p \in Periods
  PROVE  IsFiniteSet(DayKeys(p)) /\ DayKeys(p) \subseteq Int
<1> DEFINE n == p[2] - p[1]
           day == [k \in 0 .. n |-> DayKey(Start(p[1]) + k * DayLength)]
<1>1. n \in Int /\ DayKeys(p) = ImageOf(day, 0 .. n)
  BY PeriodInts DEF DayKeys, ImageOf
<1>2. IsFiniteSet(0 .. n)
  BY <1>1, FS_Interval
<1>3. IsFiniteSet(ImageOf(day, 0 .. n))
  BY <1>2, ImageIsSmaller
<1>4. \A k \in 0 .. n : DayKey(Start(p[1]) + k * DayLength) \in Int
  <2> SUFFICES ASSUME NEW k \in 0 .. n PROVE DayKey(Start(p[1]) + k * DayLength) \in Int
    OBVIOUS
  <2>1. Start(p[1]) + k * DayLength \in Int
    BY <1>1, PeriodInts
  <2> QED BY <2>1, PeriodInts, DivIs DEF DayKey
<1>5. DayKeys(p) \subseteq Int
  BY <1>4 DEF DayKeys
<1> QED BY <1>1, <1>3, <1>5, Zenon

\* On a server that keeps UTC the days of a report are the days of its sales.
LEMMA DaysAre ==
  ASSUME ReportInv, west = 0, NEW p \in Periods
  PROVE  /\ DayKeys(p) = p[1] .. p[2]
         /\ \A s \in SalesOf(p) : DayKey(created[s]) \in DayKeys(p)
<1>1. ASSUME NEW k \in Int PROVE DayKey(Start(p[1]) + k * DayLength) = p[1] + k
  <2>1. p[1] + k \in Int /\ Start(p[1]) + k * DayLength = (p[1] + k) * DayLength
    BY PeriodInts
  <2> QED BY <2>1, PeriodInts, DivExact DEF DayKey
<1>2. DayKeys(p) = p[1] .. p[2]
  <2>1. DayKeys(p) = {p[1] + k : k \in 0 .. p[2] - p[1]}
    BY <1>1, PeriodInts DEF DayKeys
  <2>2. ASSUME NEW d \in p[1] .. p[2] PROVE d \in {p[1] + k : k \in 0 .. p[2] - p[1]}
    <3>1. d - p[1] \in 0 .. p[2] - p[1] /\ d = p[1] + (d - p[1])
      BY PeriodInts
    <3> QED BY <3>1
  <2>3. ASSUME NEW k \in 0 .. p[2] - p[1] PROVE p[1] + k \in p[1] .. p[2]
    BY PeriodInts
  <2> QED BY <2>1, <2>2, <2>3
<1>3. ASSUME NEW s \in SalesOf(p) PROVE DayKey(created[s]) \in p[1] .. p[2]
  <2>1. created[s] \in Nat /\ p[1] * DayLength <= created[s] /\ created[s] < p[2] * DayLength + DayLength
    BY PeriodSales, PeriodInts DEF InRange
  <2>2. created[s] \in Int /\ p[1] \in Int /\ p[2] \in Int /\ DayLength \in Nat \ {0}
    BY <2>1, PeriodInts
  <2>3. created[s] \div DayLength \in p[1] .. p[2]
    BY <2>1, <2>2, DivIn
  <2> QED BY <2>3 DEF DayKey
<1> QED BY <1>2, <1>3

\* No sale is paid twice.
LEMMA PaidOnce == ReportInv => PaidInOnePeriod
<1> SUFFICES ASSUME ReportInv, NEW r \in logged, NEW t \in logged, r.period[2] < t.period[1],
                    NEW s \in r.sales, s \in t.sales
             PROVE  FALSE
  BY DEF PaidInOnePeriod
<1>1. /\ r.period \in Periods /\ t.period \in Periods /\ s \in SalesOf(r.period) /\ s \in SalesOf(t.period)
  BY DEF ReportInv
<1>2. /\ created[s] \in Nat /\ created[s] < Start(r.period[2]) + DayLength /\ Start(t.period[1]) <= created[s]
  BY <1>1, PeriodSales DEF InRange
<1>3. (r.period[2] + 1) * DayLength <= t.period[1] * DayLength
  BY <1>1, PeriodInts, TimesKeepsOrder
<1>4. Start(r.period[2]) + DayLength <= Start(t.period[1])
  <2>1. /\ r.period[2] \in Int /\ t.period[1] \in Int /\ DayLength \in Nat /\ west \in Nat
        /\ Start(r.period[2]) = r.period[2] * DayLength + west
        /\ Start(t.period[1]) = t.period[1] * DayLength + west
    BY <1>1, PeriodInts DEF ReportInv
  <2>2. (r.period[2] + 1) * DayLength = r.period[2] * DayLength + DayLength
    BY <2>1
  <2> QED BY <1>3, <2>1, <2>2
<1> QED BY <1>1, <1>2, <1>4, PeriodInts

-----------------------------------------------------------------------------
(* Nobody is new twice. *)

LEMMA SomeFirst ==
  ASSUME ReportInv, NEW S \in SUBSET sold, S # {}
  PROVE  \E s \in S : (\A x \in S : created[s] <= created[x]) /\ Min({created[x] : x \in S}) = created[s]
<1> DEFINE T == {created[x] : x \in S}
<1>1. T \subseteq Nat /\ T # {}
  BY DEF ReportInv
<1>2. PICK m \in T : \A n \in T : m <= n
  <2> HIDE DEF T
  <2> QED BY <1>1, LeastNat
<1>3. Min(T) \in T /\ \A n \in T : Min(T) <= n
  BY <1>2 DEF Min
<1>4. \A n \in T : n \in Nat
  BY <1>1
<1> QED BY <1>3, <1>4

\* What has been sold to a client by the end of a period.
SoldTo(p, c) == {x \in sold : Ticket[x].client = c /\ created[x] < Start(p[2]) + DayLength}

LEMMA NewIsFirst ==
  ASSUME ReportInv, NEW p \in Periods, NEW d \in DayKeys(p), NEW c \in NewVsReturning(p)[d].new
  PROVE  \E s \in SoldTo(p, c) : DayKey(created[s]) = d /\ \A x \in SoldTo(p, c) : created[s] <= created[x]
<1>1. /\ c \in {Ticket[s].client : s \in SalesOn(p, d)} /\ DayKey(FirstSeen(p, c)) = d
  BY DEF NewVsReturning
<1>2. PICK y \in SalesOn(p, d) : Ticket[y].client = c
  BY <1>1
<1>3. y \in SoldTo(p, c) /\ SoldTo(p, c) \in SUBSET sold
  BY <1>2 DEF SalesOn, SalesOf, InRange, SoldTo
<1>4. FirstSeen(p, c) = Min({created[x] : x \in SoldTo(p, c)})
  BY DEF FirstSeen, SoldTo
<1>5. PICK s \in SoldTo(p, c) : /\ \A x \in SoldTo(p, c) : created[s] <= created[x]
                                /\ Min({created[x] : x \in SoldTo(p, c)}) = created[s]
  BY <1>3, SomeFirst
<1>6. DayKey(created[s]) = d
  BY <1>1, <1>4, <1>5
<1> QED BY <1>5, <1>6

LEMMA NobodyNewTwice == ReportInv => NewOnlyOnce
<1> SUFFICES ASSUME ReportInv, NEW p \in Periods, NEW q \in Periods, NEW d \in DayKeys(p), NEW e \in DayKeys(q),
                    NEW c \in NewVsReturning(p)[d].new, c \in NewVsReturning(q)[e].new
             PROVE  d = e
  BY DEF NewOnlyOnce
<1>1. PICK s \in SoldTo(p, c) : DayKey(created[s]) = d /\ \A x \in SoldTo(p, c) : created[s] <= created[x]
  BY NewIsFirst
<1>2. PICK t \in SoldTo(q, c) : DayKey(created[t]) = e /\ \A x \in SoldTo(q, c) : created[t] <= created[x]
  BY NewIsFirst
<1>3. /\ s \in sold /\ t \in sold /\ Ticket[s].client = c /\ Ticket[t].client = c
      /\ created[s] < Start(p[2]) + DayLength /\ created[t] < Start(q[2]) + DayLength
      /\ created[s] \in Nat /\ created[t] \in Nat
  BY DEF SoldTo, ReportInv
<1>4. /\ Start(p[2]) + DayLength \in Int /\ Start(q[2]) + DayLength \in Int
  BY PeriodInts
<1>5. CASE Start(p[2]) <= Start(q[2])
  <2>1. s \in SoldTo(q, c)
    BY <1>3, <1>4, <1>5, PeriodInts DEF SoldTo
  <2>2. created[t] <= created[s]
    BY <1>2, <2>1
  <2>3. t \in SoldTo(p, c)
    BY <1>3, <1>4, <2>2 DEF SoldTo
  <2> QED BY <1>1, <1>2, <1>3, <2>2, <2>3
<1>6. CASE Start(q[2]) <= Start(p[2])
  <2>1. t \in SoldTo(p, c)
    BY <1>3, <1>4, <1>6, PeriodInts DEF SoldTo
  <2>2. created[s] <= created[t]
    BY <1>1, <2>1
  <2>3. s \in SoldTo(q, c)
    BY <1>3, <1>4, <2>2 DEF SoldTo
  <2> QED BY <1>1, <1>2, <1>3, <2>2, <2>3
<1> QED BY <1>5, <1>6, PeriodInts

-----------------------------------------------------------------------------
(* The pay review. *)

LEMMA RatesFlagged ==
  ASSUME ReportInv, NEW p \in Periods, NEW b \in Barbers, Cardinality(RatesIn(p, b, clock)) > 1
  PROVE  Cardinality(Overlapping(p, b)) > 1
<1>1. RatesIn(p, b, clock) \subseteq Overlapping(p, b)
  <2> SUFFICES ASSUME NEW k \in RatesIn(p, b, clock) PROVE k \in Overlapping(p, b)
    OBVIOUS
  <2> DEFINE last == Min({Start(p[2]) + DayLength - 1, clock})
  <2>1. PICK t \in Start(p[1]) .. last :
          payRates[b][k].from <= t /\ (payRates[b][k].to = Unsold \/ t < payRates[b][k].to)
    BY DEF RatesIn
  <2>2. k \in DOMAIN payRates[b] /\ payRates[b][k] \in RateRow
    BY DEF RatesIn, ReportInv
  <2>3. Start(p[2]) + DayLength - 1 \in Int /\ clock \in Int /\ Start(p[1]) \in Int
    BY PeriodInts DEF ReportInv
  <2>4. last \in Int /\ last <= Start(p[2]) + DayLength - 1
    <3>1. \E m \in {Start(p[2]) + DayLength - 1, clock} :
            \A n \in {Start(p[2]) + DayLength - 1, clock} : m <= n
      BY <2>3
    <3> QED BY <2>3, <3>1 DEF Min
  <2> HIDE DEF last
  <2>5. payRates[b][k].from \in Int /\ (payRates[b][k].to = Unsold \/ payRates[b][k].to \in Int)
    BY <2>2 DEF RateRow
  <2>6. t \in Int /\ Start(p[1]) <= t /\ t < Start(p[2]) + DayLength
    BY <2>1, <2>3, <2>4, PeriodInts
  <2>7. payRates[b][k].from < Start(p[2]) + DayLength /\ (payRates[b][k].to = Unsold \/ payRates[b][k].to >= Start(p[1]))
    BY <2>1, <2>3, <2>5, <2>6, PeriodInts
  <2> QED BY <2>2, <2>7 DEF Overlapping
<1>2. IsFiniteSet(Overlapping(p, b))
  <2>1. IsFiniteSet(1 .. Len(payRates[b])) /\ DOMAIN payRates[b] = 1 .. Len(payRates[b])
    BY FS_Interval DEF ReportInv
  <2>2. Overlapping(p, b) \subseteq 1 .. Len(payRates[b])
    BY <2>1 DEF Overlapping
  <2> QED BY <2>1, <2>2, FS_Subset
<1>3. /\ Cardinality(RatesIn(p, b, clock)) <= Cardinality(Overlapping(p, b))
      /\ IsFiniteSet(RatesIn(p, b, clock))
  BY <1>1, <1>2, FS_Subset
<1>4. Cardinality(RatesIn(p, b, clock)) \in Nat /\ Cardinality(Overlapping(p, b)) \in Nat
  BY <1>2, <1>3, FS_CardinalityType
<1> QED BY <1>3, <1>4

\* The rate applied is one that was set, or none.
LEMMA PayIs ==
  ASSUME ReportInv, NEW p \in Periods, NEW b \in Barbers, NEW S, NEW back
  PROVE  StaffRow(p, b, S, back).pay \in [model: Models \cup {"not_configured"}, figure: Nat]
<1> DEFINE inForce == Overlapping(p, b)
           n == Len(payRates[b])
<1>1. StaffRow(p, b, S, back).pay = IF inForce = {} THEN [model |-> "not_configured", figure |-> 0]
                                    ELSE payRates[b][Max(inForce)].pay
  BY DEF StaffRow
<1>2. CASE inForce = {}
  BY <1>1, <1>2
<1>3. CASE inForce # {}
  <2>1. payRates[b] \in Seq(RateRow) /\ n \in Nat /\ DOMAIN payRates[b] = 1 .. n
    BY DEF ReportInv
  <2>2. inForce \in SUBSET (0 .. n) /\ inForce \subseteq 1 .. n
    BY <2>1 DEF Overlapping
  <2> HIDE DEF inForce, n
  <2>3. \E m \in inForce : \A k \in inForce : k <= m
    BY <1>3, <2>1, <2>2, GreatestNat
  <2>4. Max(inForce) \in inForce
    <3>1. \E m \in inForce : \A k \in inForce : m >= k
      BY <2>1, <2>2, <2>3
    <3> QED BY <3>1 DEF Max
  <2>5. ASSUME NEW m \in inForce PROVE payRates[b][m] \in RateRow
    BY <2>1, <2>2 DEF n
  <2>6. PICK m \in inForce : StaffRow(p, b, S, back).pay = payRates[b][m].pay
    BY <1>1, <1>3, <2>4
  <2> QED BY <2>5, <2>6, ReportConstants DEF RateRow
<1> QED BY <1>2, <1>3

LEMMA NatSum ==
  ASSUME NEW S, IsFiniteSet(S), NEW f, DOMAIN f = S, \A x \in S : f[x] \in Nat
  PROVE  SumFunction(f) \in Nat
<1>1. SumFunction(f) = SumFunctionOnSet(f, S)
  BY SumFunctionIs
<1>2. SumFunctionOnSet(f, S) \in Nat
  BY SumTypes
<1> QED BY <1>1, <1>2

LEMMA CreditedIs ==
  ASSUME NEW s, NEW type
  PROVE  Credited(s, type) \in Nat
<1> DEFINE X == {i \in ItemsOf(s, type) : PremiumToStaff \/ Item[i].name # Premium}
<1>1. X \subseteq Items /\ Credited(s, type) = SumFunction([i \in X |-> Item[i].price])
  BY DEF ItemsOf, Credited
<1> HIDE DEF X
<1> QED BY <1>1, ItemTypes

LEMMA HoursAre ==
  ASSUME ReportInv, NEW p \in Periods, NEW b \in Barbers
  PROVE  ScheduledHours(p, b) \in Int /\ Cardinality(DayKeys(p)) \in Nat
<1> DEFINE hours == [d \in DayKeys(p) |-> IF d \in DOMAIN Excepted[b] THEN Excepted[b][d] ELSE Weekly[b][d % 7]]
<1>1. IsFiniteSet(DayKeys(p)) /\ DayKeys(p) \subseteq Int
  BY DaysAreFinite
<1>2. ASSUME NEW d \in DayKeys(p) PROVE hours[d] \in Int
  <2>1. d % 7 \in 0 .. 6
    BY <1>1
  <2>2. Weekly[b] \in [0 .. 6 -> Int] /\ \A e \in DOMAIN Excepted[b] : Excepted[b][e] \in Int
    BY ReportConstants
  <2>3. Weekly[b][d % 7] \in Int
    BY <2>1, <2>2
  <2>4. d \in DOMAIN Excepted[b] => Excepted[b][d] \in Int
    BY <2>2
  <2> QED BY <2>3, <2>4
<1>3. ScheduledHours(p, b) = SumFunction(hours) /\ DOMAIN hours = DayKeys(p)
  BY DEF ScheduledHours
<1> HIDE DEF hours
<1>4. SumFunction(hours) = SumFunctionOnSet(hours, DayKeys(p)) /\ SumFunctionOnSet(hours, DayKeys(p)) \in Int
  BY <1>1, <1>2, <1>3, SumFunctionIs, SumTypes
<1> QED BY <1>1, <1>3, <1>4, FS_CardinalityType

LEMMA BaseIs ==
  ASSUME ReportInv, NEW p \in Periods, NEW b \in Barbers, NEW net \in Nat,
         NEW pay \in [model: Models \cup {"not_configured"}, figure: Nat]
  PROVE  /\ Base(p, b, pay, net) \in Int /\ BoothRent(p, pay) \in Int
         /\ pay.model = "commission" /\ pay.figure <= 100 => Base(p, b, pay, net) \in 0 .. net
<1> DEFINE n == Cardinality(DayKeys(p))
           hours == ScheduledHours(p, b)
           figure == pay.figure
<1>1. n \in Nat /\ hours \in Int /\ figure \in Nat
  BY HoursAre
<1>2. /\ Base(p, b, pay, net) = CASE pay.model = "commission" -> (net * figure) \div 100
                                   [] pay.model = "hourly" -> figure * hours
                                   [] pay.model = "salary" -> (figure * n) \div 365
                                   [] OTHER -> 0
      /\ BoothRent(p, pay) = (figure * n) \div 7
  BY DEF Base, BoothRent
<1> HIDE DEF n, hours, figure
<1>3. figure * n \in Int /\ net * figure \in Int /\ figure * hours \in Int
  BY <1>1
<1>4. (net * figure) \div 100 \in Int /\ (figure * n) \div 365 \in Int /\ (figure * n) \div 7 \in Int
  BY <1>3, DivIs
<1>5. ASSUME figure <= 100 PROVE (net * figure) \div 100 \in 0 .. net
  <2>1. (figure * net) \div 100 \in 0 .. net
    BY <1>1, <1>5, ShareFits
  <2>2. figure * net = net * figure
    BY <1>1
  <2> QED BY <2>1, <2>2
<1> QED BY <1>2, <1>3, <1>4, <1>5 DEF figure

LEMMA RowIs ==
  ASSUME ReportInv, NEW p \in Periods, NEW b \in Barbers, NEW S \in SUBSET Sales, NEW back \in [S -> Nat],
         NEW row, row = StaffRow(p, b, S, back)
  PROVE  /\ row.netRevenue \in 0 .. row.gross /\ row.estimatedPay \in Int
         /\ row.pay.model = "commission" /\ row.pay.figure <= 100 => row.basePay <= row.netRevenue
         /\ row.changedMidPeriod = (Cardinality(Overlapping(p, b)) > 1)
<1> DEFINE mine     == {s \in S : Ticket[s].barber = b}
           services == SumFunction([s \in mine |-> Credited(s, "service")])
           products == SumFunction([s \in mine |-> Credited(s, "retail")])
           paid     == SumFunction([s \in mine |-> back[s]])
           tips     == SumFunction([s \in mine |-> Ticket[s].tip])
           gross    == services + products
           net      == gross - Min({gross, paid})
           share    == IF gross = 0 THEN 0 ELSE (services * net) \div gross
           pay      == row.pay
<1>1. mine \subseteq Sales /\ IsFiniteSet(mine) /\ mine \subseteq S
  BY ReportConstants, FS_Subset
<1>2. pay \in [model: Models \cup {"not_configured"}, figure: Nat]
  BY PayIs
<1>3. services \in Nat /\ products \in Nat /\ paid \in Nat /\ tips \in Nat
  <2>1. \A s \in mine : back[s] \in Nat /\ Ticket[s].tip \in Nat
    BY <1>1, TotalIs
  <2> HIDE DEF mine
  <2>2. services \in Nat
    BY <1>1, CreditedIs, NatSum
  <2>3. products \in Nat
    BY <1>1, CreditedIs, NatSum
  <2>4. paid \in Nat
    BY <1>1, <2>1, NatSum
  <2>5. tips \in Nat
    BY <1>1, <2>1, NatSum
  <2> QED BY <2>2, <2>3, <2>4, <2>5
<1>4. /\ row.netRevenue = net /\ row.gross = gross /\ row.basePay = Base(p, b, pay, share)
      /\ row.estimatedPay = CASE pay.model = "not_configured" -> 0
                              [] pay.model = "booth_rent" -> net + tips - BoothRent(p, pay)
                              [] OTHER -> row.basePay + tips
  BY DEF StaffRow
<1>5. row.changedMidPeriod = (Cardinality(Overlapping(p, b)) > 1)
  BY DEF StaffRow
<1> HIDE DEF mine, services, products, paid, tips
<1>6. net \in 0 .. gross /\ gross \in Nat
  <2>1. \E m \in {gross, paid} : \A k \in {gross, paid} : m <= k
    BY <1>3
  <2>2. Min({gross, paid}) \in {gross, paid} /\ Min({gross, paid}) <= gross
    BY <2>1 DEF Min
  <2> QED BY <1>3, <2>2
<1> HIDE DEF net
<1>7. share \in 0 .. net
  <2>1. CASE gross = 0
    BY <1>6, <2>1
  <2>2. CASE gross # 0
    <3>1. services <= gross /\ gross \in Nat \ {0} /\ net \in Nat
      BY <1>3, <1>6, <2>2
    <3> HIDE DEF gross
    <3>2. (services * net) \div gross \in 0 .. net
      BY <1>3, <3>1, ShareFits
    <3> QED BY <2>2, <3>2
  <2> QED BY <2>1, <2>2
<1> HIDE DEF share, gross, pay
<1>8. /\ share \in Nat /\ net \in Nat
      /\ Base(p, b, pay, share) \in Int /\ BoothRent(p, pay) \in Int
      /\ pay.model = "commission" /\ pay.figure <= 100 => Base(p, b, pay, share) \in 0 .. share
  <2>1. share \in Nat /\ net \in Nat
    BY <1>6, <1>7
  <2> QED BY <1>2, <2>1, BaseIs
<1>9. row.netRevenue \in 0 .. row.gross
  BY <1>4, <1>6
<1>10. row.estimatedPay \in Int
  BY <1>3, <1>4, <1>8
<1>11. pay.model = "commission" /\ pay.figure <= 100 => row.basePay <= row.netRevenue
  BY <1>4, <1>7, <1>8
<1> QED BY <1>5, <1>9, <1>10, <1>11 DEF pay

\* What is owed either way is the sum.
LEMMA OwedEitherWay ==
  ASSUME NEW rows, DOMAIN rows = Barbers, \A b \in Barbers : rows[b].estimatedPay \in Int
  PROVE  PayableToStaff(rows) - DueToShop(rows) = SumFunction([b \in Barbers |-> rows[b].estimatedPay])
<1> DEFINE pays == [b \in Barbers |-> Max({rows[b].estimatedPay, 0})]
           owes == [b \in Barbers |-> Max({-rows[b].estimatedPay, 0})]
           est  == [b \in Barbers |-> rows[b].estimatedPay]
<1>1. IsFiniteSet(Barbers)
  BY ReportConstants
<1>2. ASSUME NEW b \in Barbers
      PROVE  pays[b] \in Int /\ owes[b] \in Int /\ est[b] \in Int /\ pays[b] = est[b] + owes[b]
  <2> DEFINE e == rows[b].estimatedPay
  <2>1. e \in Int /\ pays[b] = Max({e, 0}) /\ owes[b] = Max({-e, 0}) /\ est[b] = e
    OBVIOUS
  <2> HIDE DEF pays, owes, est, e
  <2>2. Max({e, 0}) \in {e, 0} /\ Max({e, 0}) >= e /\ Max({e, 0}) >= 0
    <3>1. \E m \in {e, 0} : \A k \in {e, 0} : m >= k
      BY <2>1
    <3> QED BY <3>1 DEF Max
  <2>3. Max({-e, 0}) \in {-e, 0} /\ Max({-e, 0}) >= -e /\ Max({-e, 0}) >= 0
    <3>1. \E m \in {-e, 0} : \A k \in {-e, 0} : m >= k
      BY <2>1
    <3> QED BY <3>1 DEF Max
  <2> QED BY <2>1, <2>2, <2>3
<1>3. /\ PayableToStaff(rows) = SumFunction(pays) /\ DueToShop(rows) = SumFunction(owes)
      /\ DOMAIN pays = Barbers /\ DOMAIN owes = Barbers /\ DOMAIN est = Barbers
  BY DEF PayableToStaff, DueToShop
<1> HIDE DEF pays, owes
<1>4. /\ SumFunction(pays) = SumFunctionOnSet(pays, Barbers) /\ SumFunction(owes) = SumFunctionOnSet(owes, Barbers)
      /\ SumFunctionOnSet(pays, Barbers) \in Int /\ SumFunctionOnSet(owes, Barbers) \in Int
  BY <1>1, <1>2, <1>3, SumFunctionIs, SumTypes
<1>5. SumFunction(est) = SumFunctionOnSet(est, Barbers) /\ SumFunctionOnSet(est, Barbers) \in Int
  <2> HIDE DEF est
  <2> QED BY <1>1, <1>2, <1>3, SumFunctionIs, SumTypes
<1>6. SumFunctionOnSet(pays, Barbers) = SumFunctionOnSet(est, Barbers) + SumFunctionOnSet(owes, Barbers)
  <2> HIDE DEF est
  <2> QED BY <1>1, <1>2, SumPlus
<1> QED BY <1>3, <1>4, <1>5, <1>6

LEMMA PayReviewed == ReportInv => PayIsReviewed
<1> SUFFICES ASSUME ReportInv, run.step = "rates" PROVE PayIsReviewed
  BY DEF PayIsReviewed
<1> DEFINE p == run.period
           rows == RevenueByStaff(p, run.sales, run.back)
<1>1. p \in Periods /\ run.sales \in SUBSET Sales /\ run.back \in [run.sales -> Nat]
  BY PeriodSales DEF ReportInv, RunReads
<1>2. DOMAIN rows = Barbers /\ \A b \in Barbers : rows[b] = StaffRow(p, b, run.sales, run.back)
  BY DEF RevenueByStaff
<1>3. ASSUME NEW b \in Barbers
      PROVE  /\ rows[b].netRevenue \in 0 .. rows[b].gross /\ rows[b].estimatedPay \in Int
             /\ rows[b].pay.model = "commission" /\ rows[b].pay.figure <= 100 => rows[b].basePay <= rows[b].netRevenue
             /\ rows[b].changedMidPeriod = (Cardinality(Overlapping(p, b)) > 1)
  <2> HIDE DEF rows, p
  <2> QED BY <1>1, <1>2, RowIs
<1>4. PayableToStaff(rows) - DueToShop(rows) = SumFunction([b \in Barbers |-> rows[b].estimatedPay])
  <2> HIDE DEF rows, p
  <2> QED BY <1>2, <1>3, OwedEitherWay
<1>5. ASSUME NEW b \in Barbers, Cardinality(RatesIn(p, b, clock)) > 1 PROVE rows[b].changedMidPeriod
  <2>1. Cardinality(Overlapping(p, b)) > 1
    BY <1>1, <1>5, RatesFlagged
  <2> HIDE DEF rows, p
  <2> QED BY <1>3, <2>1
<1> HIDE DEF rows
<1>6. PayIsReviewed <=>
        /\ PayableToStaff(rows) - DueToShop(rows) = SumFunction([b \in Barbers |-> rows[b].estimatedPay])
        /\ \A b \in Barbers :
             /\ Cardinality(RatesIn(p, b, clock)) > 1 => rows[b].changedMidPeriod
             /\ rows[b].netRevenue \in 0 .. rows[b].gross
             /\ rows[b].pay.model = "commission" /\ rows[b].pay.figure <= 100 => rows[b].basePay <= rows[b].netRevenue
  BY Zenon DEF PayIsReviewed, rows
<1> QED BY <1>3, <1>4, <1>5, <1>6, Zenon

-----------------------------------------------------------------------------
(* The reports tell of the same money. *)

SaleTotals    == [s \in Sales |-> Total(s)]
LinesSold     == [s \in Sales |-> Billed(s, "service") + Billed(s, "retail")]
Discounts == [s \in Sales |-> Ticket[s].discount]
DayOf     == [s \in Sales |-> DayKey(created[s])]

LEMMA SalesTypes ==
  ASSUME NEW S, S \subseteq Sales
  PROVE  /\ IsFiniteSet(S)
         /\ \A s \in S : SaleTotals[s] \in Int /\ LinesSold[s] \in Int /\ Discounts[s] \in Int
         /\ SumFunctionOnSet(SaleTotals, S) \in Int /\ SumFunctionOnSet(LinesSold, S) \in Int
         /\ SumFunctionOnSet(Discounts, S) \in Int
         /\ SumFunction([s \in S |-> Total(s)]) = SumFunctionOnSet(SaleTotals, S)
         /\ SumFunction([s \in S |-> Billed(s, "service")]) + SumFunction([s \in S |-> Billed(s, "retail")])
              = SumFunctionOnSet(LinesSold, S)
         /\ SumFunction([s \in S |-> Ticket[s].discount]) = SumFunctionOnSet(Discounts, S)
<1> DEFINE services == [s \in S |-> Billed(s, "service")]
           products == [s \in S |-> Billed(s, "retail")]
<1>1. IsFiniteSet(S)
  BY ReportConstants, FS_Subset
<1>2. \A s \in S : /\ SaleTotals[s] \in Int /\ LinesSold[s] \in Int /\ Discounts[s] \in Int
                   /\ services[s] \in Int /\ products[s] \in Int /\ LinesSold[s] = services[s] + products[s]
  BY BilledIs, TotalIs DEF SaleTotals, LinesSold, Discounts
<1>3. /\ SumFunctionOnSet(SaleTotals, S) \in Int /\ SumFunctionOnSet(LinesSold, S) \in Int
      /\ SumFunctionOnSet(Discounts, S) \in Int
  BY <1>1, <1>2, SumTypes
<1>4. SumFunction([s \in S |-> Total(s)]) = SumFunctionOnSet(SaleTotals, S)
  <2>1. \A s \in S : [x \in S |-> Total(x)][s] = SaleTotals[s]
    BY DEF SaleTotals
  <2> QED BY <1>1, <2>1, SumFunctionIs
<1>5. SumFunction([s \in S |-> Ticket[s].discount]) = SumFunctionOnSet(Discounts, S)
  <2>1. \A s \in S : [x \in S |-> Ticket[x].discount][s] = Discounts[s]
    BY DEF Discounts
  <2> QED BY <1>1, <2>1, SumFunctionIs
<1>6. DOMAIN services = S /\ DOMAIN products = S
  OBVIOUS
<1>7. SumFunction(services) + SumFunction(products) = SumFunctionOnSet(LinesSold, S)
  <2> HIDE DEF services, products
  <2>1. SumFunction(services) = SumFunctionOnSet(services, S) /\ SumFunction(products) = SumFunctionOnSet(products, S)
    BY <1>1, <1>6, SumFunctionIs
  <2>2. SumFunctionOnSet(LinesSold, S) = SumFunctionOnSet(services, S) + SumFunctionOnSet(products, S)
    BY <1>1, <1>2, SumPlus
  <2> QED BY <2>1, <2>2
<1> QED BY <1>1, <1>2, <1>3, <1>4, <1>5, <1>7

LEMMA PartsTell ==
  ASSUME NEW S, IsFiniteSet(S), NEW P, IsFiniteSet(P), NEW k, \A x \in S : k[x] \in P,
         NEW f, \A x \in S : f[x] \in Int,
         NEW e, DOMAIN e = P, \A p \in P : e[p] = SumFunctionOnSet(f, PartAt(k, S, p))
  PROVE  SumFunction(e) = SumFunctionOnSet(f, S)
<1>1. SumFunction(e) = SumFunctionOnSet(e, P)
  BY SumFunctionIs
<1>2. SumFunctionOnSet(e, P) = SumFunctionOnSet(f, S)
  BY SumByParts
<1> QED BY <1>1, <1>2

LEMMA SalesOnIs ==
  ASSUME ReportInv, NEW p, NEW d
  PROVE  SalesOn(p, d) = PartAt(DayOf, SalesOf(p), d) /\ SalesOn(p, d) \subseteq SalesOf(p) /\ SalesOn(p, d) \subseteq Sales
<1>1. SalesOf(p) \subseteq Sales
  BY PeriodSales
<1> QED BY <1>1 DEF SalesOn, PartAt, DayOf

LEMMA ByDay ==
  ASSUME ReportInv, west = 0, NEW p \in Periods,
         NEW f, \A s \in SalesOf(p) : f[s] \in Int,
         NEW e, DOMAIN e = DayKeys(p), \A d \in DayKeys(p) : e[d] = SumFunctionOnSet(f, SalesOn(p, d))
  PROVE  SumFunction(e) = SumFunctionOnSet(f, SalesOf(p))
<1>1. IsFiniteSet(SalesOf(p)) /\ IsFiniteSet(DayKeys(p)) /\ SalesOf(p) \subseteq Sales
  BY PeriodSales, DaysAreFinite
<1>2. \A s \in SalesOf(p) : DayOf[s] \in DayKeys(p)
  BY <1>1, DaysAre DEF DayOf
<1>3. \A d \in DayKeys(p) : e[d] = SumFunctionOnSet(f, PartAt(DayOf, SalesOf(p), d))
  <2> TAKE d \in DayKeys(p)
  <2>1. SalesOn(p, d) = PartAt(DayOf, SalesOf(p), d)
    BY SalesOnIs
  <2>2. e[d] = SumFunctionOnSet(f, SalesOn(p, d))
    OBVIOUS
  <2> QED BY <2>1, <2>2, Zenon
<1> QED BY <1>1, <1>2, <1>3, PartsTell

LEMMA TrendTotals ==
  ASSUME ReportInv, west = 0, NEW p \in Periods, NEW trend, trend = RevenueTrend(p)
  PROVE  SumFunction([d \in DOMAIN trend |-> trend[d].total]) = SumFunctionOnSet(SaleTotals, SalesOf(p))
<1> DEFINE e == [d \in DOMAIN trend |-> trend[d].total]
<1>1. DOMAIN e = DayKeys(p)
  BY DEF RevenueTrend
<1>2. \A s \in SalesOf(p) : SaleTotals[s] \in Int
  BY PeriodSales, SalesTypes
<1>3. ASSUME NEW d \in DayKeys(p) PROVE e[d] = SumFunctionOnSet(SaleTotals, SalesOn(p, d))
  <2>1. e[d] = SumFunction([s \in SalesOn(p, d) |-> Total(s)])
    BY DEF RevenueTrend
  <2>2. SalesOn(p, d) \subseteq Sales
    BY SalesOnIs
  <2> QED BY <2>1, <2>2, SalesTypes
<1> HIDE DEF e
<1>4. SumFunction(e) = SumFunctionOnSet(SaleTotals, SalesOf(p))
  BY <1>1, <1>2, <1>3, ByDay
<1> QED BY <1>4 DEF e

LEMMA TrendLines ==
  ASSUME ReportInv, west = 0, NEW p \in Periods, NEW trend, trend = RevenueTrend(p)
  PROVE  SumFunction([d \in DOMAIN trend |-> trend[d].services + trend[d].products])
           = SumFunctionOnSet(LinesSold, SalesOf(p))
<1> DEFINE e == [d \in DOMAIN trend |-> trend[d].services + trend[d].products]
<1>1. DOMAIN e = DayKeys(p)
  BY DEF RevenueTrend
<1>2. \A s \in SalesOf(p) : LinesSold[s] \in Int
  BY PeriodSales, SalesTypes
<1>3. ASSUME NEW d \in DayKeys(p) PROVE e[d] = SumFunctionOnSet(LinesSold, SalesOn(p, d))
  <2>1. e[d] = SumFunction([s \in SalesOn(p, d) |-> Billed(s, "service")])
                 + SumFunction([s \in SalesOn(p, d) |-> Billed(s, "retail")])
    BY DEF RevenueTrend
  <2>2. SalesOn(p, d) \subseteq Sales
    BY SalesOnIs
  <2> QED BY <2>1, <2>2, SalesTypes
<1> HIDE DEF e
<1>4. SumFunction(e) = SumFunctionOnSet(LinesSold, SalesOf(p))
  BY <1>1, <1>2, <1>3, ByDay
<1> QED BY <1>4 DEF e

LEMMA TrendDiscounts ==
  ASSUME ReportInv, west = 0, NEW p \in Periods, NEW trend, trend = RevenueTrend(p)
  PROVE  SumFunction([d \in DOMAIN trend |-> trend[d].services + trend[d].products - trend[d].revenue])
           = SumFunctionOnSet(Discounts, SalesOf(p))
<1> DEFINE e == [d \in DOMAIN trend |-> trend[d].services + trend[d].products - trend[d].revenue]
<1>1. DOMAIN e = DayKeys(p)
  BY DEF RevenueTrend
<1>2. \A s \in SalesOf(p) : Discounts[s] \in Int
  BY PeriodSales, SalesTypes
<1>3. ASSUME NEW d \in DayKeys(p) PROVE e[d] = SumFunctionOnSet(Discounts, SalesOn(p, d))
  <2> DEFINE services == SumFunction([s \in SalesOn(p, d) |-> Billed(s, "service")])
             products == SumFunction([s \in SalesOn(p, d) |-> Billed(s, "retail")])
             off == SumFunction([s \in SalesOn(p, d) |-> Ticket[s].discount])
  <2>1. SalesOn(p, d) \subseteq Sales
    BY SalesOnIs
  <2>2. off = SumFunctionOnSet(Discounts, SalesOn(p, d)) /\ off \in Int
    BY <2>1, SalesTypes
  <2>3. services \in Nat /\ products \in Nat
    <3>1. IsFiniteSet(SalesOn(p, d))
      BY <2>1, SalesTypes
    <3> QED BY <3>1, BilledIs, NatSum
  <2>4. /\ trend[d].services = services /\ trend[d].products = products
        /\ trend[d].revenue = services + products - off
    BY DEF RevenueTrend
  <2>5. e[d] = trend[d].services + trend[d].products - trend[d].revenue
    BY DEF RevenueTrend
  <2> HIDE DEF services, products, off, e
  <2> QED BY <2>2, <2>3, <2>4, <2>5
<1> HIDE DEF e
<1>4. SumFunction(e) = SumFunctionOnSet(Discounts, SalesOf(p))
  BY <1>1, <1>2, <1>3, ByDay
<1> QED BY <1>4 DEF e

LEMMA MixTotals ==
  ASSUME ReportInv, west = 0, NEW p \in Periods, NEW mix, mix = PaymentMix(p)
  PROVE  SumFunction([d \in DOMAIN mix |-> mix[d].cash + mix[d].card]) = SumFunctionOnSet(SaleTotals, SalesOf(p))
<1> DEFINE e == [d \in DOMAIN mix |-> mix[d].cash + mix[d].card]
<1>1. DOMAIN e = DayKeys(p)
  BY DEF PaymentMix
<1>2. \A s \in SalesOf(p) : SaleTotals[s] \in Int
  BY PeriodSales, SalesTypes
<1>3. ASSUME NEW d \in DayKeys(p) PROVE e[d] = SumFunctionOnSet(SaleTotals, SalesOn(p, d))
  <2> DEFINE S == SalesOn(p, d)
             A == {s \in S : Ticket[s].cash}
             B == {s \in S : ~Ticket[s].cash}
  <2>1. e[d] = SumFunction([s \in A |-> Total(s)]) + SumFunction([s \in B |-> Total(s)])
    BY DEF PaymentMix
  <2>2. S \subseteq Sales
    BY SalesOnIs
  <2>3. A \subseteq Sales /\ B \subseteq Sales /\ A \cap B = {}
    BY <2>2
  <2>4. A \cup B = S
    OBVIOUS
  <2> HIDE DEF A, B, S
  <2>5. e[d] = SumFunctionOnSet(SaleTotals, A) + SumFunctionOnSet(SaleTotals, B)
    BY <2>1, <2>3, SalesTypes
  <2>6. SumFunctionOnSet(SaleTotals, A \cup B) = SumFunctionOnSet(SaleTotals, A) + SumFunctionOnSet(SaleTotals, B)
    <3>1. IsFiniteSet(A) /\ IsFiniteSet(B) /\ \A x \in A \cup B : SaleTotals[x] \in Int
      BY <2>3, SalesTypes
    <3> QED BY <2>3, <3>1, SumJoins
  <2>7. SumFunctionOnSet(SaleTotals, A \cup B) = SumFunctionOnSet(SaleTotals, S)
    BY <2>4, Zenon
  <2> QED BY <2>5, <2>6, <2>7 DEF S
<1> HIDE DEF e
<1>4. SumFunction(e) = SumFunctionOnSet(SaleTotals, SalesOf(p))
  BY <1>1, <1>2, <1>3, ByDay
<1> QED BY <1>4 DEF e

LEMMA StaffTotals ==
  ASSUME ReportInv, NEW p \in Periods, NEW staff, staff = RevenueByStaff(p, SalesOf(p), refunded)
  PROVE  SumFunction([b \in Barbers |-> staff[b].collected])
           + SumFunction([s \in {s \in SalesOf(p) : Ticket[s].barber = Nobody} |-> Total(s)])
           = SumFunctionOnSet(SaleTotals, SalesOf(p))
<1> DEFINE e == [b \in Barbers |-> staff[b].collected]
           whose == [s \in Sales |-> Ticket[s].barber]
           A == {s \in SalesOf(p) : Ticket[s].barber # Nobody}
           B == {s \in SalesOf(p) : Ticket[s].barber = Nobody}
<1>1. DOMAIN e = Barbers /\ IsFiniteSet(Barbers)
  BY ReportConstants
<1>2. A \subseteq Sales /\ B \subseteq Sales /\ A \cap B = {} /\ A \subseteq SalesOf(p)
  BY PeriodSales
<1>3. A \cup B = SalesOf(p)
  OBVIOUS
<1>4. \A s \in A : whose[s] \in Barbers
  BY <1>2, ReportConstants
<1>5. ASSUME NEW b \in Barbers PROVE e[b] = SumFunctionOnSet(SaleTotals, PartAt(whose, A, b))
  <2> DEFINE mine == {s \in SalesOf(p) : Ticket[s].barber = b}
  <2>1. e[b] = SumFunction([s \in mine |-> Total(s)])
    BY DEF RevenueByStaff, StaffRow
  <2>2. mine = PartAt(whose, A, b)
    BY <1>2, NobodyIsNoBarber, PeriodSales DEF PartAt
  <2>3. mine \subseteq Sales
    BY PeriodSales
  <2> HIDE DEF mine, e
  <2>4. e[b] = SumFunctionOnSet(SaleTotals, mine)
    BY <2>1, <2>3, SalesTypes
  <2> QED BY <2>2, <2>4, Zenon
<1> HIDE DEF e, whose, A, B
<1>6. SumFunction(e) = SumFunctionOnSet(SaleTotals, A)
  <2>1. IsFiniteSet(A) /\ \A s \in A : SaleTotals[s] \in Int
    BY <1>2, SalesTypes
  <2> QED BY <1>1, <1>4, <1>5, <2>1, PartsTell
<1>7. SumFunction([s \in B |-> Total(s)]) = SumFunctionOnSet(SaleTotals, B)
  BY <1>2, SalesTypes
<1>8. SumFunctionOnSet(SaleTotals, A \cup B) = SumFunctionOnSet(SaleTotals, A) + SumFunctionOnSet(SaleTotals, B)
  <2>1. IsFiniteSet(A) /\ IsFiniteSet(B) /\ \A x \in A \cup B : SaleTotals[x] \in Int
    BY <1>2, SalesTypes
  <2> QED BY <1>2, <2>1, SumJoins
<1>9. SumFunctionOnSet(SaleTotals, A \cup B) = SumFunctionOnSet(SaleTotals, SalesOf(p))
  BY <1>3, Zenon
<1>10. SumFunction(e) + SumFunction([s \in B |-> Total(s)]) = SumFunctionOnSet(SaleTotals, SalesOf(p))
  BY <1>6, <1>7, <1>8, <1>9
<1> QED BY <1>10 DEF e, B

SaleOfItem == [i \in Items |-> Item[i].sale]
KeyOf  == [i \in Items |-> <<Item[i].type, Item[i].name>>]
CodeOf == [s \in Sales |-> Ticket[s].code]

\* The lines of a sale, services and products together.
LEMMA LinesAre ==
  ASSUME NEW L, L \subseteq Items, NEW s \in Sales, {i \in Items : Item[i].sale = s} \subseteq L
  PROVE  LinesSold[s] = SumFunctionOnSet(Prices, PartAt(SaleOfItem, L, s))
<1> DEFINE A == ItemsOf(s, "service")
           B == ItemsOf(s, "retail")
<1>1. A \subseteq Items /\ B \subseteq Items /\ A \cap B = {}
  BY DEF ItemsOf
<1>2. A \cup B = PartAt(SaleOfItem, L, s)
  <2>1. \A i \in Items : Item[i].type \in {"service", "retail"}
    BY ItemTypes
  <2> QED BY <2>1 DEF ItemsOf, PartAt, SaleOfItem
<1>3. LinesSold[s] = SumFunctionOnSet(Prices, A) + SumFunctionOnSet(Prices, B)
  BY BilledIs DEF LinesSold
<1> HIDE DEF A, B
<1>4. IsFiniteSet(A) /\ IsFiniteSet(B) /\ \A i \in A \cup B : Prices[i] \in Int
  <2>1. IsFiniteSet(A) /\ \A i \in A : Prices[i] \in Nat
    BY <1>1, ItemTypes
  <2>2. IsFiniteSet(B) /\ \A i \in B : Prices[i] \in Nat
    BY <1>1, ItemTypes
  <2> QED BY <2>1, <2>2
<1>5. SumFunctionOnSet(Prices, A \cup B) = SumFunctionOnSet(Prices, A) + SumFunctionOnSet(Prices, B)
  BY <1>1, <1>4, SumJoins
<1>6. SumFunctionOnSet(Prices, A \cup B) = SumFunctionOnSet(Prices, PartAt(SaleOfItem, L, s))
  BY <1>2, Zenon
<1> QED BY <1>3, <1>5, <1>6

LEMMA ItemTotals ==
  ASSUME ReportInv, NEW p \in Periods, NEW items, items = TopServicesAndProducts(p)
  PROVE  SumFunction([k \in DOMAIN items |-> items[k].revenue]) = SumFunctionOnSet(LinesSold, SalesOf(p))
<1> DEFINE L == {i \in Items : Item[i].sale \in SalesOf(p)}
           e == [k \in DOMAIN items |-> items[k].revenue]
           K == ImageOf(KeyOf, L)
<1>1. L \subseteq Items
  OBVIOUS
<1>2. DOMAIN items = K /\ DOMAIN e = K
  BY DEF TopServicesAndProducts, ImageOf, KeyOf
<1>3. ASSUME NEW k \in K PROVE e[k] = SumFunctionOnSet(Prices, PartAt(KeyOf, L, k))
  <2> DEFINE X == {i \in L : <<Item[i].type, Item[i].name>> = k}
  <2>1. e[k] = SumFunction([i \in X |-> Item[i].price])
    BY <1>2 DEF TopServicesAndProducts
  <2>2. X = PartAt(KeyOf, L, k) /\ X \subseteq Items
    BY DEF PartAt, KeyOf
  <2> HIDE DEF X, e, L, K
  <2>3. e[k] = SumFunctionOnSet(Prices, X)
    BY <2>1, <2>2, ItemTypes
  <2> QED BY <2>2, <2>3, Zenon
<1>4. \A i \in L : SaleOfItem[i] \in SalesOf(p) /\ KeyOf[i] \in K
  <2>1. \A i \in L : SaleOfItem[i] \in SalesOf(p)
    BY DEF SaleOfItem
  <2>2. \A i \in L : KeyOf[i] \in K
    <3> HIDE DEF L
    <3> QED BY DEF ImageOf
  <2> QED BY <2>1, <2>2
<1>5. ASSUME NEW s \in SalesOf(p) PROVE LinesSold[s] = SumFunctionOnSet(Prices, PartAt(SaleOfItem, L, s))
  <2>1. s \in Sales /\ {i \in Items : Item[i].sale = s} \subseteq L
    BY PeriodSales
  <2> HIDE DEF L
  <2> QED BY <1>1, <2>1, LinesAre
<1>6. IsFiniteSet(SalesOf(p))
  BY PeriodSales
<1> HIDE DEF L, e, K
<1>7. IsFiniteSet(L) /\ \A i \in L : Prices[i] \in Int
  <2>1. IsFiniteSet(L) /\ \A i \in L : Prices[i] \in Nat
    BY <1>1, ItemTypes
  <2> QED BY <2>1
<1>8. IsFiniteSet(K)
  BY <1>7, ImageIsSmaller DEF K
<1>9. SumFunction(e) = SumFunctionOnSet(Prices, L)
  BY <1>2, <1>3, <1>4, <1>7, <1>8, PartsTell
<1>10. SumFunctionOnSet(LinesSold, SalesOf(p)) = SumFunctionOnSet(Prices, L)
  BY <1>4, <1>5, <1>6, <1>7, SumByParts
<1> QED BY <1>9, <1>10 DEF e

LEMMA UsageTotals ==
  ASSUME ReportInv, NEW p \in Periods, NEW usage, usage = DiscountUsage(p)
  PROVE  SumFunction([c \in DOMAIN usage |-> usage[c].totalDiscount]) = SumFunctionOnSet(Discounts, SalesOf(p))
<1> DEFINE A == {s \in SalesOf(p) : Ticket[s].code # "none"}
           B == {s \in SalesOf(p) : Ticket[s].code = "none"}
           e == [c \in DOMAIN usage |-> usage[c].totalDiscount]
           K == ImageOf(CodeOf, A)
<1>1. A \subseteq Sales /\ B \subseteq Sales /\ A \cap B = {} /\ SalesOf(p) \subseteq Sales
  BY PeriodSales
<1>2. A \cup B = SalesOf(p)
  OBVIOUS
<1>3. DOMAIN usage = K /\ DOMAIN e = K
  BY <1>1 DEF DiscountUsage, ImageOf, CodeOf
<1>4. ASSUME NEW c \in K PROVE e[c] = SumFunctionOnSet(Discounts, PartAt(CodeOf, A, c))
  <2> DEFINE X == {s \in A : Ticket[s].code = c}
  <2>1. e[c] = SumFunction([s \in X |-> Ticket[s].discount])
    BY <1>3 DEF DiscountUsage
  <2>2. X = PartAt(CodeOf, A, c) /\ X \subseteq Sales
    BY <1>1 DEF PartAt, CodeOf
  <2> HIDE DEF X, e, A, K
  <2>3. e[c] = SumFunctionOnSet(Discounts, X)
    BY <2>1, <2>2, SalesTypes
  <2> QED BY <2>2, <2>3, Zenon
<1>5. \A s \in A : CodeOf[s] \in K
  <2> HIDE DEF A
  <2> QED BY DEF ImageOf
<1>6. \A s \in B : Discounts[s] = 0
  BY <1>1, ReportConstants DEF Discounts
<1> HIDE DEF A, B, e, K
<1>7. /\ IsFiniteSet(A) /\ IsFiniteSet(B) /\ \A s \in A \cup B : Discounts[s] \in Int
  <2>1. IsFiniteSet(A) /\ \A s \in A : Discounts[s] \in Int
    BY <1>1, SalesTypes
  <2>2. IsFiniteSet(B) /\ \A s \in B : Discounts[s] \in Int
    BY <1>1, SalesTypes
  <2> QED BY <2>1, <2>2
<1>8. IsFiniteSet(K)
  BY <1>7, ImageIsSmaller DEF K
<1>9. SumFunction(e) = SumFunctionOnSet(Discounts, A)
  BY <1>3, <1>4, <1>5, <1>7, <1>8, PartsTell
<1>10. SumFunctionOnSet(Discounts, B) = 0
  BY <1>6, <1>7, SumOfNothing
<1>11. SumFunctionOnSet(Discounts, A \cup B) = SumFunctionOnSet(Discounts, A) + SumFunctionOnSet(Discounts, B)
  BY <1>1, <1>7, SumJoins
<1>12. SumFunctionOnSet(Discounts, A \cup B) = SumFunctionOnSet(Discounts, SalesOf(p))
  BY <1>2, Zenon
<1>13. SumFunctionOnSet(Discounts, A) \in Int
  BY <1>1, SalesTypes
<1> QED BY <1>9, <1>10, <1>11, <1>12, <1>13 DEF e

\* A client comes no more often than there are sales to that client.
LEMMA VisitsAreEnough ==
  ASSUME ReportInv, NEW p \in Periods, NEW c \in DOMAIN TopClients(p)
  PROVE  TopClients(p)[c].visits >= Cardinality({d \in DayKeys(p) :
           c \in NewVsReturning(p)[d].new \cup NewVsReturning(p)[d].returning})
<1> DEFINE X == {s \in SalesOf(p) : Ticket[s].client # "none" /\ Ticket[s].client = c}
           D == {d \in DayKeys(p) : c \in NewVsReturning(p)[d].new \cup NewVsReturning(p)[d].returning}
<1>1. TopClients(p)[c].visits = Cardinality(X)
  <2>1. {s \in {s \in SalesOf(p) : Ticket[s].client # "none"} : Ticket[s].client = c} = X
    OBVIOUS
  <2>2. TopClients(p)[c].visits = Cardinality({s \in {s \in SalesOf(p) : Ticket[s].client # "none"} : Ticket[s].client = c})
    BY DEF TopClients
  <2> HIDE DEF X
  <2> QED BY <2>1, <2>2, Zenon
<1>2. X \subseteq Sales
  BY PeriodSales
<1>3. IsFiniteSet(X)
  BY <1>2, SalesTypes
<1>4. D \subseteq ImageOf(DayOf, X)
  <2> SUFFICES ASSUME NEW d \in D PROVE d \in ImageOf(DayOf, X)
    OBVIOUS
  <2>1. c \in {Ticket[s].client : s \in SalesOn(p, d)} \ {"none"}
    BY DEF NewVsReturning
  <2>2. PICK s \in SalesOn(p, d) : Ticket[s].client = c /\ c # "none"
    BY <2>1
  <2>3. s \in X /\ DayOf[s] = d
    BY <2>2, PeriodSales DEF SalesOn, DayOf
  <2> QED BY <2>3 DEF ImageOf
<1> HIDE DEF X, D
<1>5. IsFiniteSet(ImageOf(DayOf, X)) /\ Cardinality(ImageOf(DayOf, X)) <= Cardinality(X)
  BY <1>3, ImageIsSmaller
<1>6. IsFiniteSet(D) /\ Cardinality(D) <= Cardinality(ImageOf(DayOf, X))
  BY <1>4, <1>5, FS_Subset
<1>7. Cardinality(D) \in Nat /\ Cardinality(ImageOf(DayOf, X)) \in Nat /\ Cardinality(X) \in Nat
  BY <1>3, <1>5, <1>6, FS_CardinalityType
<1> QED BY <1>1, <1>5, <1>6, <1>7 DEF D

LEMMA Agreement == ReportInv => ReportsAgree
<1> SUFFICES ASSUME ReportInv, west = 0 PROVE ReportsAgree
  BY DEF ReportsAgree
<1> SUFFICES ASSUME NEW p \in Periods
             PROVE  LET trend == RevenueTrend(p)
                        mix   == PaymentMix(p)
                        staff == RevenueByStaff(p, SalesOf(p), refunded)
                        items == TopServicesAndProducts(p)
                        total == SumFunction([d \in DOMAIN trend |-> trend[d].total])
                    IN  /\ total = SumFunction([d \in DOMAIN mix |-> mix[d].cash + mix[d].card])
                        /\ total = SumFunction([b \in Barbers |-> staff[b].collected])
                                     + SumFunction([s \in {s \in SalesOf(p) : Ticket[s].barber = Nobody} |-> Total(s)])
                        /\ SumFunction([k \in DOMAIN items |-> items[k].revenue])
                             = SumFunction([d \in DOMAIN trend |-> trend[d].services + trend[d].products])
                        /\ SumFunction([d \in DOMAIN trend |-> trend[d].services + trend[d].products - trend[d].revenue])
                             = SumFunction([c \in DOMAIN DiscountUsage(p) |-> DiscountUsage(p)[c].totalDiscount])
                        /\ \A c \in DOMAIN TopClients(p) :
                             TopClients(p)[c].visits >= Cardinality({d \in DayKeys(p) :
                               c \in NewVsReturning(p)[d].new \cup NewVsReturning(p)[d].returning})
  BY Zenon DEF ReportsAgree
<1> DEFINE trend == RevenueTrend(p)
           mix   == PaymentMix(p)
           staff == RevenueByStaff(p, SalesOf(p), refunded)
           items == TopServicesAndProducts(p)
           usage == DiscountUsage(p)
<1>1. SumFunction([d \in DOMAIN trend |-> trend[d].total]) = SumFunctionOnSet(SaleTotals, SalesOf(p))
  BY TrendTotals, Zenon
<1>2. SumFunction([d \in DOMAIN mix |-> mix[d].cash + mix[d].card]) = SumFunctionOnSet(SaleTotals, SalesOf(p))
  BY MixTotals, Zenon
<1>3. SumFunction([b \in Barbers |-> staff[b].collected])
        + SumFunction([s \in {s \in SalesOf(p) : Ticket[s].barber = Nobody} |-> Total(s)])
        = SumFunctionOnSet(SaleTotals, SalesOf(p))
  BY StaffTotals, Zenon
<1>4. SumFunction([k \in DOMAIN items |-> items[k].revenue]) = SumFunctionOnSet(LinesSold, SalesOf(p))
  BY ItemTotals, Zenon
<1>5. SumFunction([d \in DOMAIN trend |-> trend[d].services + trend[d].products]) = SumFunctionOnSet(LinesSold, SalesOf(p))
  BY TrendLines, Zenon
<1>6. SumFunction([d \in DOMAIN trend |-> trend[d].services + trend[d].products - trend[d].revenue])
        = SumFunctionOnSet(Discounts, SalesOf(p))
  BY TrendDiscounts, Zenon
<1>7. SumFunction([c \in DOMAIN usage |-> usage[c].totalDiscount]) = SumFunctionOnSet(Discounts, SalesOf(p))
  BY UsageTotals, Zenon
<1> QED BY <1>1, <1>2, <1>3, <1>4, <1>5, <1>6, <1>7, VisitsAreEnough, Zenon

-----------------------------------------------------------------------------
\* What a report or a pay run has read are sales and refunds there are, of its period (revenueByStaff).
THEOREM ReportInvariant == ReportSpec => []ReportInv
BY ReportStarts, ReportStep, PTL DEF ReportSpec

\* reports.service.ts, on a server that keeps UTC: the trend, the payment mix, the staff table and the
\* items add up to the same money, whatever the sales, and nobody is a new client on two days.
THEOREM ReportsTold == ReportSpec => [](ReportsAgree /\ NewOnlyOnce /\ ReportsTell)
<1>1. ReportInv => ReportsAgree /\ NewOnlyOnce /\ ReportsTell
  BY Agreement, NobodyNewTwice DEF ReportsTell
<1> QED BY <1>1, ReportInvariant, PTL

\* The pay runs: no sale in two of them whose periods share no day, two rates in a period are flagged, a
\* commission is no more than what was kept, and what is owed either way is the sum of the estimates.
THEOREM PayRunsReviewed == ReportSpec => []PayRunsSound
<1>1. ReportInv => PayRunsSound
  BY PaidOnce, PayReviewed DEF PayRunsSound
<1> QED BY <1>1, ReportInvariant, PTL

\* The clock and the stamps the sales are given by it, and what a run says it is doing.
Stamps ==
  /\ west \in Wests /\ clock \in 0 .. LastClock
  /\ \A s \in Sales : created[s] \in (0 .. LastClock) \cup {Unsold}
  /\ run = Idle \/ run.step \in {"refunds", "rates"}

LEMMA StampsStay == ReportInv /\ Stamps /\ [ReportNext]_reportVars => Stamps'
<1> SUFFICES ASSUME ReportInv, Stamps, [ReportNext]_reportVars PROVE Stamps'
  OBVIOUS
<1>1. CASE ClockTick
  BY <1>1, ReportConstants DEF ClockTick, Stamps, ReportInv
<1>2. ASSUME NEW s \in Sales, BeginSale(s) PROVE Stamps'
  BY <1>2 DEF BeginSale, Stamps, ReportInv
<1>3. ASSUME NEW s \in Sales, CommitSale(s) \/ PayBack(s) PROVE Stamps'
  BY <1>3 DEF CommitSale, PayBack, Stamps
<1>4. ASSUME NEW b \in Barbers, NEW pay \in Pays, ChangeRate(b, pay) PROVE Stamps'
  BY <1>4 DEF ChangeRate, Stamps
<1>5. ASSUME NEW p \in Periods, ReadSales(p) PROVE Stamps'
  BY <1>5 DEF ReadSales, Stamps
<1>6. CASE ReadRefunds
  BY <1>6 DEF ReadRefunds, Stamps
<1>7. CASE LogRun
  BY <1>7 DEF LogRun, Stamps
<1>8. CASE UNCHANGED reportVars
  BY <1>8 DEF reportVars, Stamps
<1> QED BY <1>1, <1>2, <1>3, <1>4, <1>5, <1>6, <1>7, <1>8 DEF ReportNext

\* A pay run holds sales of its period that have committed.
THEOREM ReportsTyped == ReportSpec => []ReportTypeOK
<1>1. ReportInit => ReportInv /\ Stamps
  <2> SUFFICES ASSUME ReportInit PROVE Stamps
    BY ReportStarts
  <2>1. west \in Wests /\ clock = 0 /\ 0 \in 0 .. LastClock /\ run = Idle
    BY ReportConstants DEF ReportInit
  <2> QED BY <2>1 DEF ReportInit, Stamps
<1>2. ReportInv /\ Stamps => ReportTypeOK
  <2> SUFFICES ASSUME ReportInv, Stamps PROVE ReportTypeOK
    OBVIOUS
  <2>1. created \in [Sales -> (0 .. LastClock) \cup {Unsold}]
    BY DEF ReportInv, Stamps
  <2>2. \A b \in Barbers : payRates[b] \in Seq([pay: Pays, from: Int, to: Int \cup {Unsold}])
    BY DEF ReportInv, RateRow
  <2>3. run = Idle \/ (run.step \in {"refunds", "rates"} /\ run.period \in Periods /\ run.sales \subseteq sold)
    BY DEF ReportInv, RunReads, Stamps, SalesOf
  <2>4. \A r \in logged : r.period \in Periods /\ r.sales \subseteq sold
    BY DEF ReportInv, SalesOf
  <2> QED BY <2>1, <2>2, <2>3, <2>4 DEF ReportInv, Stamps, ReportTypeOK
<1> QED BY <1>1, <1>2, ReportStep, StampsStay, PTL DEF ReportSpec

-----------------------------------------------------------------------------
(***************************************************************************)
(* Dashboard.  Each statement of a request saw no fewer sales than the one *)
(* before it, and the terms of everybody that have not changed since.      *)
(***************************************************************************)

SalesHere(b) == {s \in takings : Bill[s].shop = b}
PostsHere(b) == {p \in Posts : PostOf[p].shop = b}

\* What the k-th statement saw of a shop: sales that are still on the books, no fewer than the
\* statement before it saw, and the terms of everybody who has not changed since.
SawTruly(b, k) ==
  /\ seen[b][k].sales \subseteq SalesHere(b)
  /\ \A j \in 1 .. k : seen[b][j].sales \subseteq seen[b][k].sales
  /\ \A p \in PostsHere(b) \ moved : seen[b][k].terms[p] = terms[p]

DashboardInv ==
  /\ takings \subseteq DaySales /\ IsFiniteSet(takings)
  /\ terms \in [Posts -> Terms] /\ moved \subseteq Posts
  /\ lookAt = {} \/ lookAt = Branchs \/ \E b \in Branchs : lookAt = {b}
  /\ DOMAIN seen = Branchs
  /\ \A b \in Branchs : /\ Len(seen[b]) \in 0 .. 5 /\ DOMAIN seen[b] = 1 .. Len(seen[b])
                        /\ lookAt = {} => seen[b] = <<>>
                        /\ \A k \in 1 .. Len(seen[b]) : SawTruly(b, k)

LEMMA StatementsAre ==
  /\ Len(Statements(TRUE)) = 5 /\ Len(Statements(FALSE)) = 5
  /\ Statements(TRUE)[1] = "transactions" /\ Statements(TRUE)[2] = "staff"
  /\ Statements(TRUE)[3] = "services" /\ Statements(TRUE)[4] = "retail" /\ Statements(TRUE)[5] = "compensation"
  /\ Statements(FALSE)[1] = "transactions" /\ Statements(FALSE)[2] = "services"
  /\ Statements(FALSE)[3] = "retail" /\ Statements(FALSE)[4] = "staff" /\ Statements(FALSE)[5] = "staffSales"
  BY DEF Statements

LEMMA LenStatements == Len(Statements(Owner)) = 5
<1>1. Owner \in BOOLEAN
  BY DEF Owner
<1> QED BY <1>1, StatementsAre

LEMMA DashboardStarts == DashboardInit => DashboardInv
<1> SUFFICES ASSUME DashboardInit PROVE DashboardInv
  OBVIOUS
<1>1. IsFiniteSet({})
  BY FS_EmptySet
<1>2. \A b \in Branchs : seen[b] = <<>>
  BY DEF DashboardInit
<1> QED BY <1>1, <1>2, DashboardConstants DEF DashboardInit, DashboardInv

LEMMA DashboardStep == DashboardInv /\ [DashboardNext]_dashboardVars => DashboardInv'
<1> SUFFICES ASSUME DashboardInv, [DashboardNext]_dashboardVars
             PROVE  DashboardInv'
  OBVIOUS
<1>1. ASSUME NEW s \in DaySales, SellToday(s)
      PROVE  DashboardInv'
  <2>1. takings' = takings \cup {s} /\ UNCHANGED <<terms, looker, lookAt, seen, moved>>
    BY <1>1 DEF SellToday
  <2>2. takings' \subseteq DaySales /\ IsFiniteSet(takings')
    BY <2>1, FS_AddElement DEF DashboardInv
  <2>3. \A b : SalesHere(b) \subseteq SalesHere(b)' /\ PostsHere(b)' = PostsHere(b)
    BY <2>1 DEF SalesHere, PostsHere
  <2>4. \A b \in Branchs : \A k \in 1 .. Len(seen[b]) : SawTruly(b, k)'
    BY <2>1, <2>3 DEF DashboardInv, SawTruly
  <2> QED BY <2>1, <2>2, <2>4 DEF DashboardInv
<1>2. ASSUME NEW p \in Posts, NEW t \in Terms, ChangeTerms(p, t)
      PROVE  DashboardInv'
  <2>1. /\ terms' = [terms EXCEPT ![p] = t] /\ moved' = moved \cup {p}
        /\ UNCHANGED <<takings, looker, lookAt, seen>>
    BY <1>2 DEF ChangeTerms
  <2>2. \A b : SalesHere(b)' = SalesHere(b) /\ PostsHere(b)' = PostsHere(b) /\ PostsHere(b) \subseteq Posts
    BY <2>1 DEF SalesHere, PostsHere
  <2>3. terms' \in [Posts -> Terms] /\ moved' \subseteq Posts /\ \A q \in Posts \ moved' : terms'[q] = terms[q]
    BY <2>1 DEF DashboardInv
  <2>4. \A b \in Branchs : \A k \in 1 .. Len(seen[b]) : SawTruly(b, k)'
    BY <2>1, <2>2, <2>3 DEF DashboardInv, SawTruly
  <2> QED BY <2>1, <2>3, <2>4 DEF DashboardInv
<1>3. CASE StartLook
  <2>1. /\ lookAt = {} /\ moved' = {} /\ UNCHANGED <<takings, terms, looker, seen>>
        /\ (\E b \in Branchs : lookAt' = {b}) \/ lookAt' = Branchs
    BY <1>3 DEF StartLook
  <2>2. \A b \in Branchs : seen'[b] = <<>>
    BY <2>1 DEF DashboardInv
  <2>3. \A b \in Branchs : /\ Len(seen'[b]) \in 0 .. 5 /\ DOMAIN seen'[b] = 1 .. Len(seen'[b])
                           /\ \A k \in 1 .. Len(seen'[b]) : SawTruly(b, k)'
    BY <2>1, <2>2 DEF DashboardInv
  <2> QED BY <2>1, <2>2, <2>3 DEF DashboardInv
<1>4. ASSUME NEW b \in Branchs, ReadNext(b)
      PROVE  DashboardInv'
  <2> DEFINE row == [sales |-> SalesHere(b), terms |-> [p \in PostsHere(b) |-> terms[p]]]
             n == Len(seen[b])
  <2>1. /\ b \in lookAt /\ n < 5 /\ UNCHANGED <<takings, terms, looker, lookAt, moved>>
        /\ seen' = [seen EXCEPT ![b] = Append(@, row)]
    BY <1>4, LenStatements DEF ReadNext, SalesHere, PostsHere
  <2>2. DOMAIN seen' = Branchs /\ seen'[b] = Append(seen[b], row) /\ \A c \in Branchs : c # b => seen'[c] = seen[c]
    BY <2>1 DEF DashboardInv
  <2>3. n \in 0 .. 5 /\ DOMAIN seen[b] = 1 .. n
    BY DEF DashboardInv
  <2>4. /\ Len(seen'[b]) = n + 1 /\ DOMAIN seen'[b] = 1 .. n + 1 /\ seen'[b][n + 1] = row
        /\ \A k \in 1 .. n : seen'[b][k] = seen[b][k]
    BY <2>2, <2>3
  <2>5. \A c : SalesHere(c)' = SalesHere(c) /\ PostsHere(c)' = PostsHere(c)
    BY <2>1 DEF SalesHere, PostsHere
  <2>6. \A k \in 1 .. n : SawTruly(b, k)'
    BY <2>1, <2>3, <2>4, <2>5 DEF DashboardInv, SawTruly
  <2>7. ASSUME NEW k \in 1 .. 5, k = n + 1
        PROVE  SawTruly(b, k)'
    <3>1. \A j \in 1 .. n : seen[b][j].sales \subseteq SalesHere(b)
      BY DEF DashboardInv, SawTruly
    <3>2. \A j \in 1 .. k : j = k \/ j \in 1 .. n
      BY <2>3, <2>7
    <3>3. seen'[b][k] = row
      BY <2>4, <2>7
    <3>4. seen'[b][k].sales = SalesHere(b) /\ \A p \in PostsHere(b) : seen'[b][k].terms[p] = terms[p]
      BY <3>3
    <3>5. \A j \in 1 .. k : seen'[b][j].sales \subseteq seen'[b][k].sales
      BY <2>4, <3>1, <3>2, <3>4
    <3> QED BY <2>1, <2>5, <3>4, <3>5 DEF SawTruly
  <2>8. \A k \in 1 .. n + 1 : SawTruly(b, k)'
    <3> SUFFICES ASSUME NEW k \in 1 .. n + 1 PROVE SawTruly(b, k)'
      OBVIOUS
    <3>1. k \in 1 .. n \/ (k \in 1 .. 5 /\ k = n + 1)
      BY <2>1, <2>3
    <3> QED BY <2>6, <2>7, <3>1
  <2>9. \A c \in Branchs : c # b => \A k \in 1 .. Len(seen'[c]) : SawTruly(c, k)'
    BY <2>1, <2>2, <2>5 DEF DashboardInv, SawTruly
  <2>10. \A c \in Branchs : /\ Len(seen'[c]) \in 0 .. 5 /\ DOMAIN seen'[c] = 1 .. Len(seen'[c])
                            /\ lookAt' = {} => seen'[c] = <<>>
                            /\ \A k \in 1 .. Len(seen'[c]) : SawTruly(c, k)'
    BY <2>1, <2>2, <2>3, <2>4, <2>8, <2>9 DEF DashboardInv
  <2> QED BY <2>1, <2>2, <2>10 DEF DashboardInv
<1>5. CASE UNCHANGED dashboardVars
  <2>1. \A b : SalesHere(b)' = SalesHere(b) /\ PostsHere(b)' = PostsHere(b)
    BY <1>5 DEF dashboardVars, SalesHere, PostsHere
  <2> QED BY <1>5, <2>1 DEF dashboardVars, DashboardInv, SawTruly
<1> QED BY <1>1, <1>2, <1>3, <1>4, <1>5 DEF DashboardNext

-----------------------------------------------------------------------------
(* What the statements of a finished look saw. *)

LEMMA Five ==
  ASSUME DashboardInv, Finished, NEW b \in lookAt
  PROVE  b \in Branchs /\ DOMAIN seen[b] = 1 .. 5 /\ \A k \in 1 .. 5 : SawTruly(b, k)
<1>1. b \in Branchs
  BY DEF DashboardInv
<1>2. Len(seen[b]) = 5
  BY LenStatements DEF Finished
<1> QED BY <1>1, <1>2 DEF DashboardInv

LEMMA SeenByOwner ==
  ASSUME DashboardInv, Finished, Owner, NEW b \in lookAt
  PROVE  /\ Seen(b, "transactions") = seen[b][1]
         /\ Seen(b, "staff") = seen[b][2]
         /\ Seen(b, "services") = seen[b][3]
         /\ Seen(b, "retail") = seen[b][4]
         /\ Seen(b, "compensation") = seen[b][5]
<1>1. Statements(Owner) = Statements(TRUE)
  BY DEF Owner
<1>2. PICK said : said = Statements(TRUE)
  OBVIOUS
<1>3. /\ said[1] = "transactions"
      /\ said[2] = "staff"
      /\ said[3] = "services"
      /\ said[4] = "retail"
      /\ said[5] = "compensation"
  BY <1>2, StatementsAre
<1>4. ASSUME NEW n \in 1 .. 5, NEW name, said[n] = name, \A k \in 1 .. 5 : k # n => said[k] # name
      PROVE  Seen(b, name) = seen[b][n]
  BY <1>1, <1>2, <1>4, Five DEF Seen
<1>5. \A k \in 1 .. 5 : k = 1 \/ k = 2 \/ k = 3 \/ k = 4 \/ k = 5
  OBVIOUS
<1>6. Seen(b, "transactions") = seen[b][1]
  BY <1>3, <1>4, <1>5
<1>7. Seen(b, "staff") = seen[b][2]
  BY <1>3, <1>4, <1>5
<1>8. Seen(b, "services") = seen[b][3]
  BY <1>3, <1>4, <1>5
<1>9. Seen(b, "retail") = seen[b][4]
  BY <1>3, <1>4, <1>5
<1>10. Seen(b, "compensation") = seen[b][5]
  BY <1>3, <1>4, <1>5
<1> QED BY <1>6, <1>7, <1>8, <1>9, <1>10

LEMMA SeenAtOneShop ==
  ASSUME DashboardInv, Finished, ~Owner, NEW b \in lookAt
  PROVE  /\ Seen(b, "transactions") = seen[b][1]
         /\ Seen(b, "services") = seen[b][2]
         /\ Seen(b, "retail") = seen[b][3]
         /\ Seen(b, "staff") = seen[b][4]
         /\ Seen(b, "staffSales") = seen[b][5]
<1>1. Statements(Owner) = Statements(FALSE)
  <2>1. Owner = FALSE
    BY DEF Owner
  <2> QED BY <2>1, Zenon
<1>2. PICK said : said = Statements(FALSE)
  OBVIOUS
<1>3. /\ said[1] = "transactions"
      /\ said[2] = "services"
      /\ said[3] = "retail"
      /\ said[4] = "staff"
      /\ said[5] = "staffSales"
  BY <1>2, StatementsAre
<1>4. ASSUME NEW n \in 1 .. 5, NEW name, said[n] = name, \A k \in 1 .. 5 : k # n => said[k] # name
      PROVE  Seen(b, name) = seen[b][n]
  BY <1>1, <1>2, <1>4, Five DEF Seen
<1>5. \A k \in 1 .. 5 : k = 1 \/ k = 2 \/ k = 3 \/ k = 4 \/ k = 5
  OBVIOUS
<1>6. Seen(b, "transactions") = seen[b][1]
  BY <1>3, <1>4, <1>5
<1>7. Seen(b, "services") = seen[b][2]
  BY <1>3, <1>4, <1>5
<1>8. Seen(b, "retail") = seen[b][3]
  BY <1>3, <1>4, <1>5
<1>9. Seen(b, "staff") = seen[b][4]
  BY <1>3, <1>4, <1>5
<1>10. Seen(b, "staffSales") = seen[b][5]
  BY <1>3, <1>4, <1>5
<1> QED BY <1>6, <1>7, <1>8, <1>9, <1>10

\* The statements after the first one saw what it saw, and more.
LEMMA SalesSeen ==
  ASSUME DashboardInv, Finished, NEW b \in lookAt
  PROVE  /\ Seen(b, "transactions").sales \subseteq SalesHere(b) /\ IsFiniteSet(SalesHere(b))
         /\ SalesHere(b) \subseteq DaySales
         /\ \A name \in {"services", "retail"} :
              /\ Seen(b, "transactions").sales \subseteq Seen(b, name).sales
              /\ Seen(b, name).sales \subseteq SalesHere(b)
<1>1. \A k \in 1 .. 5 : /\ seen[b][k].sales \subseteq SalesHere(b)
                        /\ seen[b][1].sales \subseteq seen[b][k].sales
  <2>1. ASSUME NEW k \in 1 .. 5 PROVE 1 \in 1 .. k
    OBVIOUS
  <2> QED BY <2>1, Five DEF SawTruly
<1>2. IsFiniteSet(SalesHere(b)) /\ SalesHere(b) \subseteq DaySales
  <2>1. SalesHere(b) \subseteq takings
    BY DEF SalesHere
  <2> QED BY <2>1, FS_Subset DEF DashboardInv
<1>3. CASE Owner
  BY <1>1, <1>2, <1>3, SeenByOwner
<1>4. CASE ~Owner
  BY <1>1, <1>2, <1>4, SeenAtOneShop
<1> QED BY <1>3, <1>4

-----------------------------------------------------------------------------
(* The money. *)

OfServices == [s \in DaySales |-> Bill[s].services]
OfRetail == [s \in DaySales |-> Bill[s].retail]
OfDiscount == [s \in DaySales |-> Bill[s].discount]
OfSubtotal == [s \in DaySales |-> Subtotal(s)]

LEMMA MoneyTypes ==
  ASSUME NEW b \in Branchs, DashboardInv, NEW X \in SUBSET SalesHere(b), IsFiniteSet(SalesHere(b)),
         SalesHere(b) \subseteq DaySales
  PROVE  /\ IsFiniteSet(X) /\ X \subseteq DaySales
         /\ \A s \in X : /\ OfServices[s] \in Nat /\ OfRetail[s] \in Nat /\ OfDiscount[s] \in Nat
                         /\ OfSubtotal[s] \in Nat
                         /\ OfServices[s] + OfRetail[s] = OfSubtotal[s] + OfDiscount[s]
<1>1. IsFiniteSet(X) /\ X \subseteq DaySales
  BY FS_Subset
<1>2. ASSUME NEW s \in X
      PROVE  /\ OfServices[s] \in Nat /\ OfRetail[s] \in Nat /\ OfDiscount[s] \in Nat
             /\ OfSubtotal[s] \in Nat
             /\ OfServices[s] + OfRetail[s] = OfSubtotal[s] + OfDiscount[s]
  <2>1. /\ Bill[s].services \in Nat /\ Bill[s].retail \in Nat /\ Bill[s].discount \in Nat
        /\ Bill[s].discount <= Bill[s].services + Bill[s].retail
    BY <1>1, DashboardConstants
  <2>2. /\ OfServices[s] = Bill[s].services /\ OfRetail[s] = Bill[s].retail
        /\ OfDiscount[s] = Bill[s].discount
        /\ OfSubtotal[s] = Bill[s].services + Bill[s].retail - Bill[s].discount
    BY <1>1 DEF OfServices, OfRetail, OfDiscount, OfSubtotal, Subtotal
  <2> QED BY <2>1, <2>2
<1> QED BY <1>1, <1>2

\* What was billed before discounts is what services and retail come to.
LEMMA BilledInFull ==
  ASSUME NEW X, IsFiniteSet(X), X \subseteq DaySales,
         \A s \in X : /\ OfServices[s] \in Nat /\ OfRetail[s] \in Nat /\ OfDiscount[s] \in Nat
                      /\ OfSubtotal[s] \in Nat
                      /\ OfServices[s] + OfRetail[s] = OfSubtotal[s] + OfDiscount[s]
  PROVE  SumFunctionOnSet(OfServices, X) + SumFunctionOnSet(OfRetail, X)
           = SumFunctionOnSet(OfSubtotal, X) + SumFunctionOnSet(OfDiscount, X)
<1> DEFINE gross == [s \in X |-> OfServices[s] + OfRetail[s]]
<1>1. SumFunctionOnSet(gross, X) = SumFunctionOnSet(OfServices, X) + SumFunctionOnSet(OfRetail, X)
  <2>1. \A s \in X : gross[s] = OfServices[s] + OfRetail[s]
    OBVIOUS
  <2> HIDE DEF gross
  <2> QED BY <2>1, SumPlus
<1>2. SumFunctionOnSet(gross, X) = SumFunctionOnSet(OfSubtotal, X) + SumFunctionOnSet(OfDiscount, X)
  <2>1. \A s \in X : gross[s] = OfSubtotal[s] + OfDiscount[s]
    OBVIOUS
  <2> HIDE DEF gross
  <2> QED BY <2>1, SumPlus
<1> QED BY <1>1, <1>2

\* What the later statements saw more than the first one.
Late(b, statement) == Seen(b, statement).sales \ Seen(b, "transactions").sales

\* The figures of one shop, and the sums of what was late.
LEMMA ShopMoney ==
  ASSUME DashboardInv, Finished, NEW b \in lookAt,
         NEW g, g = SumFunction([s \in Late(b, "services") |-> Bill[s].services]),
         NEW h, h = SumFunction([s \in Late(b, "retail") |-> Bill[s].retail])
  PROVE  /\ Figures(b).revenue \in Int /\ Figures(b).discount \in Int
         /\ Figures(b).serviceRevenue \in Int /\ Figures(b).retailRevenue \in Int
         /\ g \in Int /\ h \in Int
         /\ Figures(b).serviceRevenue + Figures(b).retailRevenue
              = Figures(b).revenue + Figures(b).discount + g + h
<1> DEFINE T == Seen(b, "transactions").sales
           V == Seen(b, "services").sales
           R == Seen(b, "retail").sales
<1>1. /\ b \in Branchs /\ T \in SUBSET SalesHere(b) /\ V \in SUBSET SalesHere(b) /\ R \in SUBSET SalesHere(b)
      /\ T \subseteq V /\ T \subseteq R /\ IsFiniteSet(SalesHere(b)) /\ SalesHere(b) \subseteq DaySales
  BY SalesSeen, Five
<1>2. /\ Figures(b).revenue = SumFunction([s \in T |-> Subtotal(s)])
      /\ Figures(b).discount = SumFunction([s \in T |-> Bill[s].discount])
      /\ Figures(b).serviceRevenue = SumFunction([s \in V |-> Bill[s].services])
      /\ Figures(b).retailRevenue = SumFunction([s \in R |-> Bill[s].retail])
  BY DEF Figures
<1> HIDE DEF T, V, R
<1>3. /\ Late(b, "services") = V \ T /\ Late(b, "retail") = R \ T
  BY DEF Late, T, V, R
<1>4. ASSUME NEW X \in SUBSET SalesHere(b)
      PROVE  /\ SumFunction([s \in X |-> Subtotal(s)]) = SumFunctionOnSet(OfSubtotal, X)
             /\ SumFunction([s \in X |-> Bill[s].discount]) = SumFunctionOnSet(OfDiscount, X)
             /\ SumFunction([s \in X |-> Bill[s].services]) = SumFunctionOnSet(OfServices, X)
             /\ SumFunction([s \in X |-> Bill[s].retail]) = SumFunctionOnSet(OfRetail, X)
  <2>1. IsFiniteSet(X) /\ X \subseteq DaySales
    BY <1>1, MoneyTypes
  <2>2. ASSUME NEW f, DOMAIN f = X, NEW e, \A s \in X : f[s] = e[s]
        PROVE  SumFunction(f) = SumFunctionOnSet(e, X)
    BY <2>1, <2>2, SumFunctionIs
  <2>3. SumFunction([s \in X |-> Subtotal(s)]) = SumFunctionOnSet(OfSubtotal, X)
    <3>1. \A s \in X : [x \in X |-> Subtotal(x)][s] = OfSubtotal[s]
      BY <2>1 DEF OfSubtotal
    <3> QED BY <3>1, <2>2
  <2>4. SumFunction([s \in X |-> Bill[s].discount]) = SumFunctionOnSet(OfDiscount, X)
    <3>1. \A s \in X : [x \in X |-> Bill[x].discount][s] = OfDiscount[s]
      BY <2>1 DEF OfDiscount
    <3> QED BY <3>1, <2>2
  <2>5. SumFunction([s \in X |-> Bill[s].services]) = SumFunctionOnSet(OfServices, X)
    <3>1. \A s \in X : [x \in X |-> Bill[x].services][s] = OfServices[s]
      BY <2>1 DEF OfServices
    <3> QED BY <3>1, <2>2
  <2>6. SumFunction([s \in X |-> Bill[s].retail]) = SumFunctionOnSet(OfRetail, X)
    <3>1. \A s \in X : [x \in X |-> Bill[x].retail][s] = OfRetail[s]
      BY <2>1 DEF OfRetail
    <3> QED BY <3>1, <2>2
  <2> QED BY <2>3, <2>4, <2>5, <2>6
<1>5. ASSUME NEW X \in SUBSET SalesHere(b)
      PROVE  /\ SumFunctionOnSet(OfSubtotal, X) \in Int /\ SumFunctionOnSet(OfDiscount, X) \in Int
             /\ SumFunctionOnSet(OfServices, X) \in Int /\ SumFunctionOnSet(OfRetail, X) \in Int
  <2>1. /\ IsFiniteSet(X)
        /\ \A s \in X : OfSubtotal[s] \in Int /\ OfDiscount[s] \in Int /\ OfServices[s] \in Int /\ OfRetail[s] \in Int
    BY <1>1, MoneyTypes
  <2> QED BY <2>1, SumTypes
<1>6. /\ SumFunctionOnSet(OfServices, V) = SumFunctionOnSet(OfServices, T) + SumFunctionOnSet(OfServices, V \ T)
      /\ SumFunctionOnSet(OfRetail, R) = SumFunctionOnSet(OfRetail, T) + SumFunctionOnSet(OfRetail, R \ T)
  <2>1. ASSUME NEW X \in SUBSET SalesHere(b), T \subseteq X, NEW f, \A s \in X : f[s] \in Int
        PROVE  SumFunctionOnSet(f, X) = SumFunctionOnSet(f, T) + SumFunctionOnSet(f, X \ T)
    <3>1. IsFiniteSet(T) /\ IsFiniteSet(X \ T) /\ T \cap (X \ T) = {} /\ T \cup (X \ T) = X
      BY <1>1, <2>1, MoneyTypes, FS_Subset
    <3>2. SumFunctionOnSet(f, T \cup (X \ T)) = SumFunctionOnSet(f, T) + SumFunctionOnSet(f, X \ T)
      BY <2>1, <3>1, SumJoins
    <3>3. SumFunctionOnSet(f, T \cup (X \ T)) = SumFunctionOnSet(f, X)
      BY <3>1, Zenon
    <3> QED BY <3>2, <3>3
  <2>2. \A s \in V : OfServices[s] \in Int
    BY <1>1, MoneyTypes
  <2>3. \A s \in R : OfRetail[s] \in Int
    BY <1>1, MoneyTypes
  <2> QED BY <1>1, <2>1, <2>2, <2>3
<1>7. SumFunctionOnSet(OfServices, T) + SumFunctionOnSet(OfRetail, T)
        = SumFunctionOnSet(OfSubtotal, T) + SumFunctionOnSet(OfDiscount, T)
  BY <1>1, MoneyTypes, BilledInFull
<1>8. V \ T \in SUBSET SalesHere(b) /\ R \ T \in SUBSET SalesHere(b)
  BY <1>1
<1>9. g = SumFunctionOnSet(OfServices, V \ T) /\ h = SumFunctionOnSet(OfRetail, R \ T)
  <2>1. g = SumFunction([s \in V \ T |-> Bill[s].services]) /\ h = SumFunction([s \in R \ T |-> Bill[s].retail])
    BY <1>3
  <2> QED BY <2>1, <1>4, <1>8
<1>10. /\ Figures(b).revenue = SumFunctionOnSet(OfSubtotal, T)
       /\ Figures(b).discount = SumFunctionOnSet(OfDiscount, T)
       /\ Figures(b).serviceRevenue = SumFunctionOnSet(OfServices, V)
       /\ Figures(b).retailRevenue = SumFunctionOnSet(OfRetail, R)
  BY <1>1, <1>2, <1>4
<1>11. /\ Figures(b).revenue \in Int /\ Figures(b).discount \in Int
       /\ Figures(b).serviceRevenue \in Int /\ Figures(b).retailRevenue \in Int /\ g \in Int /\ h \in Int
  BY <1>1, <1>5, <1>8, <1>9, <1>10
<1>12. /\ SumFunctionOnSet(OfServices, T) \in Int /\ SumFunctionOnSet(OfRetail, T) \in Int
  BY <1>1, <1>5
<1> QED BY <1>6, <1>7, <1>9, <1>10, <1>11, <1>12

LEMMA MoneyExplained == DashboardInv => MoneyIsExplained
<1> SUFFICES ASSUME DashboardInv, Finished
             PROVE  LET late(b, statement) == Seen(b, statement).sales \ Seen(b, "transactions").sales
                        gap == SumFunction([b \in lookAt |->
                                 SumFunction([s \in late(b, "services") |-> Bill[s].services])
                                   + SumFunction([s \in late(b, "retail") |-> Bill[s].retail])])
                    IN  Totals.serviceRevenue + Totals.retailRevenue = Totals.revenue + Totals.discount + gap
  BY DEF MoneyIsExplained
<1> DEFINE svc == [b \in lookAt |-> SumFunction([s \in Late(b, "services") |-> Bill[s].services])]
           rtl == [b \in lookAt |-> SumFunction([s \in Late(b, "retail") |-> Bill[s].retail])]
           gaps == [b \in lookAt |-> SumFunction([s \in Late(b, "services") |-> Bill[s].services])
                                       + SumFunction([s \in Late(b, "retail") |-> Bill[s].retail])]
           A == [b \in lookAt |-> Figures(b)["serviceRevenue"]]
           B == [b \in lookAt |-> Figures(b)["retailRevenue"]]
           C == [b \in lookAt |-> Figures(b)["revenue"]]
           D == [b \in lookAt |-> Figures(b)["discount"]]
           both == [b \in lookAt |-> A[b] + B[b]]
           net == [b \in lookAt |-> C[b] + D[b]]
<1>1. IsFiniteSet(lookAt)
  <2>1. \A b \in Branchs : IsFiniteSet({b})
    BY FS_Singleton
  <2>2. IsFiniteSet({})
    BY FS_EmptySet
  <2>3. IsFiniteSet(Branchs)
    BY DashboardConstants
  <2>4. lookAt = {} \/ lookAt = Branchs \/ \E b \in Branchs : lookAt = {b}
    BY DEF DashboardInv
  <2> QED BY <2>1, <2>2, <2>3, <2>4, Zenon
<1>2. ASSUME NEW b \in lookAt
      PROVE  /\ A[b] \in Int /\ B[b] \in Int /\ C[b] \in Int /\ D[b] \in Int /\ gaps[b] \in Int
             /\ A[b] + B[b] = C[b] + D[b] + gaps[b]
  <2>1. /\ Figures(b).revenue \in Int /\ Figures(b).discount \in Int
        /\ Figures(b).serviceRevenue \in Int /\ Figures(b).retailRevenue \in Int
        /\ svc[b] \in Int /\ rtl[b] \in Int
        /\ Figures(b).serviceRevenue + Figures(b).retailRevenue
             = Figures(b).revenue + Figures(b).discount + svc[b] + rtl[b]
    BY ShopMoney
  <2>2. gaps[b] = svc[b] + rtl[b]
    OBVIOUS
  <2> HIDE DEF svc, rtl, gaps
  <2> QED BY <2>1, <2>2
<1>3. /\ Totals.serviceRevenue = SumFunctionOnSet(A, lookAt) /\ Totals.retailRevenue = SumFunctionOnSet(B, lookAt)
      /\ Totals.revenue = SumFunctionOnSet(C, lookAt) /\ Totals.discount = SumFunctionOnSet(D, lookAt)
  BY DEF Totals, SumFunction
<1>4. SumFunction(gaps) = SumFunctionOnSet(gaps, lookAt)
  BY DEF SumFunction
<1>5. \A b \in lookAt : both[b] = A[b] + B[b] /\ net[b] = C[b] + D[b]
  OBVIOUS
<1> HIDE DEF A, B, C, D, both, net, gaps
<1>6. \A b \in lookAt : both[b] \in Int /\ net[b] \in Int /\ both[b] = net[b] + gaps[b]
  BY <1>2, <1>5
<1>7. SumFunctionOnSet(both, lookAt) = SumFunctionOnSet(A, lookAt) + SumFunctionOnSet(B, lookAt)
  BY <1>1, <1>2, <1>5, SumPlus
<1>8. SumFunctionOnSet(net, lookAt) = SumFunctionOnSet(C, lookAt) + SumFunctionOnSet(D, lookAt)
  BY <1>1, <1>2, <1>5, SumPlus
<1>9. SumFunctionOnSet(both, lookAt) = SumFunctionOnSet(net, lookAt) + SumFunctionOnSet(gaps, lookAt)
  BY <1>1, <1>2, <1>6, SumPlus
<1>10. Totals.serviceRevenue + Totals.retailRevenue = Totals.revenue + Totals.discount + SumFunction(gaps)
  BY <1>3, <1>4, <1>7, <1>8, <1>9
<1> QED BY <1>10 DEF gaps, Late

-----------------------------------------------------------------------------
(* The staff's rows. *)

LEMMA StaffSalesSeen ==
  ASSUME DashboardInv, Finished, ~Owner, NEW b \in lookAt
  PROVE  /\ Seen(b, "transactions").sales \subseteq Seen(b, "staffSales").sales
         /\ Seen(b, "staffSales").sales \subseteq SalesHere(b)
<1>1. 1 \in 1 .. 5
  OBVIOUS
<1>2. SawTruly(b, 5)
  BY Five
<1> QED BY <1>1, <1>2, SeenAtOneShop DEF SawTruly

LEMMA PartOfAll ==
  ASSUME NEW a \in Nat, NEW c \in Nat, c # 0
  PROVE  (100 * a) \div c \in Nat
OBVIOUS

LEMMA StaffAdded == DashboardInv => StaffAddUp
<1> SUFFICES ASSUME DashboardInv, Finished, ~Owner, NEW b \in lookAt
             PROVE  LET rows == StaffToday(b)
                        named == {s \in Seen(b, "transactions").sales : Bill[s].post # NoPost}
                    IN  /\ SumFunction([p \in DOMAIN rows |-> rows[p].revenue])
                             >= SumFunction([s \in named |-> Subtotal(s)])
                        /\ Utilization(b) \in 0 .. 100
                        /\ ManagerFigures(b) # {} <=> \A p \in DOMAIN rows : rows[p].classification # {}
  BY DEF StaffAddUp
<1> DEFINE rows == StaffToday(b)
           X == Seen(b, "staffSales").sales
           T == Seen(b, "transactions").sales
           named == {s \in T : Bill[s].post # NoPost}
           known == {s \in X : Bill[s].post # NoPost}
           mine(p) == {s \in X : Bill[s].post = p}
<1>1. /\ b \in Branchs /\ T \subseteq X /\ X \subseteq SalesHere(b)
      /\ IsFiniteSet(SalesHere(b)) /\ SalesHere(b) \subseteq DaySales
  BY Five, SalesSeen, StaffSalesSeen
<1>2. PostsHere(b) # {} /\ PostsHere(b) \subseteq Posts /\ IsFiniteSet(PostsHere(b))
  <2>1. PostsHere(b) # {} /\ PostsHere(b) \subseteq Posts
    BY <1>1, DashboardConstants DEF PostsHere
  <2> QED BY <2>1, DashboardConstants, FS_Subset
<1>3. /\ DOMAIN rows = PostsHere(b)
      /\ \A p \in PostsHere(b) :
           /\ rows[p].clients = Cardinality(mine(p))
           /\ rows[p].revenue = SumFunction([s \in mine(p) |-> Subtotal(s)])
           /\ rows[p].classification # {} <=> canViewClassification(looker)
           /\ rows[p].scheduledMinutes = ShiftMinutes[p]
  BY DEF StaffToday, PostsHere
<1>4. Utilization(b) = IF SumFunction([p \in DOMAIN rows |-> rows[p].scheduledMinutes]) = 0 THEN 0
                       ELSE Min({100, (100 * (30 * SumFunction([p \in DOMAIN rows |-> rows[p].clients])))
                                        \div SumFunction([p \in DOMAIN rows |-> rows[p].scheduledMinutes])})
  BY DEF Utilization
<1> HIDE DEF rows, X, T
<1>5. ASSUME NEW Y \in SUBSET X
      PROVE  /\ IsFiniteSet(Y) /\ Y \subseteq DaySales
             /\ \A s \in Y : OfSubtotal[s] \in Nat /\ Bill[s].shop = b
             /\ SumFunction([s \in Y |-> Subtotal(s)]) = SumFunctionOnSet(OfSubtotal, Y)
  <2>1. IsFiniteSet(Y) /\ Y \subseteq DaySales /\ \A s \in Y : OfSubtotal[s] \in Nat
    BY <1>1, MoneyTypes
  <2>2. \A s \in Y : [x \in Y |-> Subtotal(x)][s] = OfSubtotal[s]
    BY <2>1 DEF OfSubtotal
  <2>3. SumFunction([s \in Y |-> Subtotal(s)]) = SumFunctionOnSet(OfSubtotal, Y)
    BY <2>1, <2>2, SumFunctionIs
  <2> QED BY <1>1, <2>1, <2>3 DEF SalesHere
<1>6. SumFunction([p \in DOMAIN rows |-> rows[p].revenue]) >= SumFunction([s \in named |-> Subtotal(s)])
  <2> DEFINE each == [p \in PostsHere(b) |-> rows[p].revenue]
             whose == [s \in known |-> Bill[s].post]
  <2>1. known \in SUBSET X /\ named \in SUBSET X /\ named \subseteq known
    BY <1>1
  <2>2. \A s \in known : whose[s] \in PostsHere(b)
    <3> SUFFICES ASSUME NEW s \in known PROVE Bill[s].post \in PostsHere(b)
      OBVIOUS
    <3>1. s \in DaySales /\ Bill[s].shop = b /\ Bill[s].post # NoPost
      BY <1>5, <2>1
    <3> QED BY <3>1, DashboardConstants DEF PostsHere
  <2>3. ASSUME NEW p \in PostsHere(b)
        PROVE  each[p] = SumFunctionOnSet(OfSubtotal, PartAt(whose, known, p))
    <3>1. p # NoPost
      BY <1>2, DashboardConstants
    <3>2. PartAt(whose, known, p) = mine(p) /\ mine(p) \in SUBSET X
      BY <3>1 DEF PartAt
    <3>3. each[p] = SumFunctionOnSet(OfSubtotal, mine(p))
      BY <1>3, <1>5, <3>2
    <3> HIDE DEF each, whose, mine, known
    <3> QED BY <3>2, <3>3, Zenon
  <2>4. SumFunction([p \in DOMAIN rows |-> rows[p].revenue]) = SumFunctionOnSet(each, PostsHere(b))
    BY <1>3 DEF SumFunction
  <2>5. IsFiniteSet(known) /\ \A s \in known : OfSubtotal[s] \in Nat
    BY <1>5, <2>1
  <2> HIDE DEF each, whose, known
  <2>6. SumFunctionOnSet(each, PostsHere(b)) = SumFunctionOnSet(OfSubtotal, known)
    <3>1. \A s \in known : OfSubtotal[s] \in Int
      BY <2>5
    <3> QED BY <1>2, <2>2, <2>3, <2>5, <3>1, SumByParts
  <2>7. SumFunctionOnSet(OfSubtotal, named) <= SumFunctionOnSet(OfSubtotal, known)
    <3>1. (\A s \in known : OfSubtotal[s] \in Int) /\ \A s \in known \ named : OfSubtotal[s] \in Nat
      BY <2>5
    <3> HIDE DEF named
    <3> QED BY <2>1, <2>5, <3>1, SumGrows
  <2>8. SumFunctionOnSet(OfSubtotal, named) \in Int /\ SumFunctionOnSet(OfSubtotal, known) \in Int
    <3>1. \A s \in known : OfSubtotal[s] \in Int
      BY <2>5
    <3> HIDE DEF named
    <3>2. IsFiniteSet(named) /\ \A s \in named : OfSubtotal[s] \in Nat
      BY <1>5, <2>1
    <3>3. \A s \in named : OfSubtotal[s] \in Int
      BY <3>2
    <3> QED BY <2>5, <3>1, <3>2, <3>3, SumTypes
  <2>9. SumFunction([s \in named |-> Subtotal(s)]) = SumFunctionOnSet(OfSubtotal, named)
    BY <1>5, <2>1
  <2> HIDE DEF named
  <2> QED BY <2>4, <2>6, <2>7, <2>8, <2>9
<1>7. Utilization(b) \in 0 .. 100
  <2> DEFINE mins == [p \in DOMAIN rows |-> rows[p].scheduledMinutes]
             heads == [p \in DOMAIN rows |-> rows[p].clients]
  <2>1. \A p \in PostsHere(b) : mins[p] \in Nat /\ heads[p] \in Nat
    <3> SUFFICES ASSUME NEW p \in PostsHere(b) PROVE mins[p] \in Nat /\ heads[p] \in Nat
      OBVIOUS
    <3>1. ShiftMinutes[p] \in Nat
      BY <1>2, DashboardConstants
    <3>2. Cardinality(mine(p)) \in Nat
      <4>1. IsFiniteSet(mine(p))
        BY <1>5
      <4> QED BY <4>1, FS_CardinalityType
    <3> QED BY <1>3, <3>1, <3>2
  <2>2. DOMAIN mins = PostsHere(b) /\ DOMAIN heads = PostsHere(b)
    BY <1>3
  <2> HIDE DEF mins, heads
  <2>3. SumFunction(mins) \in Nat /\ SumFunction(heads) \in Nat
    BY <1>2, <2>1, <2>2, SumTypes DEF SumFunction
  <2>4. Utilization(b) = IF SumFunction(mins) = 0 THEN 0
                         ELSE Min({100, (100 * (30 * SumFunction(heads))) \div SumFunction(mins)})
    BY <1>4 DEF mins, heads
  <2>5. CASE SumFunction(mins) # 0
    <3> DEFINE part == (100 * (30 * SumFunction(heads))) \div SumFunction(mins)
    <3>1. 30 * SumFunction(heads) \in Nat
      BY <2>3
    <3>2. part \in Nat
      BY <2>3, <2>5, <3>1, PartOfAll
    <3>3. Utilization(b) = Min({100, part})
      BY <2>4, <2>5
    <3> HIDE DEF part
    <3>4. \E x \in {100, part} : \A y \in {100, part} : x <= y
      BY <3>2
    <3>5. Min({100, part}) \in {100, part} /\ Min({100, part}) <= 100
      BY <3>4 DEF Min
    <3> QED BY <3>2, <3>3, <3>5
  <2> QED BY <2>4, <2>5
<1>8. ManagerFigures(b) # {} <=> \A p \in DOMAIN rows : rows[p].classification # {}
  BY <1>2, <1>3 DEF ManagerFigures
<1> QED BY <1>6, <1>7, <1>8 DEF rows, T

-----------------------------------------------------------------------------
(* The owner's team. *)

\* Of somebody who has not changed since the look began, it saw what is still so.
LEMMA TermsSeen ==
  ASSUME DashboardInv, Finished, Owner, NEW p \in Posts \ moved, PostOf[p].shop \in lookAt
  PROVE  /\ Seen(PostOf[p].shop, "staff").terms[p] = terms[p]
         /\ Seen(PostOf[p].shop, "compensation").terms[p] = terms[p]
<1>1. 2 \in 1 .. 5 /\ 5 \in 1 .. 5 /\ p \in PostsHere(PostOf[p].shop)
  BY DEF PostsHere
<1>2. SawTruly(PostOf[p].shop, 2) /\ SawTruly(PostOf[p].shop, 5)
  BY <1>1, Five
<1> QED BY <1>1, <1>2, SeenByOwner DEF SawTruly

LEMMA OwnerLooksEverywhere == DashboardInv /\ Owner => lookAt = Branchs
<1>1. \A b \in Branchs : Cardinality({b}) = 1
  BY FS_Singleton, Zenon
<1>2. ~(Cardinality({}) > 1)
  BY FS_EmptySet
<1>3. ASSUME DashboardInv, Owner, lookAt # Branchs PROVE FALSE
  <2>1. CASE lookAt = {}
    <3>1. Cardinality(lookAt) = Cardinality({})
      BY <2>1, Zenon
    <3> QED BY <1>2, <1>3, <3>1 DEF Owner
  <2>2. ASSUME NEW b \in Branchs, lookAt = {b} PROVE FALSE
    <3>1. Cardinality(lookAt) = Cardinality({b})
      BY <2>2, Zenon
    <3> QED BY <1>1, <1>3, <3>1 DEF Owner
  <2>3. lookAt = {} \/ lookAt = Branchs \/ \E b \in Branchs : lookAt = {b}
    BY <1>3 DEF DashboardInv
  <2> QED BY <1>3, <2>1, <2>2, <2>3, Zenon
<1> QED BY <1>3

LEMMA PeopleTold == DashboardInv => PeopleAreToldWhole
<1> SUFFICES ASSUME DashboardInv, Finished, Owner
             PROVE  /\ \A who \in PeopleSeen, f \in TermFields :
                         AssignmentsOf(who) \cap moved = {} =>
                           LET say  == {terms[p][f] : p \in AssignmentsOf(who)}
                               told == PersonField(who, f)
                           IN  IF told = Mixed THEN Cardinality(say) > 1 ELSE say = {told}
                    /\ \A p \in Posts \ moved :
                         terms[p].pay = "not_configured" => PostOf[p].shop \in PayIncomplete
  BY DEF PeopleAreToldWhole
<1>1. ASSUME NEW who \in PeopleSeen, NEW f \in TermFields, AssignmentsOf(who) \cap moved = {},
             NEW say, say = {terms[p][f] : p \in AssignmentsOf(who)},
             NEW told, told = PersonField(who, f)
      PROVE  IF told = Mixed THEN Cardinality(say) > 1 ELSE say = {told}
  <2>1. AssignmentsOf(who) \subseteq Posts /\ AssignmentsOf(who) # {}
    BY DEF PeopleSeen, AssignmentsOf
  <2>2. \A p \in AssignmentsOf(who) : Seen(PostOf[p].shop, "staff").terms[p] = terms[p]
    BY <1>1, TermsSeen DEF AssignmentsOf
  <2>3. SaidOf(who, f) = say
    BY <1>1, <2>2 DEF SaidOf
  <2>4. told = IF Cardinality(SaidOf(who, f)) = 1 THEN CHOOSE v \in SaidOf(who, f) : TRUE ELSE Mixed
    BY <1>1, Zenon DEF PersonField
  <2>5. IsFiniteSet(say) /\ say # {} /\ Mixed \notin say
    <3>1. IsFiniteSet(AssignmentsOf(who))
      BY <2>1, DashboardConstants, FS_Subset
    <3>2. IsFiniteSet(say)
      <4> DEFINE saying == [p \in AssignmentsOf(who) |-> terms[p][f]]
      <4>1. saying \in Surjection(AssignmentsOf(who), say)
        BY <1>1 DEF Surjection
      <4> QED BY <3>1, <4>1, FS_Surjection DEF ExistsSurjection
    <3>3. \A p \in AssignmentsOf(who) : terms[p] \in Terms
      BY <2>1 DEF DashboardInv
    <3> QED BY <1>1, <2>1, <3>2, <3>3, DashboardConstants
  <2>6. Cardinality(say) \in Nat /\ Cardinality(say) # 0
    BY <2>5, FS_CardinalityType, FS_EmptySet
  <2>7. Cardinality(SaidOf(who, f)) = Cardinality(say)
    BY <2>3, Zenon
  <2>8. CASE Cardinality(say) = 1
    <3>1. \E v : say = {v}
      BY <2>5, <2>8, FS_Singleton
    <3>2. told \in SaidOf(who, f)
      BY <2>3, <2>4, <2>5, <2>7, <2>8
    <3> QED BY <2>3, <2>5, <3>1, <3>2
  <2>9. CASE Cardinality(say) # 1
    BY <2>4, <2>6, <2>7, <2>9
  <2> QED BY <2>8, <2>9
<1>2. ASSUME NEW p \in Posts \ moved, terms[p].pay = "not_configured"
      PROVE  PostOf[p].shop \in PayIncomplete
  <2>1. PostOf[p].shop \in lookAt
    BY OwnerLooksEverywhere, DashboardConstants
  <2>2. Seen(PostOf[p].shop, "compensation").terms[p].pay = "not_configured"
    BY <1>2, <2>1, TermsSeen
  <2> QED BY <2>1, <2>2 DEF PayIncomplete
<1> QED BY <1>1, <1>2

\* The dashboards' promise: what a finished look tells of the money adds up to what it was made of,
\* the staff's rows account for the shop's revenue, and nobody is told to be what he is not.
THEOREM DashboardsTold == DashboardSpec => []DashboardTells
<1>1. DashboardInit => DashboardInv
  BY DashboardStarts
<1>2. DashboardInv /\ [DashboardNext]_dashboardVars => DashboardInv'
  BY DashboardStep
<1>3. DashboardInv => DashboardTells
  BY MoneyExplained, StaffAdded, PeopleTold DEF DashboardTells
<1> QED BY <1>1, <1>2, <1>3, PTL DEF DashboardSpec

LookerKept == looker \in Lookers

\* What a statement saw of a shop is on the books, whoever looks.
THEOREM DashboardsTyped == DashboardSpec => []DashboardTypeOK
<1>1. DashboardInit => DashboardInv /\ LookerKept
  BY DashboardStarts DEF DashboardInit, LookerKept
<1>2. LookerKept /\ [DashboardNext]_dashboardVars => LookerKept'
  BY DEF LookerKept, DashboardNext, dashboardVars, SellToday, ChangeTerms, StartLook, ReadNext
<1>3. DashboardInv /\ LookerKept => DashboardTypeOK
  <2> SUFFICES ASSUME DashboardInv, LookerKept PROVE DashboardTypeOK
    OBVIOUS
  <2>1. ASSUME NEW b \in Branchs, NEW k \in DOMAIN seen[b] PROVE seen[b][k].sales \subseteq takings
    <3>1. SawTruly(b, k)
      BY DEF DashboardInv
    <3> QED BY <3>1 DEF SawTruly, SalesHere
  <2>2. lookAt \subseteq Branchs
    BY DEF DashboardInv
  <2> QED BY <2>1, <2>2 DEF DashboardInv, DashboardTypeOK, LookerKept
<1> QED BY <1>1, <1>2, <1>3, DashboardStep, PTL DEF DashboardSpec
=============================================================================
