----------------------------- MODULE FloorBoard -----------------------------
(***************************************************************************)
(* What the board shows of the day ahead: getBoard in queue.service.ts     *)
(* with service-performance.ts, appointment-sla.ts, best-match.ts,         *)
(* wait-time.ts, overrun.ts and barber-timeline.ts.  Nothing of it is      *)
(* stored: it is computed again from the line, the chairs and the clock    *)
(* states whenever a tablet asks.  A party is named by its place in line,  *)
(* times are minutes, and a median is rounded to a whole one.              *)
(***************************************************************************)
EXTENDS Integers, Listing, SequencesExt, FiniteSetsExt, Functions

CONSTANTS
  Roster,      \* the barbers, ordered by name
  NoBarber,    \* nobody asked for
  Never,       \* no appointment, an empty chair
  Works,       \* services
  Catalog,     \* the minutes the catalog gives each service
  SampleLimit, \* readings kept of one barber and service, ten in the code
  FewestReadings, \* readings a median is trusted from, three in the code
  OutlierMultiple,
  CatchUp,     \* DEFAULT_CATCH_UP_BUFFER_MINUTES
  MaxWait,     \* appointment_max_wait_minutes
  Leaning,     \* the sign of client_continuity_weight - 50
  Lines, Floors, Histories, \* what the tables may hold, a bound on the model
  LastMinute   \* a bound on the model

Barber == ToSet(Roster)
Party == [work: Works, present: BOOLEAN, ready: BOOLEAN, late: BOOLEAN, at: Int \cup {Never},
          asked: Barber \cup {NoBarber}, visits: [Barber -> Nat]]
Chair == [clock: {"available", "busy", "break", "off"}, since: Int \cup {Never}, work: Works]

ASSUME FloorBoardConstants ==
  /\ Roster \in Seq(Barber) /\ \A i, j \in DOMAIN Roster : i # j => Roster[i] # Roster[j]
  /\ NoBarber \notin Barber /\ Never \notin Int
  /\ Catalog \in [Works -> Nat \ {0}] /\ OutlierMultiple \in Nat \ {0}
  /\ SampleLimit \in Nat /\ SampleLimit >= 3 /\ FewestReadings \in Nat /\ FewestReadings >= 2
  /\ CatchUp \in Nat /\ MaxWait \in Nat /\ Leaning \in -1 .. 1 /\ LastMinute \in Nat
  /\ Lines \subseteq Seq(Party) /\ Floors \subseteq [Barber -> Chair]
  /\ Histories \subseteq Seq([barber: Barber, work: Works, minutes: Int])

VARIABLES line, floor, history, minute

boardVars == <<line, floor, history, minute>>

BoardInit ==
  /\ line \in Lines /\ floor \in Floors /\ history \in Histories /\ minute = 0

-----------------------------------------------------------------------------
(* How long a service takes: the median of the newest readings. *)

\* The places of a list of numbers, the smaller number first.
Smaller(s) ==
  {p \in (DOMAIN s) \X (DOMAIN s) : s[p[1]] < s[p[2]] \/ (s[p[1]] = s[p[2]] /\ p[1] < p[2])}

Sorted(s) == LET at == Ranked(DOMAIN s, Smaller(s)) IN [i \in DOMAIN s |-> s[at[i]]]

Middle(sorted) ==
  LET half == Len(sorted) \div 2
  IN  IF Len(sorted) % 2 = 0 THEN (sorted[half] + sorted[half + 1] + 1) \div 2 ELSE sorted[half + 1]

Median(s) == Middle(Sorted(s))

Plausible(r) == r.minutes > 0 /\ r.minutes <= OutlierMultiple * Catalog[r.work]

Readings(b, w) ==
  LET kept == Sublist(history, {i \in DOMAIN history : /\ history[i].barber = b /\ history[i].work = w
                                                     /\ Plausible(history[i])})
  IN  [i \in 1 .. Min({Len(kept), SampleLimit}) |-> kept[i].minutes]

Trusted(b, w) == Len(Readings(b, w)) >= FewestReadings

PoolMedians(w) ==
  LET measured == Sublist(Roster, {i \in DOMAIN Roster : floor[Roster[i]].clock # "off" /\ Trusted(Roster[i], w)})
  IN  [i \in DOMAIN measured |-> Median(Readings(measured[i], w))]

\* The barber's own median, or that of the floor, or the catalog's minutes.
ExpectedMinutesFor(b, w) ==
  CASE b # NoBarber /\ Trusted(b, w)        -> Median(Readings(b, w))
    [] ~(b # NoBarber /\ Trusted(b, w))
         /\ PoolMedians(w) # <<>>           -> Median(PoolMedians(w))
    [] OTHER                                -> Catalog[w]

Duration(e) == ExpectedMinutesFor(line[e].asked, line[e].work)

-----------------------------------------------------------------------------
(* Appointments that would start too late are moved up, on the board only. *)

\* The running clock: one shared chair, each party after the one before it.
EstimatedStart(es) ==
  LET minutes == [j \in DOMAIN es |-> Duration(es[j])]
  IN  [i \in DOMAIN es |-> minute + SumFunctionOnSet(minutes, 1 .. i - 1)]

Deadline(e) == line[e].at + MaxWait

Overdue(es) ==
  {i \in DOMAIN es : /\ line[es[i]].present /\ line[es[i]].at # Never
                     /\ EstimatedStart(es)[i] > Deadline(es[i])}

\* The loop steps past every place that starts in time and inserts behind the last of them.
InsertPlace(rest, deadline) ==
  1 + Cardinality({i \in DOMAIN rest : EstimatedStart(rest)[i] <= deadline})

BumpFirst_Swap(sla) ==
  LET i == Min(Overdue(sla.order))
      e == sla.order[i]
      k == InsertPlace(RemoveAt(sla.order, i), Deadline(e))
  IN  [order |-> [sla.order EXCEPT ![i] = sla.order[k], ![k] = e], bumped |-> sla.bumped \cup {e}]

BumpFirst(sla) ==
  LET i    == Min(Overdue(sla.order))
      e    == sla.order[i]
      rest == RemoveAt(sla.order, i)
  IN  [order |-> InsertAt(rest, InsertPlace(rest, Deadline(e)), e), bumped |-> sla.bumped \cup {e}]

\* A late arrival is held out of every estimate.
Participants == LET inTime == {e \in DOMAIN line : ~line[e].late} IN Ranked(inTime, Ascending(inTime))

\* As many rounds as there are parties, or fewer.
Sla ==
  FoldLeft(LAMBDA sla, round : IF Overdue(sla.order) = {} THEN sla ELSE BumpFirst(sla),
           [order |-> Participants, bumped |-> {}], Participants)

-----------------------------------------------------------------------------
(* Who should take whom: in the order of the bumped line, nobody twice. *)

\* Earlier visits with a barber count for or against, ties go by name; a barber that was asked
\* for is taken if free.
ChooseBestMatch(e, free) ==
  LET score(b) == Leaning * line[e].visits[b]
      best     == Max({score(free[i]) : i \in DOMAIN free})
  IN  IF line[e].asked \in ToSet(free) THEN line[e].asked
      ELSE free[Min({i \in DOMAIN free : score(free[i]) = best})]

Free(match) ==
  Sublist(Roster, {i \in DOMAIN Roster : /\ floor[Roster[i]].clock = "available"
                                        /\ Roster[i] \notin {m[2] : m \in match}})

Ready(e) == line[e].present /\ line[e].ready

Recommendations ==
  FoldLeft(LAMBDA match, e : IF ~Ready(e) \/ Free(match) = <<>> THEN match
                             ELSE match \cup {<<e, ChooseBestMatch(e, Free(match))>>},
           {}, Sla.order)

-----------------------------------------------------------------------------
(* Every barber's day. *)

\* A job that runs over ends a cushion from now.
ProjectedEnd(b) ==
  LET predicted == floor[b].since + ExpectedMinutesFor(b, floor[b].work)
  IN  IF minute <= predicted THEN predicted ELSE minute + CatchUp

OnFloor == Sublist(Roster, {i \in DOMAIN Roster : floor[Roster[i]].clock # "off"})

InService == {b \in Barber : floor[b].clock # "off" /\ floor[b].since # Never}

Anchored ==
  [free   |-> [b \in Barber |-> IF b \in InService THEN ProjectedEnd(b) ELSE minute],
   blocks |-> {[party |-> 0, barber |-> b, from |-> minute, to |-> ProjectedEnd(b)] : b \in InService},
   nobody |-> {}]

\* The time a barber's chair is next free moves to the end of what was put in it.
Seat(plan, e, b, from) ==
  [plan EXCEPT !.free[b] = from + Duration(e),
               !.blocks = @ \cup {[party |-> e, barber |-> b, from |-> from, to |-> from + Duration(e)]}]

\* The barber who can start soonest, the first by name of equals, never before the appointment.
Assign(plan, e) ==
  LET eligible == Sublist(OnFloor, {i \in DOMAIN OnFloor : line[e].asked \in {NoBarber, OnFloor[i]}})
      soonest(b) == IF line[e].at = Never THEN plan.free[b] ELSE Max({plan.free[b], line[e].at})
      first    == Min({soonest(eligible[i]) : i \in DOMAIN eligible})
      b        == eligible[Min({i \in DOMAIN eligible : soonest(eligible[i]) = first})]
  IN  IF eligible = <<>> THEN [plan EXCEPT !.nobody = @ \cup {e}] ELSE Seat(plan, e, b, first)

Timelines == FoldLeft(Assign, Anchored, Sla.order)

-----------------------------------------------------------------------------
(* What the public page and the waiting column are told. *)

\* A party that is late keeps its card and is given neither a place nor an estimate; the others
\* have theirs in the bumped line.
PublicStatuses ==
  LET order == Sla.order  start == EstimatedStart(order)
  IN  {[party |-> order[i], place |-> i, start |-> start[i]] : i \in DOMAIN order}

\* Everybody's minutes one after the other, whoever is late and however many barbers there are.
PublicWait == SumFunctionOnSet([e \in DOMAIN line |-> Duration(e)], DOMAIN line)

-----------------------------------------------------------------------------
(* What changes between two looks at the board. *)

Pass ==
  /\ minute < LastMinute
  /\ minute' = minute + 1
  /\ UNCHANGED <<line, floor, history>>

\* The party walks in, or steps out again.
TogglePresent(e) ==
  /\ line' = [line EXCEPT ![e].present = ~@]
  /\ UNCHANGED <<floor, history, minute>>

\* The next party takes a chair that is free.
TakeChair(e, b) ==
  /\ floor[b].clock = "available"
  /\ floor' = [floor EXCEPT ![b] = [clock |-> "busy", since |-> minute, work |-> line[e].work]]
  /\ line' = RemoveAt(line, e)
  /\ UNCHANGED <<history, minute>>

LeaveChair(b) ==
  /\ floor[b].since # Never
  /\ floor' = [floor EXCEPT ![b].clock = "available", ![b].since = Never]
  /\ history' = <<[barber |-> b, work |-> floor[b].work, minutes |-> minute - floor[b].since]>> \o history
  /\ UNCHANGED <<line, minute>>

BoardNext ==
  \/ Pass
  \/ \E e \in DOMAIN line : TogglePresent(e)
  \/ \E e \in DOMAIN line, b \in Barber : TakeChair(e, b)
  \/ \E b \in Barber : LeaveChair(b)

BoardSpec == BoardInit /\ [][BoardNext]_boardVars

BoardTypeOK ==
  /\ line \in Seq(Party) /\ floor \in [Barber -> Chair]
  /\ history \in Seq([barber: Barber, work: Works, minutes: Int]) /\ minute \in 0 .. LastMinute

-----------------------------------------------------------------------------
Before(es, d, e) == \E i, k \in DOMAIN es : es[i] = d /\ es[k] = e /\ i < k

\* Moving an appointment up overtakes; it reorders nobody else, and nobody who is not here or has
\* no appointment is moved up.
OthersKeepTheirOrder(sla) ==
  LET others == ToSet(Participants) \ sla.bumped IN
  /\ ToSet(sla.order) = ToSet(Participants) /\ Len(sla.order) = Len(Participants)
  /\ \A e \in sla.bumped : line[e].present /\ line[e].at # Never
  /\ \A d \in others, e \in ToSet(Participants) : e < d => Before(sla.order, e, d)

\* No barber is recommended to two parties; no free barber is left while a party that is ready
\* has none; and whoever asked for a free barber is only passed over for one higher in the line.
MatchesFit(es, match) ==
  LET ready == {e \in ToSet(es) : Ready(e)} IN
  /\ \A m, n \in match : m[2] = n[2] => m = n
  /\ (\E e \in ready : \A m \in match : m[1] # e) => Free(match) = <<>>
  /\ \A e \in ready : line[e].asked # NoBarber /\ <<e, line[e].asked>> \notin match
         => \/ floor[line[e].asked].clock # "available"
            \/ \E m \in match : m[2] = line[e].asked /\ Before(es, m[1], e)

\* One barber is never planned in two places at once, nobody before the appointment; a chair that
\* stands empty between two clients waits for an appointment; and everyone in the line is planned
\* once unless the barber they asked for, or everybody, has gone home.
DaysFit(plan) ==
  /\ \A p, q \in plan.blocks : p.barber = q.barber /\ p # q => p.to <= q.from \/ q.to <= p.from
  /\ \A p \in plan.blocks : p.party # 0 =>
       /\ line[p.party].at # Never => p.from >= line[p.party].at
       /\ \/ p.from \in {minute, line[p.party].at}
          \/ \E q \in plan.blocks : q.barber = p.barber /\ q.to = p.from
  /\ \A e \in ToSet(Participants) :
       LET mine == {p \in plan.blocks : p.party = e}
       IN  /\ Cardinality(mine) = IF e \in plan.nobody THEN 0 ELSE 1
           /\ e \in plan.nobody <=> \A b \in ToSet(OnFloor) : line[e].asked \notin {NoBarber, b}

\* One reading, however long or short, moves a trusted median no further than the readings that
\* were there before it lie apart.
OneReadingHardlyMatters ==
  \A b \in Barber, w \in Works : Trusted(b, w) =>
    LET old == Readings(b, w)
    IN  \A m \in {1, OutlierMultiple * Catalog[w]} :
          Median(SubSeq(<<m>> \o old, 1, Min({Len(old) + 1, SampleLimit})))
            \in Min(ToSet(old)) .. Max(ToSet(old))

\* What the clients read on their phones agrees: a place is told to all but the late, no two are
\* told one place, a later place is a later start, and nobody is told to be served later than the
\* wait the page gives a newcomer.
PhonesAgree(told, wait) ==
  /\ {t.party : t \in told} = {e \in DOMAIN line : ~line[e].late}
  /\ \A t, u \in told : (t.place < u.place) = (t.start < u.start) /\ (t.place = u.place => t = u)
  /\ \A t \in told : t.start + Duration(t.party) <= minute + wait

\* What the board plans can be carried out, one reading does not overturn it, and the phones say
\* what the board does.
PlanIsSound ==
  /\ OthersKeepTheirOrder(Sla) /\ MatchesFit(Sla.order, Recommendations) /\ DaysFit(Timelines)
  /\ OneReadingHardlyMatters /\ PhonesAgree(PublicStatuses, PublicWait)

\* The file's promise for one that is moved up: it "is reinserted at the latest position that still
\* keeps them on time" (there is such a position whenever the deadline is yet to come).
ProtectedStartsOnTime ==
  LET sla == Sla IN
  \A i \in DOMAIN sla.order :
    sla.order[i] \in sla.bumped /\ Deadline(sla.order[i]) >= minute
      => EstimatedStart(sla.order)[i] <= Deadline(sla.order[i])
=============================================================================
