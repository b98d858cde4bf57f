-------------------------------- MODULE Grid --------------------------------
(***************************************************************************)
(* Who works when.  The weekly pattern and the exceptions of single days   *)
(* are read in four places that must tell the same story: the schedule     *)
(* page (ScheduleService.grid), the floor's clock-in list                  *)
(* (scheduled-today.ts), the hours report (staffScheduledHours) and the    *)
(* dashboard's utilization (staffToday), which knows no exceptions.        *)
(***************************************************************************)
EXTENDS Integers, Listing, SequencesExt, FiniteSetsExt, Functions

CONSTANTS
  Crew,            \* the people on the roster
  FrontDesk,       \* those of them who serve nobody
  WeekDays,        \* the days of the week, numbered from 0
  DayCount,        \* days considered, a bound on the model
  Shifts,          \* the shifts that may be given, a bound on the model
  NoShift,         \* not at work
  NoWord,          \* no exception for a day
  OpenHours,       \* store_hours: the shift the shop itself keeps each weekday, or NoShift
  SpecialDays,     \* location_special_hours: the same for single dates
  Reservations,    \* the booked appointments, by their number: the day and minutes of each
  MinimumCoverage,
  ChairCount

Shift == [from: Nat, to: Nat]
Days  == 0 .. DayCount - 1
Dow(d) == d % Cardinality(WeekDays)
Length(s) == IF s = NoShift THEN 0 ELSE s.to - s.from

ASSUME GridConstants ==
  /\ IsFiniteSet(Crew) /\ FrontDesk \subseteq Crew /\ DayCount \in Nat /\ ChairCount \in Nat
  /\ IsFiniteSet(WeekDays) /\ WeekDays = 0 .. Cardinality(WeekDays) - 1 /\ WeekDays # {}
  /\ Shifts \subseteq Shift /\ NoShift \notin Shift /\ NoWord \notin Shift \cup {NoShift}
  /\ OpenHours \in [WeekDays -> Shift \cup {NoShift}]
  /\ DOMAIN SpecialDays \subseteq Days /\ \A d \in DOMAIN SpecialDays : SpecialDays[d] \in Shift \cup {NoShift}
  /\ IsFiniteSet(DOMAIN Reservations)
  /\ \A r \in DOMAIN Reservations : Reservations[r].minutes \in Nat

VARIABLES
  weekly,     \* staff_schedule_days
  exception,  \* schedule_exceptions
  active      \* employment_status = 'active'

gridVars == <<weekly, exception, active>>

GridInit ==
  /\ weekly = [p \in Crew |-> [w \in WeekDays |-> NoShift]]
  /\ exception = [p \in Crew |-> [d \in Days |-> NoWord]]
  /\ active = Crew

-----------------------------------------------------------------------------
(* The schedule page. *)

Entry_Either(p, d) ==
  IF weekly[p][Dow(d)] # NoShift \/ exception[p][d] = NoWord THEN weekly[p][Dow(d)] ELSE exception[p][d]

\* An exception wins over the pattern both ways: time off, or cover on a day off.
Entry(p, d) == IF exception[p][d] # NoWord THEN exception[p][d] ELSE weekly[p][Dow(d)]

AtWork(d) == {p \in (Crew \ FrontDesk) \cap active : Entry(p, d) # NoShift}

CoverageCount(d) == Cardinality(AtWork(d))

\* The roster's order, which decides nothing.
RosterPlace == CHOOSE f \in [Crew -> 1 .. Cardinality(Crew)] : \A p, q \in Crew : p # q => f[p] # f[q]

\* Who leaves at a minute frees the chair for who comes at the same minute.
Sooner(a, b) ==
  \/ a.minute < b.minute
  \/ a.minute = b.minute /\ a.delta < b.delta
  \/ a.minute = b.minute /\ a.delta = b.delta /\ RosterPlace[a.who] < RosterPlace[b.who]

Coming(p, d)  == [minute |-> Entry(p, d).from, delta |-> 1, who |-> p]
Leaving(p, d) == [minute |-> Entry(p, d).to, delta |-> -1, who |-> p]

ChairEvents(d) ==
  LET all == {Coming(p, d) : p \in AtWork(d)} \cup {Leaving(p, d) : p \in AtWork(d)}
  IN  Ranked(all, {e \in all \X all : Sooner(e[1], e[2])})

PeakChairUsage(d) ==
  LET step(acc, e) == [now |-> acc.now + e.delta, peak |-> Max({acc.peak, acc.now + e.delta})]
  IN  FoldLeft(step, [now |-> 0, peak |-> 0], ChairEvents(d)).peak

ShopHours(d) == IF d \in DOMAIN SpecialDays THEN SpecialDays[d] ELSE OpenHours[Dow(d)]

BelowMinimum(d)      == ShopHours(d) # NoShift /\ CoverageCount(d) < MinimumCoverage
OverChairCapacity(d) == PeakChairUsage(d) > ChairCount

ChairMinutes(d) == Max({0, Length(ShopHours(d))}) * ChairCount

\* Never more than all of it, and nothing of nothing.
BookedCapacityPct(d) ==
  LET booked == SumFunctionOnSet([r \in DOMAIN Reservations |-> Reservations[r].minutes],
                                 {r \in DOMAIN Reservations : Reservations[r].day = d})
  IN  IF ChairMinutes(d) = 0 THEN 0
      ELSE Min({100, (200 * booked + ChairMinutes(d)) \div (2 * ChairMinutes(d))})

-----------------------------------------------------------------------------
(* The other readers. *)

\* The floor takes the exceptions first, then the pattern of those without one.
ExpectedToday(d) ==
  LET replaced == {p \in Crew : exception[p][d] # NoWord}
  IN  {p \in replaced : exception[p][d] # NoShift} \cup {p \in Crew \ replaced : weekly[p][Dow(d)] # NoShift}

\* The hours report runs over the days and skips the pattern where there is an exception.
ScheduledMinutes(p, days) ==
  SumFunctionOnSet([d \in days |-> IF exception[p][d] # NoWord THEN Length(exception[p][d])
                                   ELSE Length(weekly[p][Dow(d)])], days)

\* The dashboard reads the pattern alone.
DashboardMinutes(p, d) == Length(weekly[p][Dow(d)])

\* Thirty minutes for every client served today, over the minutes of those with a shift.
UtilizationPct(d, served) ==
  LET total == SumFunctionOnSet([p \in Crew |-> DashboardMinutes(p, d)],
                                {p \in Crew : DashboardMinutes(p, d) > 0})
  IN  IF total = 0 THEN 0 ELSE Min({100, (200 * served * 30 + total) \div (2 * total)})

-----------------------------------------------------------------------------
(* The writers: a manager replaces one day of a pattern, an approved request is an exception. *)

SetWeekly(p, w, s) ==
  /\ weekly' = [weekly EXCEPT ![p][w] = s]
  /\ UNCHANGED <<exception, active>>

Except(p, d, s) ==
  /\ exception' = [exception EXCEPT ![p][d] = s]
  /\ UNCHANGED <<weekly, active>>

Employ(p) ==
  /\ active' = SymDiff(active, {p})
  /\ UNCHANGED <<weekly, exception>>

GridNext ==
  \/ \E p \in Crew, w \in WeekDays, s \in Shifts \cup {NoShift} : SetWeekly(p, w, s)
  \/ \E p \in Crew, d \in Days, s \in Shifts \cup {NoShift} : Except(p, d, s)
  \/ \E p \in Crew : Employ(p)

GridSpec == GridInit /\ [][GridNext]_gridVars

GridTypeOK ==
  /\ weekly \in [Crew -> [WeekDays -> Shifts \cup {NoShift}]]
  /\ exception \in [Crew -> [Days -> Shifts \cup {NoShift, NoWord}]]
  /\ active \subseteq Crew

-----------------------------------------------------------------------------
\* Whoever the page shows at work is whom the floor expects, for the minutes the report counts;
\* the dashboard may only differ about a person who has an exception that day.
RosterIsReadAlike ==
  \A p \in Crew :
    /\ \A d \in Days :
         /\ p \in ExpectedToday(d) <=> Entry(p, d) # NoShift
         /\ DashboardMinutes(p, d) # Length(Entry(p, d)) => exception[p][d] # NoWord
    /\ ScheduledMinutes(p, Days) = SumFunctionOnSet([d \in Days |-> Length(Entry(p, d))], Days)

\* The sweep over comings and goings finds the most chairs that are taken at one minute, on a day
\* with no shift that ends before it begins (which nothing refuses); it never finds more than the
\* people at work, and no share is more than all (week of the schedule service).
PeakIsTheMostAtOnce ==
  \A d \in Days :
    LET inUse(m) == Cardinality({p \in AtWork(d) : Entry(p, d).from <= m /\ m < Entry(p, d).to})
        minutes  == UNION {Entry(p, d).from .. Entry(p, d).to : p \in AtWork(d)}
    IN  /\ (\A p \in AtWork(d) : Entry(p, d).from <= Entry(p, d).to) =>
             PeakChairUsage(d) = Max({inUse(m) : m \in minutes} \cup {0})
        /\ PeakChairUsage(d) <= CoverageCount(d)
        /\ BookedCapacityPct(d) \in 0 .. 100 /\ \A served \in 0 .. 1 : UtilizationPct(d, served) \in 0 .. 100

\* Every reader of the schedule counts the same people and the same chairs.
GridIsOneStory == RosterIsReadAlike /\ PeakIsTheMostAtOnce
=============================================================================
