------------------------------- MODULE Booking -------------------------------
(***************************************************************************)
(* Appointments: booking.service.ts, appointments.service.ts, the rebook   *)
(* and cancel of clients.service.ts, and the floor rows that queue.service *)
(* makes of appointments that are due.                                     *)
(*                                                                         *)
(* Requests run in READ COMMITTED transactions.  book, createForStaff and  *)
(* reschedule take an advisory lock on the barber and the local date       *)
(* before their last look at the calendar; rebook takes none.  Behind them *)
(* stands the exclusion constraint on [starts_at, ends_at) of migration    *)
(* 0046.  Nothing stands behind the floor rows.                            *)
(***************************************************************************)
EXTENDS Shop, Integers, FiniteSets, FiniteSetsExt, Functions

CONSTANTS
  Callers,      \* requests, each of which is sent once
  Appointments, \* rows of appointments, those that requests will insert included
  AnyBarber,    \* a booking that leaves the barber open
  Services,
  DayLength,    \* the length of a day, in steps of the clock
  Horizon,      \* the last day that may be booked
  Lead,         \* the first time that may be booked online
  Interval,     \* slot_interval_minutes
  Recurring,    \* staff_schedule_days of each barber: from, to; from = to when he is off
  Exceptions,   \* schedule_exceptions that replace it, for a barber and a day
  SpecialHours, \* location_special_hours that narrow it, for a day
  Calls,        \* what the requests may ask for, a bound on the model
  Calendars,    \* the appointments there are at first, a bound on the model
  Durations     \* services.duration_minutes, a bound on the model

Booked   == "booked"   \* booked or confirmed: no code tells them apart
ApptStatuses == {"none", Booked, "checked_in", "cancelled", "no_show"}
Inserts   == {"book", "create", "rebook"}
CallKinds == Inserts \cup {"move", "surface", "arrive", "noShow", "cancel", "clientCancel"}
Call     == [kind: CallKinds, appt: Appointments, barber: Barbers \cup {AnyBarber}, start: Nat,
             services: SUBSET Services]
Appt     == [status: ApptStatuses, barber: Barbers, start: Nat, end: Nat, services: SUBSET Services,
             length: Nat]
Span     == [from: Nat, to: Nat]
FloorRow == [by: Callers, appt: Appointments, barber: Barbers, start: Nat, present: BOOLEAN]

\* The exclusion constraint, over what is stored.
Clash(x, y) == /\ x.status = Booked /\ y.status = Booked /\ x.barber = y.barber
               /\ x.start < y.end /\ y.start < x.end

ASSUME BookingConstants ==
  /\ Calls \subseteq [Callers -> Call] /\ Calls # {}
  /\ Calendars \subseteq [Appointments -> Appt] /\ Calendars # {}
  /\ AnyBarber \notin Barbers /\ Nobody \notin Callers
  /\ DayLength \in Nat \ {0} /\ Interval \in Nat \ {0} /\ Horizon \in Nat /\ Lead \in Nat
  /\ Recurring \in [Barbers -> Span]
  /\ DOMAIN Exceptions \subseteq Barbers \X Nat /\ DOMAIN SpecialHours \subseteq Nat
  /\ IsFiniteSet(Services) /\ Durations \subseteq Nat
  /\ \A appts \in Calendars, a, b \in Appointments :
       /\ appts[a].end = appts[a].start + appts[a].length
       /\ a # b => ~Clash(appts[a], appts[b])
  /\ \A calls \in Calls, r \in Callers : calls[r].kind \in Inserts =>
       /\ \A appts \in Calendars : appts[calls[r].appt].status = "none"
       /\ \A u \in Callers \ {r} : calls[u].kind \in Inserts => calls[u].appt # calls[r].appt
       /\ calls[r].kind = "create" => calls[r].barber # AnyBarber

VARIABLES
  call,    \* what each request asks for
  callPc,  \* the statement each handler is about to execute
  chosen,  \* the barber each handler has settled on
  found,   \* the appointment as each handler has read it
  patch,   \* the columns each transaction has written to its appointment
  latched, \* the advisory lock each transaction holds: a barber and a day, or nothing
  newRow,  \* the transactions that have inserted a floor row for their appointment
  linked,  \* the maker of the floor row each handler has found and will change, or nobody
  appt,    \* the committed appointments
  minutes, \* services.duration_minutes
  floor    \* the committed live floor rows, each named by the request that made it

bookingVars ==
  <<call, callPc, chosen, found, patch, latched, newRow, linked, appt, minutes, floor>>

Unwritten == [x \in {} |-> 0]
NoLatch   == <<>>

BookingInit ==
  /\ call \in Calls
  /\ callPc = [r \in Callers |-> "idle"]
  /\ chosen = [r \in Callers |-> AnyBarber]
  /\ appt \in Calendars
  /\ found = [r \in Callers |-> appt[call[r].appt]]
  /\ patch = [r \in Callers |-> Unwritten]
  /\ latched = [r \in Callers |-> NoLatch]
  /\ newRow = {}
  /\ linked = [r \in Callers |-> Nobody]
  /\ minutes = [s \in Services |-> 1]
  /\ floor = {}

-----------------------------------------------------------------------------
(* The calendar. *)

Minutes(S)  == SumFunctionOnSet(minutes, S)
DayOf(t)   == t \div DayLength
Overlap(a, lenA, b, lenB) == a < b + lenB /\ b < a + lenA

\* The part of the day a barber works: the exception in place of the recurring shift, inside
\* the special hours of the shop.
Hours(b, d) ==
  LET shift   == IF <<b, d>> \in DOMAIN Exceptions THEN Exceptions[<<b, d>>] ELSE Recurring[b]
      special == IF d \in DOMAIN SpecialHours THEN SpecialHours[d] ELSE [from |-> 0, to |-> DayLength]
      Later(x, y) == IF x > y THEN x ELSE y
      Sooner(x, y) == IF x < y THEN x ELSE y
  IN  [from |-> Later(shift.from, special.from), to |-> Sooner(shift.to, special.to)]

\* What both looks at the calendar ask: the appointments that start on the date, at the
\* durations their services have now.
FreeAt(b, t, len, other) ==
  \A a \in Appointments \ other :
    (appt[a].status = Booked /\ appt[a].barber = b /\ DayOf(appt[a].start) = DayOf(t))
      => ~Overlap(t, len, appt[a].start, Minutes(appt[a].services))

IsSlot(b, t, S) ==
  LET hours == Hours(b, DayOf(t))
      clock == t % DayLength
  IN  /\ DayOf(t) <= Horizon /\ t >= Lead
      /\ hours.from < hours.to
      /\ clock >= hours.from /\ (clock - hours.from) % Interval = 0
      /\ clock + Minutes(S) <= hours.to
      /\ FreeAt(b, t, Minutes(S), {})

-----------------------------------------------------------------------------
(* The requests. *)

Asked(r)  == call[r]
Target(r) == appt[call[r].appt]
BookGoto(r, step) == callPc' = [callPc EXCEPT ![r] = step]
Over      == {"done", "refused", "barred", "dropped"}
Patched(r) == patch[r] # Unwritten

RowFree(r) == \A u \in Callers \ {r} : call[u].appt = call[r].appt => ~Patched(u)
LiveRows(a) == {f \in floor : f.appt = a}
FirstRow(a) == IF LiveRows(a) = {} THEN Nobody ELSE (CHOOSE f \in LiveRows(a) : TRUE).by
Present(a)  == \E f \in LiveRows(a) : f.by = FirstRow(a) /\ f.present

\* book and rebook offer the barbers that have the slot; createForStaff looks only under the
\* lock; reschedule, check-in, no-show and the board read the appointment first.
Look(r) ==
  /\ callPc[r] = "idle"
  /\ found' = [found EXCEPT ![r] = Target(r)]
  /\ linked' = [linked EXCEPT ![r] = IF Asked(r).kind \in {"move", "noShow"}
                                     THEN FirstRow(Asked(r).appt) ELSE Nobody]
  /\ \/ /\ Asked(r).kind \in {"book", "rebook"}
        /\ \E b \in Barbers :
             /\ Asked(r).barber \in {b, AnyBarber}
             /\ IsSlot(b, Asked(r).start, Asked(r).services)
             /\ chosen' = [chosen EXCEPT ![r] = b]
        /\ BookGoto(r, IF Asked(r).kind = "book" THEN "lock" ELSE "write")
     \/ /\ Asked(r).kind = "create"
        /\ chosen' = [chosen EXCEPT ![r] = Asked(r).barber]
        /\ BookGoto(r, "lock")
     \/ /\ Asked(r).kind = "move" /\ Target(r).status = Booked
        /\ ~Present(Asked(r).appt)
        /\ chosen' = [chosen EXCEPT ![r] = IF Asked(r).barber = AnyBarber THEN Target(r).barber
                                           ELSE Asked(r).barber]
        /\ BookGoto(r, "lock")
     \/ /\ Asked(r).kind \in {"surface", "arrive"} /\ Target(r).status = Booked
        /\ BookGoto(r, "row") /\ UNCHANGED chosen
     \/ /\ Asked(r).kind = "noShow" /\ Target(r).status = Booked
        /\ ~Present(Asked(r).appt)
        /\ BookGoto(r, "write") /\ UNCHANGED chosen
     \/ /\ Asked(r).kind \in {"cancel", "clientCancel"}
        /\ BookGoto(r, "write") /\ UNCHANGED chosen
  /\ UNCHANGED <<call, patch, latched, newRow, appt, minutes, floor>>

\* No slot, or an appointment that is no longer booked.
TurnDown(r) ==
  /\ callPc[r] = "idle"
  /\ CASE Asked(r).kind \in {"book", "rebook"} ->
            ~\E b \in Barbers : /\ Asked(r).barber \in {b, AnyBarber}
                                /\ IsSlot(b, Asked(r).start, Asked(r).services)
       [] Asked(r).kind \in {"move", "noShow"} ->
            Target(r).status # Booked \/ Present(Asked(r).appt)
       [] Asked(r).kind \in {"surface", "arrive"} -> Target(r).status # Booked
       [] OTHER -> FALSE
  /\ BookGoto(r, "refused")
  /\ UNCHANGED <<call, chosen, found, patch, latched, newRow, linked, appt, minutes, floor>>

\* pg_advisory_xact_lock, and the second look: slots for book, the overlaps alone for the others.
LockDay(r) ==
  /\ callPc[r] = "lock"
  /\ LET latch == <<chosen[r], DayOf(Asked(r).start)>>
     IN  /\ \A u \in Callers : latched[u] # latch
         /\ latched' = [latched EXCEPT ![r] = latch]
  /\ BookGoto(r, "check")
  /\ UNCHANGED <<call, chosen, found, patch, newRow, linked, appt, minutes, floor>>

\* An error rolls the transaction back.
GiveUp(r, step) ==
  /\ BookGoto(r, step)
  /\ newRow' = newRow \ {r}
  /\ latched' = [latched EXCEPT ![r] = NoLatch]

Check(r) ==
  /\ callPc[r] = "check"
  /\ LET t  == Asked(r).start
         S  == Asked(r).services
         ok == IF Asked(r).kind = "book" THEN IsSlot(chosen[r], t, S)
               ELSE FreeAt(chosen[r], t, Minutes(S),
                           IF Asked(r).kind = "move" THEN {Asked(r).appt} ELSE {})
     IN  IF ok THEN BookGoto(r, "write") /\ UNCHANGED <<latched, newRow>> ELSE GiveUp(r, "refused")
  /\ UNCHANGED <<call, chosen, found, patch, linked, appt, minutes, floor>>

Columns_EndStays(r) ==
  LET t == Asked(r).start
      S == Asked(r).services
      place == [barber |-> chosen[r], start |-> t, services |-> S, length |-> Minutes(S)]
  IN  CASE Asked(r).kind \in Inserts ->
             Onto([status |-> Booked, end |-> t + Minutes(S)], place)
        [] Asked(r).kind = "move"   -> place
        [] Asked(r).kind = "arrive" -> [status |-> "checked_in"]
        [] Asked(r).kind = "noShow" -> [status |-> "no_show"]
        [] OTHER -> [status |-> "cancelled"]

Columns_AsAsked(r) ==
  LET t == Asked(r).start
      S == Asked(r).services
      place == [barber |-> Asked(r).barber, start |-> t, end |-> t + Minutes(S), services |-> S,
                length |-> Minutes(S)]
  IN  CASE Asked(r).kind \in Inserts -> Onto([status |-> Booked], place)
        [] Asked(r).kind = "move"   -> place
        [] Asked(r).kind = "arrive" -> [status |-> "checked_in"]
        [] Asked(r).kind = "noShow" -> [status |-> "no_show"]
        [] OTHER -> [status |-> "cancelled"]

\* The columns a request writes: a new appointment, its new time and barber, or its status.
Columns(r) ==
  LET t == Asked(r).start
      S == Asked(r).services
      place == [barber |-> chosen[r], start |-> t, end |-> t + Minutes(S), services |-> S,
                length |-> Minutes(S)]
  IN  CASE Asked(r).kind \in Inserts -> Onto([status |-> Booked], place)
        [] Asked(r).kind = "move"   -> place
        [] Asked(r).kind = "arrive" -> [status |-> "checked_in"]
        [] Asked(r).kind = "noShow" -> [status |-> "no_show"]
        [] OTHER -> [status |-> "cancelled"]

Moot_Never(r) == FALSE

\* Only the two cancels look at the status once more.
Moot(r) == Asked(r).kind \in {"cancel", "clientCancel"} /\ Target(r).status # Booked

\* The insert or update: it waits for a transaction that has written the row or one that clashes
\* with it, and the constraint bars it from a committed one.  cancel looks for the floor row
\* after it, and leaves the row of a client who is there.
WriteAppt(r) ==
  /\ callPc[r] = "write" /\ RowFree(r)
  /\ LET new == Onto(Columns(r), Target(r))
         others == Callers \ {r}
         waits == \E u \in others : Patched(u) /\ (Clash(Onto(patch[u], Target(u)), new) \/ Clash(Target(u), new))
         barred == \E a \in Appointments \ {Asked(r).appt} : Clash(appt[a], new)
     IN  /\ ~waits
         /\ IF barred \/ Moot(r)
            THEN GiveUp(r, IF barred THEN "barred" ELSE "refused") /\ UNCHANGED <<patch, linked>>
            ELSE /\ patch' = [patch EXCEPT ![r] = Columns(r)]
                 /\ linked' = [linked EXCEPT ![r] = IF Asked(r).kind # "cancel" THEN @
                                                    ELSE IF Present(Asked(r).appt) THEN Nobody
                                                    ELSE FirstRow(Asked(r).appt)]
                 /\ BookGoto(r, "commit")
                 /\ UNCHANGED <<latched, newRow>>
  /\ UNCHANGED <<call, chosen, found, appt, minutes, floor>>

\* ensureQueueEntryForAppointment: the live row of the appointment, or else a new one.
EnsureRow(r) ==
  /\ callPc[r] = "row"
  /\ LET missing == LiveRows(Asked(r).appt) = {}
     IN  /\ newRow' = IF missing THEN newRow \cup {r} ELSE newRow
         /\ linked' = [linked EXCEPT ![r] = IF missing THEN r ELSE FirstRow(Asked(r).appt)]
  /\ BookGoto(r, IF Asked(r).kind = "arrive" THEN "write" ELSE "commit")
  /\ UNCHANGED <<call, chosen, found, patch, latched, appt, minutes, floor>>

Changed_CancelForgets(r, f) ==
  CASE Asked(r).kind = "arrive" -> {[f EXCEPT !.present = TRUE]}
    [] Asked(r).kind = "move"   -> {[f EXCEPT !.barber = chosen[r], !.start = Asked(r).start]}
    [] OTHER -> {f}

\* The row as the request that found it leaves it: the client is present, the row follows the
\* appointment to its new place, or it leaves the line.
Changed(r, f) ==
  CASE Asked(r).kind = "arrive" -> {[f EXCEPT !.present = TRUE]}
    [] Asked(r).kind = "move"   -> {[f EXCEPT !.barber = chosen[r], !.start = Asked(r).start]}
    [] Asked(r).kind \in {"cancel", "noShow"} -> {}
    [] OTHER -> {f}

Rows(r) ==
  LET made == {[by |-> r, appt |-> Asked(r).appt, barber |-> found[r].barber,
                start |-> found[r].start, present |-> FALSE] : u \in newRow \cap {r}}
  IN  UNION {IF f.by = linked[r] THEN Changed(r, f) ELSE {f} : f \in floor \cup made}

Settle(r, step) ==
  /\ BookGoto(r, step)
  /\ patch' = [patch EXCEPT ![r] = Unwritten]
  /\ latched' = [latched EXCEPT ![r] = NoLatch]
  /\ newRow' = newRow \ {r}
  /\ UNCHANGED <<call, chosen, found, linked, minutes>>

CommitCall(r) ==
  /\ callPc[r] = "commit"
  /\ appt' = [appt EXCEPT ![Asked(r).appt] = Onto(patch[r], @)]
  /\ floor' = Rows(r)
  /\ Settle(r, "done")

\* The client hangs up, the server stops, or the COMMIT fails.
DropCall(r) ==
  /\ callPc[r] \in {"lock", "check", "write", "row", "commit"}
  /\ Settle(r, "dropped")
  /\ UNCHANGED <<appt, floor>>

\* updateService: the durations of booked appointments change with it, their ends do not.
EditService(s, n) ==
  /\ minutes[s] # n
  /\ minutes' = [minutes EXCEPT ![s] = n]
  /\ UNCHANGED <<call, callPc, chosen, found, patch, latched, newRow, linked, appt, floor>>

-----------------------------------------------------------------------------
Answer(r) == \/ Look(r) \/ TurnDown(r) \/ LockDay(r) \/ Check(r) \/ WriteAppt(r)
             \/ EnsureRow(r) \/ CommitCall(r)

BookingNext ==
  \/ \E r \in Callers : Answer(r) \/ DropCall(r)
  \/ \E s \in Services, n \in Durations : EditService(s, n)

\* A handler that was started goes on.
BookingFairness == \A r \in Callers : WF_bookingVars(callPc[r] # "idle" /\ Answer(r))

BookingSpec == BookingInit /\ [][BookingNext]_bookingVars /\ BookingFairness

BookingTypeOK ==
  /\ call \in [Callers -> Call]
  /\ callPc \in [Callers -> {"idle", "lock", "check", "write", "row", "commit"} \cup Over]
  /\ chosen \in [Callers -> Barbers \cup {AnyBarber}]
  /\ \A r \in Callers : found[r] \in Appt /\ latched[r] \in {NoLatch} \cup (Barbers \X Nat)
  /\ newRow \subseteq Callers /\ linked \in [Callers -> Callers \cup {Nobody}]
  /\ appt \in [Appointments -> Appt]
  /\ minutes \in [Services -> Nat]
  /\ \A f \in floor : f \in FloorRow

\* No barber has two booked appointments at one time, at the durations they were last booked
\* for: whichever of the five paths wrote them, ends_at is what the constraint needs it to be.
NoDoubleBooking ==
  \A a, b \in Appointments :
    (a # b /\ appt[a].status = Booked /\ appt[b].status = Booked /\ appt[a].barber = appt[b].barber)
      => ~Overlap(appt[a].start, appt[a].length, appt[b].start, appt[b].length)

\* An appointment leaves a final status only through a check-in or no-show that had read it as
\* booked: their updates do not look again.
FinalUnlessReadBefore ==
  [][\A a \in Appointments :
       (appt[a].status \in {"cancelled", "no_show", "checked_in"} /\ appt'[a].status # appt[a].status)
         => \E r \in Callers : /\ callPc[r] = "commit" /\ callPc'[r] = "done"
                               /\ call[r].appt = a /\ call[r].kind \in {"arrive", "noShow"}
                               /\ found[r].status = Booked]_bookingVars

\* A client who is not there keeps a place in the line for an appointment that is off only when
\* it was cancelled from his profile, or when the cancellation missed the row of a tablet that
\* had still read the appointment as booked.
CancelledLeavesTheLine ==
  \A f \in floor :
    (appt[f.appt].status \in {"cancelled", "no_show"} /\ ~f.present) =>
      \E r \in Callers :
        /\ call[r].appt = f.appt /\ callPc[r] = "done"
        /\ \/ call[r].kind = "clientCancel"
           \/ call[r].kind \in {"cancel", "noShow"} /\ linked[r] # f.by

\* The place in the line shows another barber or time than the appointment only when the move
\* that gave the appointment its own missed it.
RowShowsTheAppointment ==
  \A f \in floor :
    LET a == appt[f.appt]
    IN  (f.barber # a.barber \/ f.start # a.start) =>
          \E r \in Callers :
            /\ call[r].appt = f.appt /\ call[r].kind = "move" /\ callPc[r] = "done"
            /\ a.barber = chosen[r] /\ a.start = call[r].start
            /\ linked[r] # f.by

\* The line is what the calendar says, but for the requests that missed each other.
FloorFollowsCalendar == CancelledLeavesTheLine /\ RowShowsTheAppointment

\* Every request that was started is answered: nobody waits for a latch or a row forever.
BookingAnswered == []<>(\A r \in Callers : callPc[r] \in Over \cup {"idle"})
=============================================================================
