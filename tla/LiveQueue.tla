----------------------------- MODULE LiveQueue -----------------------------
(***************************************************************************)
(* The live floor of one location, as apps/api/src/queue/queue.service.ts  *)
(* keeps it: the rows of queue_entries, the clock status of every barber   *)
(* (location_staff.status), the append-only activity log (events) and the  *)
(* two facts about other tables that its handlers write, the status of a   *)
(* booked appointment and the refunds an undo inserts.                     *)
(*                                                                         *)
(* Every action is one HTTP request that ended in COMMIT, with requests    *)
(* taken one at a time; a request that is refused changes nothing.  How    *)
(* two requests overlap is the subject of another module.  A request may   *)
(* come from a tablet whose board is out of date, so the guards are those  *)
(* of the server and never those of the page that sent it.                 *)
(*                                                                         *)
(* A definition whose name has an underscore, such as Eligible_Everyone,   *)
(* is no part of the model: it is the slip that a property was seen to     *)
(* catch when it took the place of the definition it is named after.       *)
(***************************************************************************)
EXTENDS Integers, Sequences, FiniteSets

CONSTANTS
  Entries,       \* ids of the queue_entries rows that may ever be inserted
  Staff,         \* location_staff ids of the barbers (front_desk never takes a client)
  Clients,       \* clients on file; a guest has no client
  Appointments,  \* rows of the appointments table that are due on the floor
  ApptClient,    \* the client of each appointment
  Scheduled,     \* barbers whose shift covers the appointments' times
  Services,      \* lists of service ids a visit may carry
  Notes,         \* values of service_notes, the empty one included
  None,          \* SQL null
  Forms,         \* check-in forms that may be sent, a bound on the model
  Positions,     \* values of waiting_order, a bound on the model
  FlagRows,      \* rows whose flags and notes the desk edits, a bound on the model
  DragRows,      \* rows a tablet may show when it drags the line, a bound on the model
  ClockStaff,    \* barbers whose clock the manager sets, a bound on the model
  MaxEvents      \* longest log considered, a bound on the model

RowStatus   == {"waiting", "in_service", "completed", "cancelled", "no_show"}
StaffStatus == {"available", "busy", "break", "off"}

ASSUME ConstantsOK ==
  /\ IsFiniteSet(Entries) /\ IsFiniteSet(Staff)
  /\ Entries \cap Staff = {}
  /\ None \notin Entries \cup Staff \cup Clients \cup Appointments \cup RowStatus
  /\ ApptClient \in [Appointments -> Clients]
  /\ Scheduled \subseteq Staff
  /\ Services # {} /\ Notes # {}
  /\ Forms \subseteq [client: Clients \cup {None}, staff: Staff \cup {None}, isAppt: BOOLEAN,
                      present: BOOLEAN, service: Services, notes: Notes]
  /\ Positions \subseteq Int
  /\ FlagRows \subseteq Entries /\ DragRows \subseteq Entries /\ ClockStaff \subseteq Staff
  /\ MaxEvents \in Nat

VARIABLES
  entry,    \* queue_entries, with the service lines of each row
  staff,    \* location_staff.status
  log,      \* events, in order of id
  appt,     \* appointments: status, professional and services
  refunds   \* the log positions of the sales that an undo refunded, in order

vars == <<entry, staff, log, appt, refunds>>

-----------------------------------------------------------------------------
(* The tables. *)

ApptStatus  == {"booked", "checked_in", "cancelled", "no_show"}

Nullable(S) == S \cup {None}

Row == [status: RowStatus \cup {"none"}, assigned: Nullable(Staff),
        client: Nullable(Clients), link: Nullable(Appointments), isAppt: BOOLEAN,
        present: BOOLEAN, ready: Nullable(BOOLEAN), late: BOOLEAN,
        order: Nullable(Positions), original: Nullable(Positions),
        service: Nullable(Services), notes: Nullable(Notes), abandoned: BOOLEAN]

\* "none" stands for an id no row has been inserted under.
AbsentRow ==
  [status |-> "none", assigned |-> None, client |-> None, link |-> None,
   isAppt |-> FALSE, present |-> FALSE, ready |-> None, late |-> FALSE,
   order |-> None, original |-> None, service |-> None, notes |-> None,
   abandoned |-> FALSE]

Existing(e) == entry[e].status # "none"
Live(e)     == entry[e].status \in {"waiting", "in_service"}
Waiting     == {e \in Entries : entry[e].status = "waiting"}
Serving(s)  == {e \in Entries : entry[e].status = "in_service" /\ entry[e].assigned = s}
LiveRowsOf_WaitingOnly(a) == {e \in Waiting : entry[e].link = a}
LiveRowsOf(a) == {e \in Entries : Live(e) /\ entry[e].link = a}

-----------------------------------------------------------------------------
(* The log.  "from" is payload.reversal, "target" is payload.undoneEventId, *)
(* "staff" is payload.staffId or newStaffId.  "before" is no column: it     *)
(* remembers the row as it was when the event was written, so that a        *)
(* property can speak of it.                                                *)

TerminationTypes == {"queue_entry_cancelled", "queue_entry_no_show", "queue_entry_abandoned"}
StaffTypes       == {"staff_status_changed", "staff_clocked_in"}
EventTypes ==
  {"client_checked_in", "service_started", "service_completed",
   "queue_entry_reassigned", "queue_entry_service_changed", "queue_entry_reordered",
   "queue_entry_present_toggled", "queue_entry_returned_to_waiting", "undone"}
  \cup TerminationTypes \cup StaffTypes

NoReversal ==
  [status |-> None, staff |-> None, order |-> None, service |-> None,
   notes |-> None, present |-> None, orders |-> None]

Reversal ==
  [status: Nullable(RowStatus \cup StaffStatus), staff: Nullable(Staff),
   order: Nullable(Positions), service: Nullable(Services), notes: Nullable(Notes),
   present: Nullable(BOOLEAN),
   orders: Nullable(UNION {[S -> Nullable(Positions)] : S \in SUBSET Entries})]

Event == [type: EventTypes, entity: Nullable(Entries \cup Staff), staff: Nullable(Staff),
          from: Reversal, target: Nullable(Nat), before: Row]

NewEvent(type, entity, s, from) ==
  [type |-> type, entity |-> entity, staff |-> s, from |-> from, target |-> None,
   before |-> IF entity \in Entries THEN entry[entity] ELSE AbsentRow]

\* appendEvent: the per-location counter makes the log one sequence.
Record(event) == Len(log) < MaxEvents /\ log' = Append(log, event)

-----------------------------------------------------------------------------
(* Who may take a client, and the places in the line. *)

Eligible_Everyone(e) == Staff

Eligible(e) ==
  IF entry[e].status # "in_service" /\ entry[e].isAppt
  THEN Scheduled
  ELSE {s \in Staff : staff[s] = "available"}

Free(status, s)   == IF s = None THEN status ELSE [status EXCEPT ![s] = "available"]
Occupy(status, s) == IF s = None THEN status ELSE [status EXCEPT ![s] = "busy"]

\* coalesce(max(waiting_order), -1) + 1 over the waiting rows.
IsBottom(n) ==
  IF Waiting = {} THEN n = 0
  ELSE /\ \E w \in Waiting : n = entry[w].order + 1
       /\ \A w \in Waiting : entry[w].order < n

\* coalesce(min(waiting_order), 0) - 1 over the waiting rows.
IsTop(n) ==
  IF Waiting = {} THEN n = -1
  ELSE /\ \E w \in Waiting : n = entry[w].order - 1
       /\ \A w \in Waiting : n < entry[w].order

\* The lists of ids a tablet may send: it dragged the rows its board showed.
DraggedLists ==
  UNION {{pos \in [S -> Positions] : {pos[e] : e \in S} = 0 .. (Cardinality(S) - 1)}
           : S \in (SUBSET {e \in DragRows : Existing(e)}) \ {{}}}

-----------------------------------------------------------------------------
(* Arrivals. *)

HoldsSpot(c) == \E e \in Entries : Live(e) /\ entry[e].client = c

CheckIn(e, form) ==
  /\ ~Existing(e)
  /\ form.staff # None /\ ~form.isAppt => staff[form.staff] # "off"
  /\ form.client # None /\ ~form.isAppt => ~HoldsSpot(form.client)
  /\ \E place \in Positions :
       /\ IsBottom(place)
       /\ entry' = [entry EXCEPT ![e] =
            [AbsentRow EXCEPT !.status = "waiting", !.assigned = form.staff,
               !.client = form.client, !.isAppt = form.isAppt, !.present = form.present,
               !.order = place, !.original = place, !.service = form.service,
               !.notes = form.notes]]
  /\ Record(NewEvent("client_checked_in", e, None, NoReversal))
  /\ UNCHANGED <<staff, appt, refunds>>

\* The row ensureQueueEntryForAppointment inserts for appointment a at place.
AppointmentRow(a, place) ==
  [AbsentRow EXCEPT !.status = "waiting", !.assigned = appt[a].staff,
     !.client = ApptClient[a], !.link = a, !.isAppt = TRUE, !.order = place,
     !.original = place, !.service = appt[a].service]

\* A board fetch found appointment a due, with no live row: no event is written.
Materialize(a, e) ==
  /\ appt[a].status = "booked"
  /\ LiveRowsOf(a) = {}
  /\ ~Existing(e)
  /\ \E place \in Positions :
       /\ IsBottom(place)
       /\ entry' = [entry EXCEPT ![e] = AppointmentRow(a, place)]
  /\ UNCHANGED <<staff, log, appt, refunds>>

\* The two events of an appointment's check-in, each with the row it finds.
PresentEvent(e, row) ==
  [NewEvent("queue_entry_present_toggled", e, None, [NoReversal EXCEPT !.present = row.present])
     EXCEPT !.before = row]
CheckedInEvent(e, row) ==
  [NewEvent("client_checked_in", e, None, NoReversal) EXCEPT !.before = row]

\* checkInAppointment when the appointment already has a live row.
CheckInAppointment(a, e) ==
  /\ appt[a].status = "booked"
  /\ e \in LiveRowsOf(a)
  /\ appt' = [appt EXCEPT ![a].status = "checked_in"]
  /\ IF entry[e].present
     THEN entry' = entry /\ Record(CheckedInEvent(e, entry[e]))
     ELSE /\ Len(log) + 2 <= MaxEvents
          /\ entry' = [entry EXCEPT ![e] = [@ EXCEPT !.present = TRUE]]
          /\ log' = Append(Append(log, PresentEvent(e, entry[e])), CheckedInEvent(e, entry'[e]))
  /\ UNCHANGED <<staff, refunds>>

\* checkInAppointment before any board fetch put the appointment on the floor.
CheckInEarly(a, e) ==
  /\ appt[a].status = "booked"
  /\ LiveRowsOf(a) = {}
  /\ ~Existing(e)
  /\ Len(log) + 2 <= MaxEvents
  /\ \E place \in Positions :
       /\ IsBottom(place)
       /\ entry' = [entry EXCEPT ![e] = [AppointmentRow(a, place) EXCEPT !.present = TRUE]]
       /\ log' = Append(Append(log, PresentEvent(e, AppointmentRow(a, place))),
                        CheckedInEvent(e, entry'[e]))
  /\ appt' = [appt EXCEPT ![a].status = "checked_in"]
  /\ UNCHANGED <<staff, refunds>>

-----------------------------------------------------------------------------
(* Service. *)

Start(e, s, svc, n) ==
  /\ entry[e].status = "waiting"
  /\ s \in Eligible(e)
  /\ entry' = [entry EXCEPT ![e] =
       [@ EXCEPT !.status = "in_service", !.assigned = s, !.service = svc,
                 !.notes = n, !.ready = None]]
  /\ staff' = Occupy(staff, s)
  /\ Record(NewEvent("service_started", e, s,
       [NoReversal EXCEPT !.status = entry[e].status, !.staff = entry[e].assigned,
                          !.notes = entry[e].notes, !.service = entry[e].service]))
  /\ UNCHANGED <<appt, refunds>>

\* A checkout that was paid: it may replace the service, then finalizeCompletion.
Complete(e, svc) ==
  /\ entry[e].status = "in_service"
  /\ entry' = [entry EXCEPT ![e] = [@ EXCEPT !.status = "completed", !.service = svc]]
  /\ staff' = Free(staff, entry[e].assigned)
  /\ Record(NewEvent("service_completed", e, None,
       [NoReversal EXCEPT !.status = "in_service", !.staff = entry[e].assigned]))
  /\ UNCHANGED <<appt, refunds>>

Terminate(e, status, type, allowed, abandoned) ==
  /\ entry[e].status \in allowed
  /\ entry' = [entry EXCEPT ![e] = [@ EXCEPT !.status = status, !.abandoned = abandoned]]
  /\ staff' = IF entry[e].status = "in_service" THEN Free(staff, entry[e].assigned) ELSE staff
  /\ Record(NewEvent(type, e, None,
       [NoReversal EXCEPT !.status = entry[e].status, !.order = entry[e].order,
                          !.staff = entry[e].assigned]))
  /\ UNCHANGED <<appt, refunds>>

NoShow(e) == Terminate(e, "no_show", "queue_entry_no_show", {"waiting"}, FALSE)

Cancel(e) ==
  Terminate(e, "cancelled", "queue_entry_cancelled", {"waiting", "in_service"}, FALSE)

\* The customer's link never cancels a service under way.
PublicCancel(e) == Terminate(e, "cancelled", "queue_entry_cancelled", {"waiting"}, FALSE)

Abandon(e) ==
  /\ entry[e].present
  /\ Terminate(e, "cancelled", "queue_entry_abandoned", {"waiting"}, TRUE)

\* There is no check of the row's status.
Reassign(e, s) ==
  /\ Existing(e)
  /\ s \in Eligible(e)
  /\ entry' = [entry EXCEPT ![e] = [@ EXCEPT !.assigned = s]]
  /\ staff' = IF entry[e].status = "in_service"
              THEN Occupy(Free(staff, entry[e].assigned), s) ELSE staff
  /\ Record(NewEvent("queue_entry_reassigned", e, s,
       [NoReversal EXCEPT !.staff = entry[e].assigned]))
  /\ UNCHANGED <<appt, refunds>>

ChangeService_RecordsTheNewOne(e, svc) ==
  /\ entry[e].status = "waiting"
  /\ entry' = [entry EXCEPT ![e] = [@ EXCEPT !.service = svc]]
  /\ Record(NewEvent("queue_entry_service_changed", e, None, [NoReversal EXCEPT !.service = svc]))
  /\ UNCHANGED <<staff, appt, refunds>>

ChangeService(e, svc) ==
  /\ entry[e].status = "waiting"
  /\ entry' = [entry EXCEPT ![e] = [@ EXCEPT !.service = svc]]
  /\ Record(NewEvent("queue_entry_service_changed", e, None,
       [NoReversal EXCEPT !.service = entry[e].service]))
  /\ UNCHANGED <<staff, appt, refunds>>

\* There is no check of the row's status here either.
ReturnToWaiting(e, position) ==
  /\ Existing(e)
  /\ \E place \in Positions :
       /\ IF position = "top" THEN IsTop(place) ELSE place = entry[e].original
       /\ entry' = [entry EXCEPT ![e] =
            [@ EXCEPT !.status = "waiting", !.assigned = None,
                      !.order = place]]
  /\ staff' = IF entry[e].status = "in_service" THEN Free(staff, entry[e].assigned) ELSE staff
  /\ Record(NewEvent("queue_entry_returned_to_waiting", e, None,
       [NoReversal EXCEPT !.status = entry[e].status, !.staff = entry[e].assigned,
                          !.order = entry[e].order]))
  /\ UNCHANGED <<appt, refunds>>

-----------------------------------------------------------------------------
(* The line and the flags of a row. *)

Reorder(pos) ==
  /\ entry' = [e \in Entries |->
                 IF e \in DOMAIN pos THEN [entry[e] EXCEPT !.order = pos[e]] ELSE entry[e]]
  /\ Record(NewEvent("queue_entry_reordered", None, None,
       [NoReversal EXCEPT !.orders = [e \in Waiting |-> entry[e].order]]))
  /\ UNCHANGED <<staff, appt, refunds>>

TogglePresent(e, present) ==
  /\ Existing(e)
  /\ entry' = [entry EXCEPT ![e] =
       [@ EXCEPT !.present = present,
                 !.ready = IF present THEN entry[e].ready ELSE None]]
  /\ Record(PresentEvent(e, entry[e]))
  /\ UNCHANGED <<staff, appt, refunds>>

\* The edits below write no event.
ToggleReady(e, ready) ==
  /\ entry[e].status = "waiting"
  /\ entry' = [entry EXCEPT ![e] = [@ EXCEPT !.ready = ready, !.present = ready \/ entry[e].present]]
  /\ UNCHANGED <<staff, log, appt, refunds>>

UpdateServiceNotes(e, n) ==
  /\ Live(e)
  /\ entry' = [entry EXCEPT ![e] = [@ EXCEPT !.notes = n]]
  /\ UNCHANGED <<staff, log, appt, refunds>>

SetLateArrival(e, late) ==
  /\ entry[e].status = "waiting"
  /\ entry' = [entry EXCEPT ![e] = [@ EXCEPT !.late = late]]
  /\ UNCHANGED <<staff, log, appt, refunds>>

-----------------------------------------------------------------------------
(* The clock. *)

ClockIn_NoReversal(s) ==
  /\ staff' = [staff EXCEPT ![s] = "available"]
  /\ Record(NewEvent("staff_clocked_in", s, None, NoReversal))
  /\ UNCHANGED <<entry, appt, refunds>>

ClockIn(s) ==
  /\ staff' = [staff EXCEPT ![s] = "available"]
  /\ Record(NewEvent("staff_clocked_in", s, None, [NoReversal EXCEPT !.status = staff[s]]))
  /\ UNCHANGED <<entry, appt, refunds>>

SetStaffStatus(s, status) ==
  /\ ~ (status \in {"break", "off"} /\ staff[s] = "busy" /\ Serving(s) # {})
  /\ staff' = [staff EXCEPT ![s] = status]
  /\ Record(NewEvent("staff_status_changed", s, None, [NoReversal EXCEPT !.status = staff[s]]))
  /\ UNCHANGED <<entry, appt, refunds>>

\* settings: an employment status other than active also clocks the barber out.
Deactivate(s) ==
  /\ staff' = [staff EXCEPT ![s] = "off"]
  /\ UNCHANGED <<entry, log, appt, refunds>>

-----------------------------------------------------------------------------
(* Undo of event k. *)

AlreadyUndone(k) == \E j \in DOMAIN log : log[j].type = "undone" /\ log[j].target = k
LaterEvent(k)    == \E j \in DOMAIN log : j > k /\ log[j].entity = log[k].entity

Undoable(k) ==
  /\ log[k].type # "undone"
  /\ ~AlreadyUndone(k)
  /\ log[k].entity # None => ~LaterEvent(k)

\* The compensating event, about the same row or barber.
UndoneEvent(k) == [NewEvent("undone", log[k].entity, None, NoReversal) EXCEPT !.target = k]

\* What every undo shares: the checks before it and the compensating event after.
Compensate(k, types) ==
  /\ log[k].type \in types
  /\ Undoable(k)
  /\ Record(UndoneEvent(k))
  /\ UNCHANGED appt

UndoCheckIn(k) ==
  /\ Compensate(k, {"client_checked_in"})
  /\ entry' = [entry EXCEPT ![log[k].entity] = [@ EXCEPT !.status = "cancelled"]]
  /\ UNCHANGED <<staff, refunds>>

UndoStart(k) ==
  /\ Compensate(k, {"service_started"})
  /\ entry' = [entry EXCEPT ![log[k].entity] =
       [@ EXCEPT !.status = log[k].from.status,
                 !.assigned = log[k].from.staff,
                 !.notes = log[k].from.notes,
                 !.service = log[k].from.service]]
  /\ staff' = Free(staff, log[k].staff)
  /\ UNCHANGED refunds

UndoComplete_NoRefund(k) ==
  /\ Compensate(k, {"service_completed"})
  /\ entry' = [entry EXCEPT ![log[k].entity] = [@ EXCEPT !.status = log[k].from.status]]
  /\ staff' = Occupy(staff, log[k].from.staff)
  /\ UNCHANGED refunds

UndoComplete(k) ==
  /\ Compensate(k, {"service_completed"})
  /\ entry' = [entry EXCEPT ![log[k].entity] = [@ EXCEPT !.status = log[k].from.status]]
  /\ staff' = Occupy(staff, log[k].from.staff)
  /\ refunds' = Append(refunds, k)

UndoTermination_AlwaysWaiting(k) ==
  /\ Compensate(k, TerminationTypes)
  /\ entry' = [entry EXCEPT ![log[k].entity] =
       [@ EXCEPT !.status = "waiting", !.assigned = log[k].from.staff]]
  /\ UNCHANGED <<staff, refunds>>

UndoTermination(k) ==
  /\ Compensate(k, TerminationTypes)
  /\ entry' = [entry EXCEPT ![log[k].entity] =
       [@ EXCEPT !.status = log[k].from.status, !.abandoned = FALSE,
                 !.order = log[k].from.order,
                 !.assigned = log[k].from.staff]]
  /\ staff' = IF log[k].from.status = "in_service" THEN Occupy(staff, log[k].from.staff) ELSE staff
  /\ UNCHANGED refunds

UndoReassign(k) ==
  LET row == entry[log[k].entity] IN
  /\ Compensate(k, {"queue_entry_reassigned"})
  /\ entry' = [entry EXCEPT ![log[k].entity] = [@ EXCEPT !.assigned = log[k].from.staff]]
  /\ staff' = IF row.status = "in_service"
              THEN Occupy(Free(staff, row.assigned), log[k].from.staff) ELSE staff
  /\ UNCHANGED refunds

UndoServiceChange(k) ==
  /\ Compensate(k, {"queue_entry_service_changed"})
  /\ entry' = [entry EXCEPT ![log[k].entity] = [@ EXCEPT !.service = log[k].from.service]]
  /\ UNCHANGED <<staff, refunds>>

UndoReorder(k) ==
  /\ Compensate(k, {"queue_entry_reordered"})
  /\ entry' = [e \in Entries |->
                 IF e \in DOMAIN log[k].from.orders
                 THEN [entry[e] EXCEPT !.order = log[k].from.orders[e]] ELSE entry[e]]
  /\ UNCHANGED <<staff, refunds>>

UndoPresent(k) ==
  /\ Compensate(k, {"queue_entry_present_toggled"})
  /\ entry' = [entry EXCEPT ![log[k].entity] = [@ EXCEPT !.present = log[k].from.present]]
  /\ UNCHANGED <<staff, refunds>>

UndoReturn_BarberForgotten(k) ==
  /\ Compensate(k, {"queue_entry_returned_to_waiting"})
  /\ entry' = [entry EXCEPT ![log[k].entity] =
       [@ EXCEPT !.status = log[k].from.status,
                 !.order = log[k].from.order]]
  /\ UNCHANGED <<staff, refunds>>

\* The barber is not made busy again.
UndoReturn(k) ==
  /\ Compensate(k, {"queue_entry_returned_to_waiting"})
  /\ entry' = [entry EXCEPT ![log[k].entity] =
       [@ EXCEPT !.status = log[k].from.status,
                 !.assigned = log[k].from.staff,
                 !.order = log[k].from.order]]
  /\ UNCHANGED <<staff, refunds>>

UndoStaffStatus(k) ==
  /\ Compensate(k, StaffTypes)
  /\ staff' = [staff EXCEPT ![log[k].entity] = log[k].from.status]
  /\ UNCHANGED <<entry, refunds>>

-----------------------------------------------------------------------------
Init ==
  /\ entry = [e \in Entries |-> AbsentRow]
  /\ staff \in [Staff -> {"available", "off"}]
  /\ log = <<>>
  /\ appt \in [Appointments -> [status: {"booked"}, staff: Nullable(Staff), service: Services]]
  /\ refunds = <<>>

Arrive ==
  \/ \E e \in Entries, form \in Forms : CheckIn(e, form)
  \/ \E a \in Appointments, e \in Entries :
       Materialize(a, e) \/ CheckInAppointment(a, e) \/ CheckInEarly(a, e)

Serve ==
  \/ \E e \in Entries, s \in Staff, svc \in Services, n \in Notes : Start(e, s, svc, n)
  \/ \E e \in Entries, svc \in Services : Complete(e, svc) \/ ChangeService(e, svc)
  \/ \E e \in Entries : NoShow(e) \/ Cancel(e) \/ PublicCancel(e) \/ Abandon(e)
  \/ \E e \in Entries, s \in Staff : Reassign(e, s)
  \/ \E e \in Entries, position \in {"top", "original"} : ReturnToWaiting(e, position)

Arrange ==
  \/ \E pos \in DraggedLists : Reorder(pos)
  \/ \E e \in FlagRows, flag \in BOOLEAN :
       TogglePresent(e, flag) \/ ToggleReady(e, flag) \/ SetLateArrival(e, flag)
  \/ \E e \in FlagRows, n \in Notes : UpdateServiceNotes(e, n)

Clock ==
  \/ \E s \in Staff : Deactivate(s)
  \/ \E s \in ClockStaff : ClockIn(s)
  \/ \E s \in ClockStaff, status \in {"available", "break", "off"} : SetStaffStatus(s, status)

Undo ==
  \E k \in DOMAIN log :
    \/ UndoCheckIn(k) \/ UndoStart(k) \/ UndoComplete(k) \/ UndoTermination(k)
    \/ UndoReassign(k) \/ UndoServiceChange(k) \/ UndoReorder(k) \/ UndoPresent(k)
    \/ UndoReturn(k) \/ UndoStaffStatus(k)

Next == Arrive \/ Serve \/ Arrange \/ Clock \/ Undo

Spec == Init /\ [][Next]_vars

-----------------------------------------------------------------------------
(* What the tables may hold, and what relates them. *)

\* Every column holds a value of its domain and every event is well formed.
TypeOK ==
  /\ entry \in [Entries -> Row]
  /\ staff \in [Staff -> StaffStatus]
  /\ log \in Seq(Event)
  /\ appt \in [Appointments ->
               [status: ApptStatus, staff: Nullable(Staff), service: Services]]
  /\ refunds \in Seq(Nat)

EventsOf(e) == {k \in DOMAIN log : log[k].entity = e}

\* The status an event left its row in, None when it left the status alone.
StatusLeft(events, ev) ==
  CASE ev.type = "service_started" -> "in_service"
    [] ev.type = "service_completed" -> "completed"
    [] ev.type = "queue_entry_no_show" -> "no_show"
    [] ev.type \in {"queue_entry_cancelled", "queue_entry_abandoned"} -> "cancelled"
    [] ev.type = "queue_entry_returned_to_waiting" -> "waiting"
    [] ev.type = "undone" -> IF events[ev.target].type = "client_checked_in" THEN "cancelled"
                             ELSE events[ev.target].from.status
    [] OTHER -> None

StatusEvents(events, e) ==
  {k \in DOMAIN events : events[k].entity = e /\ StatusLeft(events, events[k]) # None}

\* A client in a chair has a barber: no start, reassignment, return or undo leaves
\* a row in_service that names nobody (completing or cancelling it would free no one).
ServingHasBarber == \A e \in Entries : entry[e].status = "in_service" => entry[e].assigned \in Staff

FoldsTo(events, e, status) ==
  /\ StatusEvents(events, e) = {} => status = "waiting"
  /\ \A k \in StatusEvents(events, e) :
       (\A j \in StatusEvents(events, e) : j <= k) => status = StatusLeft(events, events[k])

\* The status column is what folding the activity log gives: the status the last
\* status-bearing event of the row left, or waiting when there is none.  Undo writes the
\* column from a payload recorded earlier, so a stale undo would break this.
StatusMatchesLog == \A e \in Entries : Existing(e) => FoldsTo(log, e, entry[e].status)

LastEvent   == log'[Len(log')]
UndoStep(k) == Len(log') = Len(log) + 1 /\ LastEvent.type = "undone" /\ LastEvent.target = k

RestoresRow(k) ==
  LET row == entry'[log[k].entity] IN
  /\ row.status = log[k].before.status
  /\ row.assigned = log[k].before.assigned
  /\ log[k].type # "service_completed" => row.service = log[k].before.service

\* Undoing an event on a row gives the row back the status, the barber and, unless a
\* checkout replaced it, the service it had before that event, however long ago the event
\* was: several handlers restore only part of a row and rely on the check for later events.
UndoRestores ==
  [][\A k \in DOMAIN log :
       UndoStep(k) /\ log[k].entity \in Entries /\ log[k].type # "client_checked_in"
         => RestoresRow(k)]_vars

Refunded(k)     == \E i \in DOMAIN refunds : refunds[i] = k
StandingSales(e) ==
  {k \in EventsOf(e) : log[k].type = "service_completed" /\ ~Refunded(k)}
ReopenedVisits(e) ==
  {k \in EventsOf(e) : /\ log[k].type = "queue_entry_returned_to_waiting"
                       /\ log[k].from.status = "completed"
                       /\ ~AlreadyUndone(k)}

\* The money agrees with the board: a visit has one sale that is not refunded when it is
\* completed, none otherwise, and one more for every time it was sent back to the line
\* after its checkout; no sale is refunded twice by undo.
SalesMatchVisits ==
  /\ \A e \in Entries :
       Cardinality(StandingSales(e)) =
         Cardinality(ReopenedVisits(e)) + (IF entry[e].status = "completed" THEN 1 ELSE 0)
  /\ \A i, j \in DOMAIN refunds : refunds[i] = refunds[j] => i = j

\* Row e came back to the floor after it had left it: by an undo, or by a return to
\* waiting, which accepts a row in any status.
CameBack(e) ==
  \E k \in EventsOf(e) :
    \/ log[k].type = "undone" /\ log[log[k].target].from.status \in {"waiting", "in_service"}
    \/ log[k].type = "queue_entry_returned_to_waiting"
         /\ log[k].from.status \notin {"waiting", "in_service"}

\* One spot in line: two live rows of one walk-in client, or of one appointment, exist
\* only if one of them came back after the other was let in.
OneSpotUnlessOneCameBack ==
  \A e, f \in Entries :
    /\ e # f /\ Live(e) /\ Live(f)
    /\ \/ entry[e].client # None /\ entry[e].client = entry[f].client
            /\ ~entry[e].isAppt /\ ~entry[f].isAppt
       \/ entry[e].link # None /\ entry[e].link = entry[f].link
    => CameBack(e) \/ CameBack(f)

\* Nothing but starts, completions, cancellations, returns and reassignments happened to
\* barber s: no clock or status event, no undo, and no appointment, whose barber is chosen
\* by schedule.
OnlyWalkInsServed(s) ==
  /\ \A k \in DOMAIN log : log[k].type # "undone" /\ (log[k].type \in StaffTypes => log[k].entity # s)
  /\ \A e \in Entries : ~entry[e].isAppt

\* One client per chair: a barber who serves walk-ins only has at most one of them, and
\* is busy exactly while that one is in the chair unless the manager clocked them out.
OneClientPerChair ==
  \A s \in Staff : OnlyWalkInsServed(s) =>
    /\ \A e, f \in Serving(s) : e = f
    /\ staff[s] = "busy" => Serving(s) # {}
    /\ staff[s] = "available" => Serving(s) = {}

-----------------------------------------------------------------------------
(* What the documents promise and the code does not keep. *)

\* docs/PRD-live-queue-checkin.md:82: a change to break or off is never applied over an
\* active client.  The guard asks for a client only of a barber whose status is busy.
BreakNeverOrphans ==
  [][\A s \in Staff :
       Len(log') = Len(log) + 1 /\ LastEvent.type = "staff_status_changed"
         /\ LastEvent.entity = s /\ staff'[s] \in {"break", "off"}
         => Serving(s) = {}]_vars

\* queue.service.ts:516: one live spot per client.
OneLiveSpotPerClient ==
  \A e, f \in Entries :
    Live(e) /\ Live(f) /\ entry[e].client # None /\ entry[e].client = entry[f].client
      /\ ~entry[e].isAppt /\ ~entry[f].isAppt => e = f

\* docs/PRD-live-queue-checkin.md:103: undo restores the snapshot, so a client it puts
\* back in a chair occupies the barber again.
UndoReseatsBarber ==
  [][\A e \in Entries :
       entry[e].status # "in_service" /\ entry'[e].status = "in_service"
         /\ LastEvent.type = "undone" => staff'[entry'[e].assigned] = "busy"]_vars

=============================================================================
