-------------------------- MODULE LiveQueueProofs --------------------------
(***************************************************************************)
(* What is proved of LiveQueue for any number of rows, barbers, clients,   *)
(* appointments and events.                                                *)
(*                                                                         *)
(* Undo writes columns from payloads recorded long before, so none of the  *)
(* properties is inductive: the invariant below says what the payload of   *)
(* each kind of event holds, and that the last event of a row explains the *)
(* row as it is now.                                                       *)
(*                                                                         *)
(* The floor laws at the end -- one spot in line, one client in a chair, a *)
(* sale for every completed visit -- relate rows to rows, rows to clocks   *)
(* and rows to sales, so they need little of an action: what it does to    *)
(* the status, the barber and the guest of its row and which event it      *)
(* records.                                                                *)
(***************************************************************************)
EXTENDS LiveQueue, FiniteSetTheorems, TLAPS

-----------------------------------------------------------------------------
(* The invariant. *)

RowTypes == {"client_checked_in", "service_started", "service_completed",
             "queue_entry_reassigned", "queue_entry_service_changed",
             "queue_entry_present_toggled", "queue_entry_returned_to_waiting"} \cup TerminationTypes

Orders == UNION {[S -> Nullable(Positions)] : S \in SUBSET Entries}

\* The events whose handlers do not touch the status, the barber, the service of a row.
KeepsStatus  == {"queue_entry_reassigned", "queue_entry_service_changed",
                 "queue_entry_present_toggled"}
KeepsBarber  == {"service_completed", "queue_entry_service_changed",
                 "queue_entry_present_toggled"} \cup TerminationTypes
KeepsService == {"queue_entry_reassigned", "queue_entry_present_toggled",
                 "queue_entry_returned_to_waiting"} \cup TerminationTypes

\* What the payload of an event holds, by its type.
Shaped(ev) ==
  /\ ev.type \in RowTypes => ev.entity \in Entries
  /\ ev.type \in StaffTypes => ev.entity \in Staff /\ ev.from.status \in StaffStatus
  /\ ev.type = "queue_entry_reordered" => ev.entity = None /\ ev.from.orders \in Orders
  /\ ev.type = "queue_entry_present_toggled" => ev.from.present \in BOOLEAN
  /\ ev.type = "service_started" => ev.from.status = "waiting" /\ ev.staff \in Staff
  /\ ev.type = "service_completed" => ev.from.status = "in_service"
  /\ ev.type \in TerminationTypes => ev.from.status \in {"waiting", "in_service"}
  /\ ev.type = "queue_entry_returned_to_waiting" => ev.from.status \in RowStatus
  /\ ev.type \in KeepsStatus => ev.from.status = None

Seated(row) == row.status = "in_service" => row.assigned \in Staff

\* The payload agrees with the row as it was when the event was written.
Snapshot(ev) ==
  /\ Seated(ev.before)
  /\ ev.type \in {"service_started", "queue_entry_returned_to_waiting"} \cup TerminationTypes
       => ev.from.status = ev.before.status /\ ev.from.staff = ev.before.assigned
  /\ ev.type = "service_started" => ev.from.service = ev.before.service
  /\ ev.type = "service_completed" => ev.before.status = "in_service"
  /\ ev.type = "queue_entry_reassigned" => ev.from.staff = ev.before.assigned
  /\ ev.type = "queue_entry_service_changed" => ev.from.service = ev.before.service

\* What the handler of ev left alone, and nothing has changed in the row since.
Explains(ev, row) ==
  /\ ev.type \in KeepsStatus => row.status = ev.before.status
  /\ ev.type \in KeepsBarber => row.assigned = ev.before.assigned
  /\ ev.type \in KeepsService => row.service = ev.before.service

LastOfItsRow(events, k) == \A j \in DOMAIN events : events[j].entity = events[k].entity => j <= k

\* The rows and the events, taken together.
RowInv(rows, events) ==
  /\ \A k \in DOMAIN events : Shaped(events[k]) /\ Snapshot(events[k])
  /\ \A k \in DOMAIN events :
       events[k].entity \in Entries => rows[events[k].entity].status # "none"
  /\ \A k \in DOMAIN events : events[k].type = "undone" => events[k].target \in 1 .. (k - 1)
  /\ \A k \in DOMAIN events :
       events[k].entity \in Entries /\ LastOfItsRow(events, k)
         => Explains(events[k], rows[events[k].entity])
  /\ \A e \in Entries : Seated(rows[e])
  /\ \A e \in Entries : rows[e].status # "none" => FoldsTo(events, e, rows[e].status)

IInv == TypeOK /\ RowInv(entry, log)

-----------------------------------------------------------------------------
(* Steps of the rows and the events. *)

\* Appending an event leaves the status every earlier event left.
LEMMA StatusLeftStable ==
  ASSUME NEW events \in Seq(Event), NEW ev \in Event, NEW k \in DOMAIN events,
         events[k].type = "undone" => events[k].target \in 1 .. (k - 1)
  PROVE  StatusLeft(Append(events, ev), events[k]) = StatusLeft(events, events[k])
<1>1. CASE events[k].type = "undone"
  <2>1. events[k].target \in DOMAIN events /\ events[k].target # Len(events) + 1
    BY <1>1
  <2>2. Append(events, ev)[events[k].target] = events[events[k].target]
    BY <2>1
  <2>3. QED
    BY <1>1, <2>2 DEF StatusLeft
<1>2. CASE events[k].type # "undone"
  BY <1>2 DEF StatusLeft
<1>3. QED
  BY <1>1, <1>2

\* What folding the log gives for a row when ev is appended: ev decides if it bears a
\* status and is of that row, and nothing changes otherwise.
LEMMA FoldsStep ==
  ASSUME NEW events \in Seq(Event), NEW ev \in Event, NEW e \in Entries, NEW old, NEW new,
         \A k \in DOMAIN events : events[k].type = "undone" => events[k].target \in 1 .. (k - 1),
         ev.type = "undone" => ev.target \in 1 .. Len(events),
         FoldsTo(events, e, old),
         ev.entity = e /\ StatusLeft(events, ev) # None
           => new = StatusLeft(events, ev),
         ~(ev.entity = e /\ StatusLeft(events, ev) # None) => new = old
  PROVE  FoldsTo(Append(events, ev), e, new)
<1> DEFINE longer == Append(events, ev)
           n == Len(events) + 1
<1>1. /\ DOMAIN longer = DOMAIN events \cup {n} /\ longer[n] = ev /\ n \in Nat
      /\ \A k \in DOMAIN events : longer[k] = events[k] /\ k \in Nat /\ k < n
  OBVIOUS
<1>2. \A k \in DOMAIN events : StatusLeft(longer, longer[k]) = StatusLeft(events, events[k])
  BY <1>1, StatusLeftStable
<1>3. StatusLeft(longer, longer[n]) = StatusLeft(events, ev)
  <2>1. CASE ev.type = "undone"
    BY <1>1, <2>1 DEF StatusLeft
  <2>2. CASE ev.type # "undone"
    BY <1>1, <2>2 DEF StatusLeft
  <2>3. QED
    BY <2>1, <2>2
<1>4. CASE ev.entity = e /\ StatusLeft(events, ev) # None
  <2>1. StatusEvents(longer, e) = StatusEvents(events, e) \cup {n}
    BY <1>1, <1>2, <1>3, <1>4 DEF StatusEvents
  <2>2. \A k \in StatusEvents(events, e) : k \in Nat /\ k < n
    BY <1>1 DEF StatusEvents
  <2>3. \A k \in StatusEvents(longer, e) :
          (\A j \in StatusEvents(longer, e) : j <= k) => k = n
    BY <1>1, <2>1, <2>2
  <2>4. StatusEvents(longer, e) # {}
    BY <2>1
  <2>5. QED
    BY <1>3, <1>4, <2>3, <2>4 DEF FoldsTo
<1>5. CASE ~(ev.entity = e /\ StatusLeft(events, ev) # None)
  <2>1. StatusEvents(longer, e) = StatusEvents(events, e)
    BY <1>1, <1>2, <1>3, <1>5 DEF StatusEvents
  <2>2. StatusEvents(events, e) \subseteq DOMAIN events
    BY DEF StatusEvents
  <2>3. QED
    BY <1>2, <1>5, <2>1, <2>2 DEF FoldsTo
<1>6. QED
  BY <1>4, <1>5

\* Recording ev, well formed and about row e, while row e becomes row.
LEMMA RowStep ==
  ASSUME ConstantsOK,
         NEW rows \in [Entries -> Row], NEW events \in Seq(Event), RowInv(rows, events),
         NEW e \in Entries, NEW row \in Row, NEW ev \in Event,
         ev.entity = e, Shaped(ev), Snapshot(ev), Explains(ev, row), Seated(row),
         row.status # "none",
         ev.type = "undone" => ev.target \in 1 .. Len(events),
         StatusLeft(events, ev) # None => row.status = StatusLeft(events, ev),
         StatusLeft(events, ev) = None =>
           \/ row.status = rows[e].status
           \/ rows[e].status = "none" /\ row.status = "waiting"
  PROVE  RowInv([rows EXCEPT ![e] = row], Append(events, ev))
<1> DEFINE longer == Append(events, ev)
           n == Len(events) + 1
           after == [rows EXCEPT ![e] = row]
<1>1. /\ DOMAIN longer = DOMAIN events \cup {n} /\ longer[n] = ev /\ n \in Nat
      /\ \A k \in DOMAIN events : longer[k] = events[k] /\ k \in Nat /\ k < n
  OBVIOUS
<1>2. after[e] = row /\ \A f \in Entries \ {e} : after[f] = rows[f]
  OBVIOUS
<1>3. \A k \in DOMAIN longer : Shaped(longer[k]) /\ Snapshot(longer[k])
  BY <1>1 DEF RowInv
<1>4. \A k \in DOMAIN longer :
        longer[k].entity \in Entries => after[longer[k].entity].status # "none"
  BY <1>1, <1>2 DEF RowInv
<1>5. \A k \in DOMAIN longer : longer[k].type = "undone" => longer[k].target \in 1 .. (k - 1)
  BY <1>1 DEF RowInv
<1>6. \A k \in DOMAIN longer :
        longer[k].entity \in Entries /\ LastOfItsRow(longer, k)
          => Explains(longer[k], after[longer[k].entity])
  <2> SUFFICES ASSUME NEW k \in DOMAIN longer, longer[k].entity \in Entries,
                      LastOfItsRow(longer, k)
               PROVE  Explains(longer[k], after[longer[k].entity])
    OBVIOUS
  <2>1. CASE k = n
    BY <1>1, <1>2, <2>1
  <2>2. CASE k # n
    <3>1. k \in DOMAIN events /\ longer[k] = events[k]
      BY <1>1, <2>2
    <3>2. longer[k].entity # e
      BY <1>1, <3>1 DEF LastOfItsRow
    <3>3. LastOfItsRow(events, k)
      BY <1>1, <3>1 DEF LastOfItsRow
    <3>4. QED
      BY <1>2, <3>1, <3>2, <3>3 DEF RowInv
  <2>3. QED
    BY <2>1, <2>2
<1>7. \A f \in Entries : Seated(after[f])
  BY <1>2 DEF RowInv
<1>8. \A f \in Entries : after[f].status # "none" => FoldsTo(longer, f, after[f].status)
  <2> SUFFICES ASSUME NEW f \in Entries, after[f].status # "none"
               PROVE  FoldsTo(longer, f, after[f].status)
    OBVIOUS
  <2>1. CASE rows[f].status # "none"
    <3>1. FoldsTo(events, f, rows[f].status)
      BY <2>1 DEF RowInv
    <3>2. QED
      BY <1>2, <2>1, <3>1, FoldsStep DEF RowInv
  <2>2. CASE rows[f].status = "none"
    <3>1. \A k \in DOMAIN events : events[k].entity # f
      BY <2>2 DEF RowInv
    <3>2. FoldsTo(events, f, "waiting")
      BY <3>1 DEF FoldsTo, StatusEvents
    <3>3. f = e
      BY <1>2, <2>2
    <3>4. QED
      BY <1>2, <2>2, <3>2, <3>3, FoldsStep DEF RowInv
  <2>3. QED
    BY <2>1, <2>2
<1>9. QED
  BY <1>3, <1>4, <1>5, <1>6, <1>7, <1>8 DEF RowInv

\* Recording an event that is about no row, while no row changes what the events explain.
LEMMA OtherStep ==
  ASSUME ConstantsOK,
         NEW rows \in [Entries -> Row], NEW events \in Seq(Event), RowInv(rows, events),
         NEW after \in [Entries -> Row], NEW ev \in Event,
         ev.entity \notin Entries, Shaped(ev), Snapshot(ev),
         ev.type = "undone" => ev.target \in 1 .. Len(events),
         \A e \in Entries : /\ after[e].status = rows[e].status
                            /\ after[e].assigned = rows[e].assigned
                            /\ after[e].service = rows[e].service
  PROVE  RowInv(after, Append(events, ev))
<1> DEFINE longer == Append(events, ev)
           n == Len(events) + 1
<1>1. /\ DOMAIN longer = DOMAIN events \cup {n} /\ longer[n] = ev /\ n \in Nat
      /\ \A k \in DOMAIN events : longer[k] = events[k] /\ k \in Nat /\ k < n
  OBVIOUS
<1>2. \A k \in DOMAIN longer : Shaped(longer[k]) /\ Snapshot(longer[k])
  BY <1>1 DEF RowInv
<1>3. \A k \in DOMAIN longer :
        longer[k].entity \in Entries => after[longer[k].entity].status # "none"
  BY <1>1 DEF RowInv
<1>4. \A k \in DOMAIN longer : longer[k].type = "undone" => longer[k].target \in 1 .. (k - 1)
  BY <1>1 DEF RowInv
<1>5. \A k \in DOMAIN longer :
        longer[k].entity \in Entries /\ LastOfItsRow(longer, k)
          => Explains(longer[k], after[longer[k].entity])
  <2> SUFFICES ASSUME NEW k \in DOMAIN longer, longer[k].entity \in Entries,
                      LastOfItsRow(longer, k)
               PROVE  Explains(longer[k], after[longer[k].entity])
    OBVIOUS
  <2>1. k \in DOMAIN events /\ longer[k] = events[k]
    BY <1>1
  <2>2. LastOfItsRow(events, k)
    BY <1>1, <2>1 DEF LastOfItsRow
  <2>3. Explains(events[k], rows[events[k].entity])
    BY <2>1, <2>2 DEF RowInv
  <2>4. QED
    BY <2>1, <2>3 DEF Explains
<1>6. \A e \in Entries : Seated(after[e])
  BY DEF RowInv, Seated
<1>7. \A e \in Entries : after[e].status # "none" => FoldsTo(longer, e, after[e].status)
  BY FoldsStep DEF RowInv
<1>8. QED
  BY <1>2, <1>3, <1>4, <1>5, <1>6, <1>7 DEF RowInv

\* A step that records nothing: it leaves alone what the events explain, or puts a waiting
\* row where there was none.
LEMMA QuietStep ==
  ASSUME NEW rows \in [Entries -> Row], NEW events \in Seq(Event), RowInv(rows, events),
         NEW e \in Entries, NEW row \in Row,
         \/ /\ row.status = rows[e].status
            /\ row.assigned = rows[e].assigned
            /\ row.service = rows[e].service
         \/ rows[e].status = "none" /\ row.status = "waiting"
  PROVE  RowInv([rows EXCEPT ![e] = row], events)
<1> DEFINE after == [rows EXCEPT ![e] = row]
<1>1. after[e] = row /\ \A f \in Entries \ {e} : after[f] = rows[f]
  OBVIOUS
<1>2. CASE /\ row.status = rows[e].status
           /\ row.assigned = rows[e].assigned
           /\ row.service = rows[e].service
  <2>1. \A f \in Entries : /\ after[f].status = rows[f].status
                           /\ after[f].assigned = rows[f].assigned
                           /\ after[f].service = rows[f].service
    BY <1>1, <1>2
  <2>2. QED
    BY <2>1 DEF RowInv, Explains, Seated
<1>3. CASE rows[e].status = "none" /\ row.status = "waiting"
  <2>1. \A k \in DOMAIN events : events[k].entity # e
    BY <1>3 DEF RowInv
  <2>2. FoldsTo(events, e, "waiting")
    BY <2>1 DEF FoldsTo, StatusEvents
  <2>3. QED
    BY <1>1, <1>3, <2>1, <2>2 DEF RowInv, Seated
<1>4. QED
  BY <1>2, <1>3

-----------------------------------------------------------------------------
(* Facts about the types. *)

LEMMA AbsentRowIsRow == AbsentRow \in Row
  BY DEF AbsentRow, Row, Nullable

\* Ending a visit, or setting its flags, leaves a row that is a row.
LEMMA EndedRow ==
  ASSUME NEW row \in Row, NEW status \in RowStatus, NEW abandoned \in BOOLEAN
  PROVE  [row EXCEPT !.status = status, !.abandoned = abandoned] \in Row
  BY DEF Row

LEMMA PresentRow ==
  ASSUME NEW row \in Row, NEW present \in BOOLEAN
  PROVE  [row EXCEPT !.present = present, !.ready = IF present THEN row.ready ELSE None] \in Row
<1> DEFINE new == [row EXCEPT !.present = present, !.ready = IF present THEN row.ready ELSE None]
<1>1. CASE present = TRUE
  <2>1. new = [row EXCEPT !.present = TRUE, !.ready = row.ready]
    BY <1>1
  <2>2. QED
    BY <2>1 DEF Row
<1>2. CASE present = FALSE
  <2>1. new = [row EXCEPT !.present = FALSE, !.ready = None]
    BY <1>2
  <2>2. [row EXCEPT !.present = FALSE, !.ready = None] \in Row
    BY DEF Row, Nullable
  <2>3. QED
    BY <2>1, <2>2
<1>3. QED
  BY <1>1, <1>2

LEMMA ReadyRow ==
  ASSUME NEW row \in Row, NEW ready \in BOOLEAN
  PROVE  [row EXCEPT !.ready = ready, !.present = ready \/ row.present] \in Row
<1>1. (ready \/ row.present) \in BOOLEAN /\ ready \in Nullable(BOOLEAN)
  BY DEF Nullable
<1>2. QED
  BY <1>1 DEF Row

\* Freeing or occupying a barber, or nobody, leaves every clock status legal.
LEMMA ClockTypes ==
  ASSUME NEW status \in [Staff -> StaffStatus], NEW s
  PROVE  /\ Free(status, s) \in [Staff -> StaffStatus]
         /\ Occupy(status, s) \in [Staff -> StaffStatus]
  BY DEF Free, Occupy, StaffStatus

\* What NewEvent writes about a row.
LEMMA RowEventFields ==
  ASSUME TypeOK, NEW type \in EventTypes, NEW e \in Entries, NEW s \in Nullable(Staff),
         NEW from \in Reversal, NEW ev, ev = NewEvent(type, e, s, from)
  PROVE  /\ ev \in Event /\ ev.type = type /\ ev.entity = e /\ ev.staff = s
         /\ ev.from = from /\ ev.before = entry[e] /\ ev.target = None
<1>1. entry[e] \in Row
  BY DEF TypeOK
<1>2. QED
  BY <1>1 DEF NewEvent, Event, Nullable

\* What NewEvent writes about a barber, or about the line as a whole.
LEMMA OtherEventFields ==
  ASSUME ConstantsOK, NEW type \in EventTypes, NEW s \in Staff \cup {None}, NEW from \in Reversal,
         NEW ev, ev = NewEvent(type, s, None, from)
  PROVE  /\ ev \in Event /\ ev.type = type /\ ev.entity = s /\ ev.from = from
         /\ ev.entity \notin Entries /\ ev.before.status = "none"
<1>1. s \notin Entries
  BY DEF ConstantsOK
<1>2. ev.before = AbsentRow
  BY <1>1 DEF NewEvent
<1>3. QED
  BY <1>1, <1>2, AbsentRowIsRow DEF NewEvent, Event, Nullable, AbsentRow

LEMMA NoReversalFields == NoReversal \in Reversal /\ NoReversal.status = None
  BY DEF NoReversal, Reversal, Nullable

-----------------------------------------------------------------------------
(* One row changes and one event about it is recorded. *)

LEMMA LoggedRow ==
  ASSUME ConstantsOK, IInv,
         NEW e \in Entries, NEW row \in Row, NEW ev \in Event,
         entry' = [entry EXCEPT ![e] = row], log' = Append(log, ev),
         staff' \in [Staff -> StaffStatus], UNCHANGED appt, refunds' \in Seq(Nat),
         ev.entity = e, Shaped(ev), Snapshot(ev), Explains(ev, row), Seated(row),
         row.status # "none",
         ev.type = "undone" => ev.target \in 1 .. Len(log),
         StatusLeft(log, ev) # None => row.status = StatusLeft(log, ev),
         StatusLeft(log, ev) = None =>
           \/ row.status = entry[e].status
           \/ entry[e].status = "none" /\ row.status = "waiting"
  PROVE  IInv'
<1>1. RowInv(entry', log')
  BY RowStep DEF IInv, TypeOK
<1>2. TypeOK'
  BY DEF IInv, TypeOK
<1>3. QED
  BY <1>1, <1>2 DEF IInv

\* Every row is a row, and a client in a chair has a barber.
LEMMA RowFacts ==
  ASSUME IInv, NEW e \in Entries
  PROVE  entry[e] \in Row /\ Seated(entry[e])
  BY DEF IInv, TypeOK, RowInv

LEMMA CheckInStep ==
  ASSUME ConstantsOK, IInv, NEW e \in Entries, NEW form \in Forms, CheckIn(e, form)
  PROVE  IInv'
<1>1. PICK place \in Positions :
        entry' = [entry EXCEPT ![e] =
          [AbsentRow EXCEPT !.status = "waiting", !.assigned = form.staff,
             !.client = form.client, !.isAppt = form.isAppt, !.present = form.present,
             !.order = place, !.original = place, !.service = form.service,
             !.notes = form.notes]]
  BY DEF CheckIn
<1> DEFINE row == [AbsentRow EXCEPT !.status = "waiting", !.assigned = form.staff,
             !.client = form.client, !.isAppt = form.isAppt, !.present = form.present,
             !.order = place, !.original = place, !.service = form.service,
             !.notes = form.notes]
           ev == NewEvent("client_checked_in", e, None, NoReversal)
<1>2. /\ form.staff \in Nullable(Staff) /\ form.client \in Nullable(Clients)
      /\ form.isAppt \in BOOLEAN /\ form.present \in BOOLEAN
      /\ form.service \in Nullable(Services) /\ form.notes \in Nullable(Notes)
  BY DEF ConstantsOK, Nullable
<1>3. row \in Row /\ row.status = "waiting"
  BY <1>2 DEF Row, AbsentRow, Nullable, RowStatus
<1>4. /\ ev \in Event /\ ev.type = "client_checked_in" /\ ev.entity = e
      /\ ev.before = entry[e]
  BY RowEventFields, NoReversalFields DEF IInv, EventTypes, Nullable
<1>5. StatusLeft(log, ev) = None
  BY <1>4 DEF StatusLeft
<1>6. Shaped(ev) /\ Snapshot(ev) /\ Explains(ev, row) /\ Seated(row)
  BY <1>3, <1>4 DEF Shaped, Snapshot, Explains, Seated, RowTypes, StaffTypes, TerminationTypes,
       KeepsStatus, KeepsBarber, KeepsService, IInv, RowInv
<1>7. QED
  BY <1>1, <1>3, <1>4, <1>5, <1>6, LoggedRow DEF CheckIn, Record, Existing, IInv, TypeOK

LEMMA StartStep ==
  ASSUME ConstantsOK, IInv, NEW e \in Entries, NEW s \in Staff, NEW svc \in Services,
         NEW n \in Notes, Start(e, s, svc, n)
  PROVE  IInv'
<1> DEFINE row == [entry[e] EXCEPT !.status = "in_service", !.assigned = s, !.service = svc,
                                   !.notes = n, !.ready = None]
           from == [NoReversal EXCEPT !.status = entry[e].status, !.staff = entry[e].assigned,
                                      !.notes = entry[e].notes, !.service = entry[e].service]
           ev == NewEvent("service_started", e, s, from)
<1>1. entry[e] \in Row
  BY DEF IInv, TypeOK
<1>2. row \in Row /\ row.status = "in_service" /\ row.assigned = s
  BY <1>1 DEF Row, Nullable, RowStatus
<1>3. /\ from \in Reversal /\ from.status = entry[e].status
      /\ from.staff = entry[e].assigned /\ from.service = entry[e].service
  BY <1>1 DEF NoReversal, Reversal, Row, Nullable, Start, RowStatus
<1>4. /\ ev \in Event /\ ev.type = "service_started" /\ ev.entity = e /\ ev.staff = s
      /\ ev.from = from /\ ev.before = entry[e]
  BY <1>3, RowEventFields DEF IInv, EventTypes, Nullable
<1>5. StatusLeft(log, ev) = "in_service"
  BY <1>4 DEF StatusLeft
<1>6. Shaped(ev) /\ Snapshot(ev) /\ Explains(ev, row) /\ Seated(row)
  BY <1>2, <1>3, <1>4 DEF Shaped, Snapshot, Explains, Seated, RowTypes, StaffTypes,
       TerminationTypes, KeepsStatus, KeepsBarber, KeepsService, IInv, RowInv, Start
<1>7. staff' \in [Staff -> StaffStatus]
  BY ClockTypes DEF IInv, TypeOK, Start
<1>8. None # "in_service"
  BY DEF ConstantsOK, RowStatus
<1>9. QED
  BY <1>2, <1>4, <1>5, <1>6, <1>7, <1>8, LoggedRow DEF Start, Record, IInv, TypeOK

LEMMA CompleteStep ==
  ASSUME ConstantsOK, IInv, NEW e \in Entries, NEW svc \in Services, Complete(e, svc)
  PROVE  IInv'
<1> DEFINE row == [entry[e] EXCEPT !.status = "completed", !.service = svc]
           from == [NoReversal EXCEPT !.status = "in_service", !.staff = entry[e].assigned]
           ev == NewEvent("service_completed", e, None, from)
<1>1. entry[e] \in Row
  BY DEF IInv, TypeOK
<1>2. row \in Row /\ row.status = "completed" /\ row.assigned = entry[e].assigned
  BY <1>1 DEF Row, Nullable, RowStatus
<1>3. from \in Reversal /\ from.status = "in_service"
  BY <1>1 DEF NoReversal, Reversal, Row, Nullable, RowStatus
<1>4. /\ ev \in Event /\ ev.type = "service_completed" /\ ev.entity = e
      /\ ev.from = from /\ ev.before = entry[e]
  BY <1>3, RowEventFields DEF IInv, EventTypes, Nullable
<1>5. StatusLeft(log, ev) = "completed"
  BY <1>4 DEF StatusLeft
<1> HIDE DEF row, from, ev
<1>6. Shaped(ev) /\ Snapshot(ev) /\ Explains(ev, row) /\ Seated(row)
  BY RowFacts, <1>2, <1>3, <1>4 DEF Shaped, Snapshot, Explains, Seated, RowTypes, StaffTypes,
       TerminationTypes, KeepsStatus, KeepsBarber, KeepsService, Complete
<1>7. staff' \in [Staff -> StaffStatus]
  BY ClockTypes DEF IInv, TypeOK, Complete
<1>8. None # "completed"
  BY DEF ConstantsOK, RowStatus
<1>9. QED
  BY <1>2, <1>4, <1>5, <1>6, <1>7, <1>8, LoggedRow DEF row, ev, from, Complete, Record, IInv, TypeOK

\* The four ways a visit ends unserved.
LEMMA TerminateStep ==
  ASSUME ConstantsOK, IInv, NEW e \in Entries, NEW status \in {"cancelled", "no_show"},
         NEW type \in TerminationTypes, NEW allowed \in SUBSET {"waiting", "in_service"},
         NEW abandoned \in BOOLEAN, type = "queue_entry_no_show" <=> status = "no_show",
         Terminate(e, status, type, allowed, abandoned)
  PROVE  IInv'
<1> DEFINE row == [entry[e] EXCEPT !.status = status, !.abandoned = abandoned]
           from == [NoReversal EXCEPT !.status = entry[e].status, !.order = entry[e].order,
                                      !.staff = entry[e].assigned]
           ev == NewEvent(type, e, None, from)
<1>1. entry[e] \in Row /\ entry[e].status \in {"waiting", "in_service"}
  BY DEF IInv, TypeOK, Terminate
<1>2. /\ row \in Row /\ row.status = status /\ row.assigned = entry[e].assigned
      /\ row.service = entry[e].service
  <2>1. status \in RowStatus
    BY DEF RowStatus
  <2>2. row \in Row
    BY <1>1, <2>1, EndedRow
  <2>3. row.status = status /\ row.assigned = entry[e].assigned /\ row.service = entry[e].service
    BY <1>1 DEF Row
  <2>4. QED
    BY <2>2, <2>3
<1>3. /\ from \in Reversal /\ from.status = entry[e].status
      /\ from.staff = entry[e].assigned
  BY <1>1 DEF NoReversal, Reversal, Row, Nullable, RowStatus
<1>4. /\ ev \in Event /\ ev.type = type /\ ev.entity = e /\ ev.from = from /\ ev.before = entry[e]
  BY <1>3, RowEventFields DEF IInv, EventTypes, Nullable
<1>5. StatusLeft(log, ev) = status
  BY <1>4 DEF StatusLeft, TerminationTypes
<1> HIDE DEF row, from, ev
<1>6. Shaped(ev) /\ Snapshot(ev) /\ Explains(ev, row) /\ Seated(row)
  BY RowFacts, <1>1, <1>2, <1>3, <1>4 DEF Shaped, Snapshot, Explains, Seated, RowTypes, StaffTypes,
       TerminationTypes, KeepsStatus, KeepsBarber, KeepsService
<1>7. staff' \in [Staff -> StaffStatus]
  BY ClockTypes DEF IInv, TypeOK, Terminate
<1>8. row.status # "none" /\ ev.type # "undone" /\ StatusLeft(log, ev) # None
  BY <1>2, <1>4, <1>5 DEF ConstantsOK, RowStatus, TerminationTypes
<1>9. QED
  BY <1>2, <1>4, <1>5, <1>6, <1>7, <1>8, LoggedRow DEF row, ev, from, Terminate, Record, IInv, TypeOK

LEMMA ReassignStep ==
  ASSUME ConstantsOK, IInv, NEW e \in Entries, NEW s \in Staff, Reassign(e, s)
  PROVE  IInv'
<1> DEFINE row == [entry[e] EXCEPT !.assigned = s]
           from == [NoReversal EXCEPT !.staff = entry[e].assigned]
           ev == NewEvent("queue_entry_reassigned", e, s, from)
<1>1. entry[e] \in Row /\ entry[e].status # "none"
  BY DEF IInv, TypeOK, Reassign, Existing
<1>2. /\ row \in Row /\ row.status = entry[e].status /\ row.assigned = s
      /\ row.service = entry[e].service
  BY <1>1 DEF Row, Nullable
<1>3. from \in Reversal /\ from.status = None /\ from.staff = entry[e].assigned
  BY <1>1 DEF NoReversal, Reversal, Row, Nullable
<1>4. /\ ev \in Event /\ ev.type = "queue_entry_reassigned" /\ ev.entity = e
      /\ ev.from = from /\ ev.before = entry[e]
  BY <1>3, RowEventFields DEF IInv, EventTypes, Nullable
<1>5. StatusLeft(log, ev) = None
  BY <1>4 DEF StatusLeft
<1> HIDE DEF row, from, ev
<1>6. Shaped(ev) /\ Snapshot(ev) /\ Explains(ev, row) /\ Seated(row)
  BY RowFacts, <1>2, <1>3, <1>4 DEF Shaped, Snapshot, Explains, Seated, RowTypes, StaffTypes,
       TerminationTypes, KeepsStatus, KeepsBarber, KeepsService
<1>7. staff' \in [Staff -> StaffStatus]
  BY ClockTypes DEF IInv, TypeOK, Reassign
<1>8. QED
  BY <1>1, <1>2, <1>4, <1>5, <1>6, <1>7, LoggedRow DEF row, ev, from, Reassign, Record, IInv, TypeOK

LEMMA ChangeServiceStep ==
  ASSUME ConstantsOK, IInv, NEW e \in Entries, NEW svc \in Services, ChangeService(e, svc)
  PROVE  IInv'
<1> DEFINE row == [entry[e] EXCEPT !.service = svc]
           from == [NoReversal EXCEPT !.service = entry[e].service]
           ev == NewEvent("queue_entry_service_changed", e, None, from)
<1>1. entry[e] \in Row /\ entry[e].status = "waiting"
  BY DEF IInv, TypeOK, ChangeService
<1>2. /\ row \in Row /\ row.status = entry[e].status /\ row.assigned = entry[e].assigned
  BY <1>1 DEF Row, Nullable
<1>3. from \in Reversal /\ from.status = None /\ from.service = entry[e].service
  BY <1>1 DEF NoReversal, Reversal, Row, Nullable
<1>4. /\ ev \in Event /\ ev.type = "queue_entry_service_changed" /\ ev.entity = e
      /\ ev.from = from /\ ev.before = entry[e]
  BY <1>3, RowEventFields DEF IInv, EventTypes, Nullable
<1>5. StatusLeft(log, ev) = None
  BY <1>4 DEF StatusLeft
<1> HIDE DEF row, from, ev
<1>6. Shaped(ev) /\ Snapshot(ev) /\ Explains(ev, row) /\ Seated(row)
  BY RowFacts, <1>1, <1>2, <1>3, <1>4 DEF Shaped, Snapshot, Explains, Seated, RowTypes, StaffTypes,
       TerminationTypes, KeepsStatus, KeepsBarber, KeepsService
<1>7. QED
  BY <1>1, <1>2, <1>4, <1>5, <1>6, LoggedRow DEF row, ev, from, ChangeService, Record, IInv, TypeOK

LEMMA ReturnToWaitingStep ==
  ASSUME ConstantsOK, IInv, NEW e \in Entries, NEW position, ReturnToWaiting(e, position)
  PROVE  IInv'
<1>1. PICK place \in Positions :
        entry' = [entry EXCEPT ![e] =
          [@ EXCEPT !.status = "waiting", !.assigned = None, !.order = place]]
  BY DEF ReturnToWaiting
<1> DEFINE row == [entry[e] EXCEPT !.status = "waiting", !.assigned = None, !.order = place]
           from == [NoReversal EXCEPT !.status = entry[e].status, !.staff = entry[e].assigned,
                                      !.order = entry[e].order]
           ev == NewEvent("queue_entry_returned_to_waiting", e, None, from)
<1>2. entry[e] \in Row /\ entry[e].status \in RowStatus
  BY DEF IInv, TypeOK, ReturnToWaiting, Existing, Row
<1>3. /\ row \in Row /\ row.status = "waiting" /\ row.service = entry[e].service
  BY <1>2 DEF Row, Nullable, RowStatus
<1>4. /\ from \in Reversal /\ from.status = entry[e].status
      /\ from.staff = entry[e].assigned
  BY <1>2 DEF NoReversal, Reversal, Row, Nullable
<1>5. /\ ev \in Event /\ ev.type = "queue_entry_returned_to_waiting" /\ ev.entity = e
      /\ ev.from = from /\ ev.before = entry[e]
  BY <1>4, RowEventFields DEF IInv, EventTypes, Nullable
<1>6. StatusLeft(log, ev) = "waiting"
  BY <1>5 DEF StatusLeft
<1> HIDE DEF row, from, ev
<1>7. Shaped(ev) /\ Snapshot(ev) /\ Explains(ev, row) /\ Seated(row)
  BY RowFacts, <1>2, <1>3, <1>4, <1>5 DEF Shaped, Snapshot, Explains, Seated, RowTypes, StaffTypes,
       TerminationTypes, KeepsStatus, KeepsBarber, KeepsService
<1>8. staff' \in [Staff -> StaffStatus]
  BY ClockTypes DEF IInv, TypeOK, ReturnToWaiting
<1>9. None # "waiting"
  BY DEF ConstantsOK, RowStatus
<1>10. QED
  BY <1>1, <1>3, <1>5, <1>6, <1>7, <1>8, <1>9, LoggedRow DEF row, ev, from, ReturnToWaiting, Record, IInv, TypeOK


-----------------------------------------------------------------------------
(* Appointments coming to the floor. *)

LEMMA AppointmentRowIsRow ==
  ASSUME ConstantsOK, TypeOK, NEW a \in Appointments, NEW place \in Positions
  PROVE  AppointmentRow(a, place) \in Row /\ AppointmentRow(a, place).status = "waiting"
<1>1. appt[a].staff \in Nullable(Staff) /\ appt[a].service \in Services /\ ApptClient[a] \in Clients
  BY DEF TypeOK, ConstantsOK
<1>2. QED
  BY <1>1 DEF AppointmentRow, Row, AbsentRow, Nullable, RowStatus

LEMMA MaterializeStep ==
  ASSUME ConstantsOK, IInv, NEW a \in Appointments, NEW e \in Entries, Materialize(a, e)
  PROVE  IInv'
<1>1. PICK place \in Positions : entry' = [entry EXCEPT ![e] = AppointmentRow(a, place)]
  BY DEF Materialize
<1>2. AppointmentRow(a, place) \in Row /\ AppointmentRow(a, place).status = "waiting"
  BY AppointmentRowIsRow DEF IInv
<1>3. RowInv(entry', log')
  BY <1>1, <1>2, QuietStep DEF Materialize, Existing, IInv, TypeOK
<1>4. TypeOK'
  BY <1>1, <1>2 DEF Materialize, IInv, TypeOK
<1>5. QED
  BY <1>3, <1>4 DEF IInv

\* The two events of an appointment's check-in, recorded about a row that is there.
LEMMA PresentThenCheckedIn ==
  ASSUME ConstantsOK,
         NEW rows \in [Entries -> Row], NEW events \in Seq(Event), RowInv(rows, events),
         NEW e \in Entries, rows[e].status # "none",
         NEW row \in Row, row = [rows[e] EXCEPT !.present = TRUE],
         NEW here \in Event, here.type = "queue_entry_present_toggled", here.entity = e,
         here.before = rows[e], here.from.status = None, here.from.present \in BOOLEAN,
         NEW in \in Event, in.type = "client_checked_in", in.entity = e, in.before = row
  PROVE  RowInv([rows EXCEPT ![e] = row], Append(Append(events, here), in))
<1> DEFINE middle == [rows EXCEPT ![e] = row]
<1>1. /\ row.status = rows[e].status /\ row.assigned = rows[e].assigned
      /\ row.service = rows[e].service
  BY DEF Row
<1>2. Seated(rows[e]) /\ Seated(row)
  BY <1>1 DEF RowInv, Seated
<1>3. RowInv(middle, Append(events, here))
  <2>1. Shaped(here) /\ Snapshot(here) /\ Explains(here, row)
    BY <1>1, <1>2 DEF Shaped, Snapshot, Explains, RowTypes, StaffTypes, TerminationTypes,
         KeepsStatus, KeepsBarber, KeepsService
  <2>2. StatusLeft(events, here) = None
    BY DEF StatusLeft
  <2>3. QED
    BY <1>1, <1>2, <2>1, <2>2, RowStep
<1>4. middle \in [Entries -> Row] /\ middle[e] = row /\ [middle EXCEPT ![e] = row] = middle
  OBVIOUS
<1>5. Shaped(in) /\ Snapshot(in) /\ Explains(in, row)
  BY <1>2 DEF Shaped, Snapshot, Explains, RowTypes, StaffTypes, TerminationTypes,
       KeepsStatus, KeepsBarber, KeepsService
<1>6. StatusLeft(Append(events, here), in) = None
  BY DEF StatusLeft
<1>7. Append(events, here) \in Seq(Event)
  OBVIOUS
<1> HIDE DEF middle
<1>8. RowInv([middle EXCEPT ![e] = row], Append(Append(events, here), in))
  BY <1>1, <1>2, <1>3, <1>4, <1>5, <1>6, <1>7, RowStep
<1>9. QED
  BY <1>4, <1>8 DEF middle

LEMMA PresentEventFields ==
  ASSUME TypeOK, NEW e \in Entries, NEW row \in Row, NEW ev, ev = PresentEvent(e, row)
  PROVE  /\ ev \in Event /\ ev.type = "queue_entry_present_toggled" /\ ev.entity = e
         /\ ev.before = row /\ ev.from.status = None /\ ev.from.present \in BOOLEAN
<1> DEFINE from == [NoReversal EXCEPT !.present = row.present]
           written == NewEvent("queue_entry_present_toggled", e, None, from)
<1>1. from \in Reversal /\ from.status = None /\ from.present \in BOOLEAN
  <2>1. row.present \in BOOLEAN
    BY DEF Row
  <2>2. /\ from.present = row.present /\ from.status = None /\ from.staff = None
        /\ from.order = None /\ from.service = None /\ from.notes = None /\ from.orders = None
    BY DEF NoReversal
  <2>3. QED
    BY <2>1, <2>2 DEF NoReversal, Reversal, Nullable
<1> HIDE DEF from
<1>2. /\ written \in Event /\ written.type = "queue_entry_present_toggled"
      /\ written.entity = e /\ written.from = from
  <2>1. from \in Reversal
    BY <1>1
  <2>2. "queue_entry_present_toggled" \in EventTypes /\ None \in Nullable(Staff)
    BY DEF EventTypes, Nullable
  <2>3. QED
    BY <2>1, <2>2, RowEventFields
<1>3. ev = [written EXCEPT !.before = row]
  BY DEF PresentEvent, from
<1> HIDE DEF written
<1>4. QED
  BY <1>1, <1>2, <1>3 DEF Event

LEMMA CheckedInEventFields ==
  ASSUME TypeOK, NEW e \in Entries, NEW row \in Row, NEW ev, ev = CheckedInEvent(e, row)
  PROVE  /\ ev \in Event /\ ev.type = "client_checked_in" /\ ev.entity = e
         /\ ev.before = row
<1> DEFINE written == NewEvent("client_checked_in", e, None, NoReversal)
<1>1. written \in Event /\ written.type = "client_checked_in" /\ written.entity = e
  BY RowEventFields, NoReversalFields DEF EventTypes, Nullable
<1>2. ev = [written EXCEPT !.before = row]
  BY DEF CheckedInEvent
<1> HIDE DEF written
<1>3. QED
  BY <1>1, <1>2 DEF Event

LEMMA TogglePresentStep ==
  ASSUME ConstantsOK, IInv, NEW e \in Entries, NEW present \in BOOLEAN, TogglePresent(e, present)
  PROVE  IInv'
<1> DEFINE row == [entry[e] EXCEPT !.present = present, !.ready = IF present THEN entry[e].ready ELSE None]
           ev == PresentEvent(e, entry[e])
<1>1. entry[e] \in Row /\ entry[e].status # "none"
  BY DEF IInv, TypeOK, TogglePresent, Existing
<1>2. /\ row \in Row /\ row.status = entry[e].status /\ row.assigned = entry[e].assigned
      /\ row.service = entry[e].service
  <2>1. row \in Row
    BY <1>1, PresentRow
  <2>2. row.status = entry[e].status /\ row.assigned = entry[e].assigned /\ row.service = entry[e].service
    BY <1>1 DEF Row
  <2>3. QED
    BY <2>1, <2>2
<1>3. /\ ev \in Event /\ ev.type = "queue_entry_present_toggled" /\ ev.entity = e
      /\ ev.before = entry[e] /\ ev.from.status = None /\ ev.from.present \in BOOLEAN
  BY <1>1, PresentEventFields DEF IInv
<1>4. StatusLeft(log, ev) = None
  BY <1>3 DEF StatusLeft
<1> HIDE DEF row, ev
<1>5. Shaped(ev) /\ Snapshot(ev) /\ Explains(ev, row) /\ Seated(row)
  BY RowFacts, <1>2, <1>3 DEF Shaped, Snapshot, Explains, Seated, RowTypes, StaffTypes,
       TerminationTypes, KeepsStatus, KeepsBarber, KeepsService
<1>6. entry' = [entry EXCEPT ![e] = row] /\ log' = Append(log, ev)
  BY DEF row, ev, TogglePresent, Record
<1>7. QED
  BY <1>1, <1>2, <1>3, <1>4, <1>5, <1>6, LoggedRow DEF TogglePresent, IInv, TypeOK

LEMMA CheckInAppointmentStep ==
  ASSUME ConstantsOK, IInv, NEW a \in Appointments, NEW e \in Entries, CheckInAppointment(a, e)
  PROVE  IInv'
<1>1. entry[e] \in Row /\ Seated(entry[e]) /\ entry[e].status # "none" /\ entry[e].present \in BOOLEAN
  BY RowFacts DEF CheckInAppointment, LiveRowsOf, Live, Row
<1>2. appt' \in [Appointments -> [status: ApptStatus, staff: Nullable(Staff), service: Services]]
  <2>1. appt' = [appt EXCEPT ![a].status = "checked_in"]
    BY DEF CheckInAppointment
  <2>2. QED
    BY <2>1 DEF IInv, TypeOK, ApptStatus
<1>3. CASE entry[e].present
  <2> DEFINE in == CheckedInEvent(e, entry[e])
  <2>1. entry' = [entry EXCEPT ![e] = entry[e]] /\ log' = Append(log, in)
    BY <1>3 DEF CheckInAppointment, Record, IInv, TypeOK
  <2>2. /\ in \in Event /\ in.type = "client_checked_in" /\ in.entity = e /\ in.before = entry[e]
    BY <1>1, CheckedInEventFields DEF IInv
  <2> HIDE DEF in
  <2>3. Shaped(in) /\ Snapshot(in) /\ Explains(in, entry[e]) /\ StatusLeft(log, in) = None
    BY <1>1, <2>2 DEF Shaped, Snapshot, Explains, RowTypes, StaffTypes, TerminationTypes,
         KeepsStatus, KeepsBarber, KeepsService, StatusLeft
  <2>4. RowInv(entry', log')
    BY <1>1, <2>1, <2>2, <2>3, RowStep DEF IInv, TypeOK
  <2>5. TypeOK'
    BY <1>1, <1>2, <2>1, <2>2 DEF CheckInAppointment, IInv, TypeOK
  <2>6. QED
    BY <2>4, <2>5 DEF IInv
<1>4. CASE ~entry[e].present
  <2> DEFINE here == PresentEvent(e, entry[e])
             row == [entry[e] EXCEPT !.present = TRUE]
             in == CheckedInEvent(e, row)
  <2>1. row \in Row
    BY <1>1 DEF Row
  <2>2. entry' = [entry EXCEPT ![e] = row] /\ entry'[e] = row
    BY <1>4 DEF CheckInAppointment, IInv, TypeOK
  <2>3. log' = Append(Append(log, here), in)
    BY <1>4, <2>2 DEF CheckInAppointment
  <2>4. /\ here \in Event /\ here.type = "queue_entry_present_toggled" /\ here.entity = e
        /\ here.before = entry[e] /\ here.from.status = None /\ here.from.present \in BOOLEAN
    BY <1>1, PresentEventFields DEF IInv
  <2> HIDE DEF row
  <2>5. in \in Event /\ in.type = "client_checked_in" /\ in.entity = e /\ in.before = row
    BY <2>1, CheckedInEventFields DEF IInv
  <2> HIDE DEF here, in
  <2>6. RowInv(entry', log')
    BY <1>1, <2>1, <2>2, <2>3, <2>4, <2>5, PresentThenCheckedIn DEF IInv, TypeOK, row
  <2>7. TypeOK'
    BY <1>2, <2>1, <2>2, <2>3, <2>4, <2>5 DEF CheckInAppointment, IInv, TypeOK
  <2>8. QED
    BY <2>6, <2>7 DEF IInv
<1>5. QED
  BY <1>3, <1>4

LEMMA CheckInEarlyStep ==
  ASSUME ConstantsOK, IInv, NEW a \in Appointments, NEW e \in Entries, CheckInEarly(a, e)
  PROVE  IInv'
<1>1. PICK place \in Positions :
        /\ entry' = [entry EXCEPT ![e] = [AppointmentRow(a, place) EXCEPT !.present = TRUE]]
        /\ log' = Append(Append(log, PresentEvent(e, AppointmentRow(a, place))),
                         CheckedInEvent(e, entry'[e]))
  BY DEF CheckInEarly
<1> DEFINE first == AppointmentRow(a, place)
           row == [first EXCEPT !.present = TRUE]
           placed == [entry EXCEPT ![e] = first]
           here == PresentEvent(e, first)
           in == CheckedInEvent(e, row)
<1>2. first \in Row /\ first.status = "waiting"
  BY AppointmentRowIsRow DEF IInv
<1>3. row \in Row
  BY <1>2 DEF Row
<1>4. entry'[e] = row
  BY <1>1 DEF IInv, TypeOK
<1> HIDE DEF first
<1>5. /\ here \in Event /\ here.type = "queue_entry_present_toggled" /\ here.entity = e
      /\ here.before = first /\ here.from.status = None /\ here.from.present \in BOOLEAN
  BY <1>2, PresentEventFields DEF IInv
<1> HIDE DEF row
<1>6. in \in Event /\ in.type = "client_checked_in" /\ in.entity = e /\ in.before = row
  BY <1>3, CheckedInEventFields DEF IInv
<1>7. RowInv(placed, log)
  BY <1>2, QuietStep DEF CheckInEarly, Existing, IInv, TypeOK
<1>8. /\ placed \in [Entries -> Row] /\ placed[e] = first /\ entry' = [placed EXCEPT ![e] = row]
      /\ log' = Append(Append(log, here), in)
  BY <1>1, <1>2, <1>4 DEF IInv, TypeOK, first, row
<1> HIDE DEF placed, here, in
<1>9. RowInv(entry', log')
  BY <1>2, <1>3, <1>5, <1>6, <1>7, <1>8, PresentThenCheckedIn DEF IInv, TypeOK, row
<1>10. appt' \in [Appointments -> [status: ApptStatus, staff: Nullable(Staff), service: Services]]
  BY DEF CheckInEarly, IInv, TypeOK, ApptStatus
<1>11. TypeOK'
  <2>1. entry' \in [Entries -> Row]
    BY <1>3, <1>8
  <2>2. log' \in Seq(Event)
    BY <1>5, <1>6, <1>8 DEF IInv, TypeOK
  <2>3. QED
    BY <1>10, <2>1, <2>2 DEF CheckInEarly, IInv, TypeOK
<1>12. QED
  BY <1>9, <1>11 DEF IInv

-----------------------------------------------------------------------------
(* Edits that record nothing, and events about no row. *)

\* A row is edited without a word in the log.
LEMMA QuietRow ==
  ASSUME ConstantsOK, IInv, NEW e \in Entries, NEW row \in Row,
         entry' = [entry EXCEPT ![e] = row], UNCHANGED <<staff, log, appt, refunds>>,
         row.status = entry[e].status, row.assigned = entry[e].assigned,
         row.service = entry[e].service
  PROVE  IInv'
<1>1. RowInv(entry', log')
  BY QuietStep DEF IInv, TypeOK
<1>2. TypeOK'
  BY DEF IInv, TypeOK
<1>3. QED
  BY <1>1, <1>2 DEF IInv

LEMMA ToggleReadyStep ==
  ASSUME ConstantsOK, IInv, NEW e \in Entries, NEW ready \in BOOLEAN, ToggleReady(e, ready)
  PROVE  IInv'
<1> DEFINE row == [entry[e] EXCEPT !.ready = ready, !.present = ready \/ entry[e].present]
<1>1. entry[e] \in Row
  BY RowFacts
<1>2. row \in Row
  BY <1>1, ReadyRow
<1>3. /\ row.status = entry[e].status /\ row.assigned = entry[e].assigned
      /\ row.service = entry[e].service
  BY <1>1 DEF Row
<1>4. entry' = [entry EXCEPT ![e] = row] /\ UNCHANGED <<staff, log, appt, refunds>>
  BY DEF ToggleReady
<1> HIDE DEF row
<1>5. QED
  BY <1>2, <1>3, <1>4, QuietRow

LEMMA UpdateServiceNotesStep ==
  ASSUME ConstantsOK, IInv, NEW e \in Entries, NEW n \in Notes, UpdateServiceNotes(e, n)
  PROVE  IInv'
<1> DEFINE row == [entry[e] EXCEPT !.notes = n]
<1>1. entry[e] \in Row
  BY RowFacts
<1>2. row \in Row /\ row.status = entry[e].status /\ row.assigned = entry[e].assigned
      /\ row.service = entry[e].service
  BY <1>1 DEF Row, Nullable
<1>3. entry' = [entry EXCEPT ![e] = row] /\ UNCHANGED <<staff, log, appt, refunds>>
  BY DEF UpdateServiceNotes
<1> HIDE DEF row
<1>4. QED
  BY <1>2, <1>3, QuietRow

LEMMA SetLateArrivalStep ==
  ASSUME ConstantsOK, IInv, NEW e \in Entries, NEW late \in BOOLEAN, SetLateArrival(e, late)
  PROVE  IInv'
<1> DEFINE row == [entry[e] EXCEPT !.late = late]
<1>1. entry[e] \in Row
  BY RowFacts
<1>2. row \in Row
  BY <1>1 DEF Row
<1>3. row.status = entry[e].status /\ row.assigned = entry[e].assigned
      /\ row.service = entry[e].service
  BY <1>1 DEF Row
<1>4. entry' = [entry EXCEPT ![e] = row] /\ UNCHANGED <<staff, log, appt, refunds>>
  BY DEF SetLateArrival
<1> HIDE DEF row
<1>5. QED
  BY <1>2, <1>3, <1>4, QuietRow

\* An event about a barber, or about the line, while no row changes what events explain.
LEMMA LoggedOther ==
  ASSUME ConstantsOK, IInv, NEW ev \in Event,
         entry' \in [Entries -> Row], log' = Append(log, ev),
         staff' \in [Staff -> StaffStatus], UNCHANGED <<appt, refunds>>,
         ev.entity \notin Entries, Shaped(ev), Snapshot(ev),
         ev.type = "undone" => ev.target \in 1 .. Len(log),
         \A e \in Entries : /\ entry'[e].status = entry[e].status
                            /\ entry'[e].assigned = entry[e].assigned
                            /\ entry'[e].service = entry[e].service
  PROVE  IInv'
<1>1. RowInv(entry', log')
  BY OtherStep DEF IInv, TypeOK
<1>2. TypeOK'
  BY DEF IInv, TypeOK
<1>3. QED
  BY <1>1, <1>2 DEF IInv

\* A function from orders rewrites no column but the order.
LEMMA Rearranged ==
  ASSUME IInv, NEW orders \in Orders,
         entry' = [e \in Entries |-> IF e \in DOMAIN orders
                                     THEN [entry[e] EXCEPT !.order = orders[e]] ELSE entry[e]]
  PROVE  /\ entry' \in [Entries -> Row]
         /\ \A e \in Entries : /\ entry'[e].status = entry[e].status
                               /\ entry'[e].assigned = entry[e].assigned
                               /\ entry'[e].service = entry[e].service
<1>1. PICK S \in SUBSET Entries : orders \in [S -> Nullable(Positions)]
  BY DEF Orders
<1>2. ASSUME NEW e \in Entries
      PROVE  /\ entry'[e] \in Row /\ entry'[e].status = entry[e].status
             /\ entry'[e].assigned = entry[e].assigned /\ entry'[e].service = entry[e].service
  <2>1. entry[e] \in Row
    BY RowFacts
  <2>2. CASE e \in S
    <3>1. entry'[e] = [entry[e] EXCEPT !.order = orders[e]] /\ orders[e] \in Nullable(Positions)
      BY <1>1, <2>2
    <3>2. QED
      BY <2>1, <3>1 DEF Row
  <2>3. CASE e \notin S
    BY <1>1, <2>1, <2>3
  <2>4. QED
    BY <2>2, <2>3
<1>3. QED
  BY <1>2

LEMMA ReorderStep ==
  ASSUME ConstantsOK, IInv, NEW pos \in DraggedLists, Reorder(pos)
  PROVE  IInv'
<1> DEFINE was == [e \in Waiting |-> entry[e].order]
           from == [NoReversal EXCEPT !.orders = was]
           ev == NewEvent("queue_entry_reordered", None, None, from)
<1>1. was \in Orders
  <2>1. Waiting \subseteq Entries /\ \A e \in Waiting : entry[e].order \in Nullable(Positions)
    BY RowFacts DEF Waiting, Row
  <2>2. QED
    BY <2>1 DEF Orders
<1> HIDE DEF was
<1>2. from \in Reversal /\ from.orders = was
  BY <1>1 DEF NoReversal, Reversal, Nullable, Orders
<1> HIDE DEF from
<1>3. /\ ev \in Event /\ ev.type = "queue_entry_reordered" /\ ev.entity = None
      /\ ev.from = from /\ ev.entity \notin Entries /\ ev.before.status = "none"
  BY <1>2, OtherEventFields DEF EventTypes
<1> HIDE DEF ev
<1>4. Shaped(ev) /\ Snapshot(ev)
  BY <1>1, <1>2, <1>3 DEF Shaped, Snapshot, Seated, RowTypes, StaffTypes, TerminationTypes, KeepsStatus
<1>5. pos \in Orders
  BY DEF ConstantsOK, DraggedLists, Orders, Nullable
<1>6. QED
  BY <1>3, <1>4, <1>5, Rearranged, LoggedOther DEF Reorder, Record, IInv, TypeOK, ev, from, was

\* An event that sets the clock of a barber and remembers what it was.
LEMMA ClockStep ==
  ASSUME ConstantsOK, IInv, NEW s \in Staff, NEW type \in StaffTypes, NEW status \in StaffStatus,
         staff' = [staff EXCEPT ![s] = status],
         log' = Append(log, NewEvent(type, s, None, [NoReversal EXCEPT !.status = staff[s]])),
         UNCHANGED <<entry, appt, refunds>>
  PROVE  IInv'
<1> DEFINE from == [NoReversal EXCEPT !.status = staff[s]]
           ev == NewEvent(type, s, None, from)
<1>1. staff[s] \in StaffStatus /\ staff' \in [Staff -> StaffStatus] /\ entry \in [Entries -> Row]
  BY DEF IInv, TypeOK
<1>2. from \in Reversal /\ from.status = staff[s]
  BY <1>1 DEF NoReversal, Reversal, Nullable
<1> HIDE DEF from
<1>3. /\ ev \in Event /\ ev.type = type /\ ev.entity = s /\ ev.from = from
      /\ ev.entity \notin Entries /\ ev.before.status = "none"
  <2>1. type \in EventTypes /\ s \in Staff \cup {None}
    BY DEF EventTypes
  <2>2. QED
    BY <1>2, <2>1, OtherEventFields
<1> HIDE DEF ev
<1>4. Shaped(ev) /\ Snapshot(ev) /\ ev.type # "undone"
  BY <1>1, <1>2, <1>3 DEF Shaped, Snapshot, Seated, RowTypes, StaffTypes, TerminationTypes, KeepsStatus
<1>5. log' = Append(log, ev)
  BY DEF ev, from
<1>6. QED
  BY <1>1, <1>3, <1>4, <1>5, LoggedOther

LEMMA ClockInStep ==
  ASSUME ConstantsOK, IInv, NEW s \in Staff, ClockIn(s)
  PROVE  IInv'
<1>1. "staff_clocked_in" \in StaffTypes /\ "available" \in StaffStatus
  BY DEF StaffTypes, StaffStatus
<1>2. QED
  BY <1>1, ClockStep DEF ClockIn, Record

LEMMA SetStaffStatusStep ==
  ASSUME ConstantsOK, IInv, NEW s \in Staff, NEW status \in {"available", "break", "off"},
         SetStaffStatus(s, status)
  PROVE  IInv'
<1>1. "staff_status_changed" \in StaffTypes /\ status \in StaffStatus
  BY DEF StaffTypes, StaffStatus
<1>2. QED
  BY <1>1, ClockStep DEF SetStaffStatus, Record

LEMMA DeactivateStep ==
  ASSUME ConstantsOK, IInv, NEW s \in Staff, Deactivate(s)
  PROVE  IInv'
  BY DEF Deactivate, IInv, TypeOK, StaffStatus

-----------------------------------------------------------------------------
(* Undo.  The event undone is the last of its row, so what it remembers of the row still *)
(* explains the row.                                                                      *)

LEMMA UndoneFacts ==
  ASSUME ConstantsOK, IInv, NEW k \in DOMAIN log, Undoable(k), log[k].type \in RowTypes
  PROVE  /\ log[k] \in Event /\ log[k].entity \in Entries
         /\ entry[log[k].entity] \in Row /\ entry[log[k].entity].status # "none"
         /\ Shaped(log[k]) /\ Snapshot(log[k]) /\ Explains(log[k], entry[log[k].entity])
         /\ Seated(entry[log[k].entity])
<1>1. log[k] \in Event
  BY DEF IInv, TypeOK
<1>2. Shaped(log[k]) /\ Snapshot(log[k])
  BY DEF IInv, RowInv
<1>3. log[k].entity \in Entries
  BY <1>2 DEF Shaped
<1>4. CASE log[k].entity # None
  <2>1. k \in Nat /\ \A j \in DOMAIN log : j \in Nat
    BY DEF IInv, TypeOK
  <2>2. LastOfItsRow(log, k)
    BY <1>4, <2>1 DEF Undoable, LaterEvent, LastOfItsRow
  <2>3. QED
    BY <1>1, <1>2, <1>3, <2>2, RowFacts DEF IInv, RowInv
<1>5. QED
  BY <1>3, <1>4 DEF ConstantsOK

\* The compensating event an undo of a row's event records.
LEMMA UndoneEventFields ==
  ASSUME ConstantsOK, IInv, NEW k \in DOMAIN log, log[k].entity \in Entries \cup Staff \cup {None},
         NEW ev, ev = UndoneEvent(k)
  PROVE  /\ ev \in Event /\ ev.type = "undone" /\ ev.entity = log[k].entity /\ ev.target = k
         /\ ev.from = NoReversal /\ Shaped(ev)
         /\ ev.entity \in Entries => ev.before = entry[log[k].entity]
         /\ ev.entity \notin Entries => ev.before.status = "none"
<1> DEFINE written == NewEvent("undone", log[k].entity, None, NoReversal)
<1>1. /\ written \in Event /\ written.type = "undone" /\ written.entity = log[k].entity
      /\ written.from = NoReversal
      /\ written.entity \in Entries => written.before = entry[log[k].entity]
      /\ written.entity \notin Entries => written.before.status = "none"
  <2>1. "undone" \in EventTypes /\ None \in Nullable(Staff)
    BY DEF EventTypes, Nullable
  <2>2. CASE log[k].entity \in Entries
    BY <2>1, <2>2, NoReversalFields, RowEventFields DEF IInv
  <2>3. CASE log[k].entity \in Staff \cup {None}
    BY <2>1, <2>3, NoReversalFields, OtherEventFields
  <2>4. QED
    BY <2>2, <2>3
<1>2. k \in Nullable(Nat)
  BY DEF IInv, TypeOK, Nullable
<1> HIDE DEF written
<1>3. ev = [written EXCEPT !.target = k]
  BY DEF written, UndoneEvent
<1>4. /\ ev \in Event /\ ev.type = "undone" /\ ev.entity = log[k].entity /\ ev.target = k
      /\ ev.from = NoReversal /\ ev.before = written.before
  BY <1>1, <1>2, <1>3 DEF Event
<1>5. Shaped(ev)
  BY <1>4 DEF Shaped, RowTypes, StaffTypes, TerminationTypes, KeepsStatus
<1>6. QED
  BY <1>1, <1>4, <1>5

\* An undo that writes a row: the status it writes is the one the log says it leaves.
LEMMA UndoneRow ==
  ASSUME ConstantsOK, IInv, NEW k \in DOMAIN log, Undoable(k), log[k].type \in RowTypes,
         NEW row \in Row, entry' = [entry EXCEPT ![log[k].entity] = row],
         log' = Append(log, UndoneEvent(k)),
         staff' \in [Staff -> StaffStatus], UNCHANGED appt, refunds' \in Seq(Nat),
         Seated(row), row.status # "none",
         log[k].type = "client_checked_in" => row.status = "cancelled",
         log[k].type # "client_checked_in" =>
           IF log[k].from.status = None THEN row.status = entry[log[k].entity].status
           ELSE row.status = log[k].from.status
  PROVE  IInv'
<1> DEFINE ev == UndoneEvent(k)
<1>1. log[k].entity \in Entries /\ Seated(entry[log[k].entity])
  BY UndoneFacts
<1>2. /\ ev \in Event /\ ev.type = "undone" /\ ev.entity = log[k].entity /\ ev.target = k
      /\ Shaped(ev) /\ ev.before = entry[log[k].entity]
  BY <1>1, UndoneEventFields
<1> HIDE DEF ev
<1>3. Snapshot(ev) /\ Explains(ev, row)
  BY <1>1, <1>2 DEF Snapshot, Explains, TerminationTypes, KeepsStatus, KeepsBarber, KeepsService
<1>4. StatusLeft(log, ev) = IF log[k].type = "client_checked_in" THEN "cancelled"
                            ELSE log[k].from.status
  BY <1>2 DEF StatusLeft
<1>5. None # "cancelled"
  BY DEF ConstantsOK, RowStatus
<1>6. ev.target \in 1 .. Len(log) /\ log' = Append(log, ev)
  BY <1>2 DEF ev, IInv, TypeOK
<1>7. /\ StatusLeft(log, ev) # None => row.status = StatusLeft(log, ev)
      /\ StatusLeft(log, ev) = None => row.status = entry[log[k].entity].status
  BY <1>4, <1>5
<1>8. QED
  BY <1>1, <1>2, <1>3, <1>6, <1>7, LoggedRow

LEMMA UndoCheckInStep ==
  ASSUME ConstantsOK, IInv, NEW k \in DOMAIN log, UndoCheckIn(k)
  PROVE  IInv'
<1> DEFINE row == [entry[log[k].entity] EXCEPT !.status = "cancelled"]
<1>1. Undoable(k) /\ log[k].type = "client_checked_in" /\ log[k].type \in RowTypes
  BY DEF UndoCheckIn, Compensate, RowTypes
<1>2. entry[log[k].entity] \in Row
  BY <1>1, UndoneFacts
<1>3. row \in Row /\ row.status = "cancelled"
  BY <1>2 DEF Row, RowStatus
<1>4. entry' = [entry EXCEPT ![log[k].entity] = row]
  BY DEF UndoCheckIn
<1> HIDE DEF row
<1>5. QED
  BY <1>1, <1>3, <1>4, UndoneRow DEF UndoCheckIn, Compensate, Record, Seated, IInv, TypeOK

LEMMA UndoStartStep ==
  ASSUME ConstantsOK, IInv, NEW k \in DOMAIN log, UndoStart(k)
  PROVE  IInv'
<1> DEFINE row == [entry[log[k].entity] EXCEPT
                    !.status = log[k].from.status, !.assigned = log[k].from.staff,
                    !.notes = log[k].from.notes, !.service = log[k].from.service]
<1>1. Undoable(k) /\ log[k].type = "service_started" /\ log[k].type \in RowTypes
  BY DEF UndoStart, Compensate, RowTypes
<1>2. entry[log[k].entity] \in Row /\ log[k].from \in Reversal /\ log[k].from.status = "waiting"
  BY <1>1, UndoneFacts DEF Shaped, Event
<1>3. row \in Row /\ row.status = "waiting"
  BY <1>2 DEF Row, Reversal, RowStatus
<1>4. entry' = [entry EXCEPT ![log[k].entity] = row]
  BY DEF UndoStart
<1>5. staff' \in [Staff -> StaffStatus] /\ None # "waiting"
  BY ClockTypes DEF UndoStart, IInv, TypeOK, ConstantsOK, RowStatus
<1> HIDE DEF row
<1>6. QED
  BY <1>1, <1>2, <1>3, <1>4, <1>5, UndoneRow DEF UndoStart, Compensate, Record, Seated, IInv, TypeOK

LEMMA UndoCompleteStep ==
  ASSUME ConstantsOK, IInv, NEW k \in DOMAIN log, UndoComplete(k)
  PROVE  IInv'
<1> DEFINE row == [entry[log[k].entity] EXCEPT !.status = log[k].from.status]
<1>1. Undoable(k) /\ log[k].type = "service_completed" /\ log[k].type \in RowTypes
  BY DEF UndoComplete, Compensate, RowTypes
<1>2. /\ entry[log[k].entity] \in Row /\ log[k].from.status = "in_service"
      /\ entry[log[k].entity].assigned \in Staff
  BY <1>1, UndoneFacts DEF Shaped, Snapshot, Explains, Seated, KeepsBarber
<1>3. row \in Row /\ row.status = "in_service" /\ row.assigned \in Staff
  BY <1>2 DEF Row, RowStatus
<1>4. entry' = [entry EXCEPT ![log[k].entity] = row]
  BY DEF UndoComplete
<1>5. staff' \in [Staff -> StaffStatus] /\ None # "in_service" /\ refunds' \in Seq(Nat)
  <2>1. staff' \in [Staff -> StaffStatus] /\ None # "in_service"
    BY ClockTypes DEF UndoComplete, IInv, TypeOK, ConstantsOK, RowStatus
  <2>2. refunds \in Seq(Nat) /\ k \in Nat /\ refunds' = Append(refunds, k)
    BY DEF UndoComplete, IInv, TypeOK
  <2>3. QED
    BY <2>1, <2>2
<1> HIDE DEF row
<1>6. QED
  BY <1>1, <1>2, <1>3, <1>4, <1>5, UndoneRow DEF UndoComplete, Compensate, Record, Seated

LEMMA UndoTerminationStep ==
  ASSUME ConstantsOK, IInv, NEW k \in DOMAIN log, UndoTermination(k)
  PROVE  IInv'
<1> DEFINE row == [entry[log[k].entity] EXCEPT
                    !.status = log[k].from.status, !.abandoned = FALSE,
                    !.order = log[k].from.order, !.assigned = log[k].from.staff]
<1>1. Undoable(k) /\ log[k].type \in TerminationTypes /\ log[k].type \in RowTypes
  BY DEF UndoTermination, Compensate, RowTypes
<1>2. /\ entry[log[k].entity] \in Row /\ log[k].from \in Reversal
      /\ log[k].from.status \in {"waiting", "in_service"}
      /\ log[k].from.status = "in_service" => log[k].from.staff \in Staff
  BY <1>1, UndoneFacts DEF Shaped, Snapshot, Seated, Event
<1>3. row \in Row /\ row.status = log[k].from.status /\ row.assigned = log[k].from.staff
  BY <1>2 DEF Row, Reversal, RowStatus
<1>4. entry' = [entry EXCEPT ![log[k].entity] = row]
  BY DEF UndoTermination
<1>5. /\ staff' \in [Staff -> StaffStatus]
      /\ None \notin {"waiting", "in_service"} /\ log[k].type # "client_checked_in"
  BY <1>1, ClockTypes DEF UndoTermination, IInv, TypeOK, ConstantsOK, RowStatus, TerminationTypes
<1> HIDE DEF row
<1>6. QED
  BY <1>1, <1>2, <1>3, <1>4, <1>5, UndoneRow DEF UndoTermination, Compensate, Record, Seated,
       IInv, TypeOK

LEMMA UndoReassignStep ==
  ASSUME ConstantsOK, IInv, NEW k \in DOMAIN log, UndoReassign(k)
  PROVE  IInv'
<1> DEFINE row == [entry[log[k].entity] EXCEPT !.assigned = log[k].from.staff]
<1>1. Undoable(k) /\ log[k].type = "queue_entry_reassigned" /\ log[k].type \in RowTypes
  BY DEF UndoReassign, Compensate, RowTypes
<1>2. /\ entry[log[k].entity] \in Row /\ log[k].from \in Reversal /\ log[k].from.status = None
      /\ entry[log[k].entity].status # "none"
      /\ entry[log[k].entity].status = "in_service" => log[k].from.staff \in Staff
  BY <1>1, UndoneFacts DEF Shaped, Snapshot, Explains, Seated, Event, KeepsStatus
<1>3. /\ row \in Row /\ row.status = entry[log[k].entity].status
      /\ row.assigned = log[k].from.staff
  BY <1>2 DEF Row, Reversal
<1>4. entry' = [entry EXCEPT ![log[k].entity] = row]
  BY DEF UndoReassign
<1>5. staff' \in [Staff -> StaffStatus]
  BY ClockTypes DEF UndoReassign, IInv, TypeOK
<1> HIDE DEF row
<1>6. QED
  BY <1>1, <1>2, <1>3, <1>4, <1>5, UndoneRow DEF UndoReassign, Compensate, Record, Seated,
       IInv, TypeOK

LEMMA UndoServiceChangeStep ==
  ASSUME ConstantsOK, IInv, NEW k \in DOMAIN log, UndoServiceChange(k)
  PROVE  IInv'
<1> DEFINE row == [entry[log[k].entity] EXCEPT !.service = log[k].from.service]
<1>1. Undoable(k) /\ log[k].type = "queue_entry_service_changed" /\ log[k].type \in RowTypes
  BY DEF UndoServiceChange, Compensate, RowTypes
<1>2. /\ entry[log[k].entity] \in Row /\ log[k].from \in Reversal /\ log[k].from.status = None
      /\ entry[log[k].entity].status # "none" /\ Seated(entry[log[k].entity])
  BY <1>1, UndoneFacts DEF Shaped, Event, KeepsStatus
<1>3. /\ row \in Row /\ row.status = entry[log[k].entity].status
      /\ row.assigned = entry[log[k].entity].assigned
  BY <1>2 DEF Row, Reversal
<1>4. entry' = [entry EXCEPT ![log[k].entity] = row]
  BY DEF UndoServiceChange
<1> HIDE DEF row
<1>5. QED
  BY <1>1, <1>2, <1>3, <1>4, UndoneRow DEF UndoServiceChange, Compensate, Record, Seated,
       IInv, TypeOK

LEMMA UndoPresentStep ==
  ASSUME ConstantsOK, IInv, NEW k \in DOMAIN log, UndoPresent(k)
  PROVE  IInv'
<1> DEFINE row == [entry[log[k].entity] EXCEPT !.present = log[k].from.present]
<1>1. Undoable(k) /\ log[k].type = "queue_entry_present_toggled" /\ log[k].type \in RowTypes
  BY DEF UndoPresent, Compensate, RowTypes
<1>2. /\ entry[log[k].entity] \in Row /\ log[k].from.status = None
      /\ entry[log[k].entity].status # "none" /\ Seated(entry[log[k].entity])
  BY <1>1, UndoneFacts DEF Shaped, KeepsStatus
<1>3. log[k].from.present \in BOOLEAN
  BY <1>1, UndoneFacts DEF Shaped
<1>4. row \in Row
  BY <1>2, <1>3 DEF Row
<1>5. /\ row.status = entry[log[k].entity].status
      /\ row.assigned = entry[log[k].entity].assigned
  BY <1>2 DEF Row
<1>6. entry' = [entry EXCEPT ![log[k].entity] = row]
  BY DEF UndoPresent
<1> HIDE DEF row
<1>7. QED
  BY <1>1, <1>2, <1>4, <1>5, <1>6, UndoneRow DEF UndoPresent, Compensate, Record, Seated,
       IInv, TypeOK

LEMMA UndoReturnStep ==
  ASSUME ConstantsOK, IInv, NEW k \in DOMAIN log, UndoReturn(k)
  PROVE  IInv'
<1> DEFINE row == [entry[log[k].entity] EXCEPT
                    !.status = log[k].from.status, !.assigned = log[k].from.staff,
                    !.order = log[k].from.order]
<1>1. Undoable(k) /\ log[k].type = "queue_entry_returned_to_waiting" /\ log[k].type \in RowTypes
  BY DEF UndoReturn, Compensate, RowTypes
<1>2. /\ entry[log[k].entity] \in Row /\ log[k].from \in Reversal
      /\ log[k].from.status \in RowStatus
      /\ log[k].from.status = "in_service" => log[k].from.staff \in Staff
  BY <1>1, UndoneFacts DEF Shaped, Snapshot, Seated, Event
<1>3. row \in Row /\ row.status = log[k].from.status /\ row.assigned = log[k].from.staff
  BY <1>2 DEF Row, Reversal
<1>4. entry' = [entry EXCEPT ![log[k].entity] = row]
  BY DEF UndoReturn
<1>5. log[k].from.status # None /\ log[k].from.status # "none"
  BY <1>2 DEF ConstantsOK, RowStatus
<1> HIDE DEF row
<1>6. QED
  BY <1>1, <1>2, <1>3, <1>4, <1>5, UndoneRow DEF UndoReturn, Compensate, Record, Seated,
       IInv, TypeOK

\* An undo of an event about no row.
LEMMA UndoneOther ==
  ASSUME ConstantsOK, IInv, NEW k \in DOMAIN log, log[k].entity \in Staff \cup {None},
         log' = Append(log, UndoneEvent(k)),
         staff' \in [Staff -> StaffStatus], UNCHANGED <<appt, refunds>>,
         entry' \in [Entries -> Row],
         \A e \in Entries : /\ entry'[e].status = entry[e].status
                            /\ entry'[e].assigned = entry[e].assigned
                            /\ entry'[e].service = entry[e].service
  PROVE  IInv'
<1> DEFINE ev == UndoneEvent(k)
<1>1. log[k].entity \notin Entries
  BY DEF ConstantsOK
<1>2. /\ ev \in Event /\ ev.type = "undone" /\ ev.entity = log[k].entity /\ ev.target = k
      /\ Shaped(ev) /\ ev.before.status = "none"
  BY <1>1, UndoneEventFields
<1> HIDE DEF ev
<1>3. Snapshot(ev)
  BY <1>2 DEF Snapshot, Seated, TerminationTypes
<1>4. ev.target \in 1 .. Len(log) /\ log' = Append(log, ev)
  BY <1>2 DEF ev, IInv, TypeOK
<1>5. QED
  BY <1>1, <1>2, <1>3, <1>4, LoggedOther

LEMMA UndoReorderStep ==
  ASSUME ConstantsOK, IInv, NEW k \in DOMAIN log, UndoReorder(k)
  PROVE  IInv'
<1>1. log[k].type = "queue_entry_reordered" /\ Shaped(log[k])
  BY DEF UndoReorder, Compensate, IInv, RowInv
<1>2. log[k].entity = None /\ log[k].from.orders \in Orders
  BY <1>1 DEF Shaped
<1>3. QED
  BY <1>2, Rearranged, UndoneOther DEF UndoReorder, Compensate, Record, IInv, TypeOK

LEMMA UndoStaffStatusStep ==
  ASSUME ConstantsOK, IInv, NEW k \in DOMAIN log, UndoStaffStatus(k)
  PROVE  IInv'
<1>1. log[k].type \in StaffTypes /\ Shaped(log[k])
  BY DEF UndoStaffStatus, Compensate, IInv, RowInv
<1>2. log[k].entity \in Staff /\ log[k].from.status \in StaffStatus
  BY <1>1 DEF Shaped
<1>3. staff' \in [Staff -> StaffStatus]
  BY <1>2 DEF UndoStaffStatus, IInv, TypeOK
<1>4. QED
  BY <1>2, <1>3, UndoneOther DEF UndoStaffStatus, Compensate, Record, IInv, TypeOK

-----------------------------------------------------------------------------
(* The invariant is inductive. *)

LEMMA InitInv ==
  ASSUME ConstantsOK, Init
  PROVE  IInv
<1>1. entry \in [Entries -> Row] /\ \A e \in Entries : entry[e].status = "none"
  BY AbsentRowIsRow DEF Init, AbsentRow
<1>2. TypeOK
  BY <1>1 DEF Init, TypeOK, StaffStatus, ApptStatus
<1>3. RowInv(entry, log)
  BY <1>1 DEF Init, RowInv, Seated
<1>4. QED
  BY <1>2, <1>3 DEF IInv

LEMMA ArriveInv ==
  ASSUME ConstantsOK, IInv, Arrive
  PROVE  IInv'
<1>1. CASE \E e \in Entries, form \in Forms : CheckIn(e, form)
  BY <1>1, CheckInStep
<1>2. CASE \E a \in Appointments, e \in Entries : Materialize(a, e)
  BY <1>2, MaterializeStep
<1>3. CASE \E a \in Appointments, e \in Entries : CheckInAppointment(a, e)
  BY <1>3, CheckInAppointmentStep
<1>4. CASE \E a \in Appointments, e \in Entries : CheckInEarly(a, e)
  BY <1>4, CheckInEarlyStep
<1>5. QED
  BY <1>1, <1>2, <1>3, <1>4 DEF Arrive

LEMMA EndedUnservedInv ==
  ASSUME ConstantsOK, IInv, NEW e \in Entries, NoShow(e) \/ Cancel(e) \/ PublicCancel(e) \/ Abandon(e)
  PROVE  IInv'
<1>1. CASE NoShow(e)
  BY <1>1, TerminateStep DEF NoShow, TerminationTypes
<1>2. CASE Cancel(e)
  BY <1>2, TerminateStep DEF Cancel, TerminationTypes
<1>3. CASE PublicCancel(e)
  BY <1>3, TerminateStep DEF PublicCancel, TerminationTypes
<1>4. CASE Abandon(e)
  BY <1>4, TerminateStep DEF Abandon, TerminationTypes
<1>5. QED
  BY <1>1, <1>2, <1>3, <1>4

LEMMA ServeInv ==
  ASSUME ConstantsOK, IInv, Serve
  PROVE  IInv'
<1>1. CASE \E e \in Entries, s \in Staff, svc \in Services, n \in Notes : Start(e, s, svc, n)
  BY <1>1, StartStep
<1>2. CASE \E e \in Entries, svc \in Services : Complete(e, svc)
  BY <1>2, CompleteStep
<1>3. CASE \E e \in Entries, svc \in Services : ChangeService(e, svc)
  BY <1>3, ChangeServiceStep
<1>4. CASE \E e \in Entries : NoShow(e) \/ Cancel(e) \/ PublicCancel(e) \/ Abandon(e)
  BY <1>4, EndedUnservedInv
<1>5. CASE \E e \in Entries, s \in Staff : Reassign(e, s)
  BY <1>5, ReassignStep
<1>6. CASE \E e \in Entries, position \in {"top", "original"} : ReturnToWaiting(e, position)
  BY <1>6, ReturnToWaitingStep
<1>7. QED
  BY <1>1, <1>2, <1>3, <1>4, <1>5, <1>6 DEF Serve

LEMMA ArrangeInv ==
  ASSUME ConstantsOK, IInv, Arrange
  PROVE  IInv'
<1>1. FlagRows \subseteq Entries
  BY DEF ConstantsOK
<1>2. CASE \E pos \in DraggedLists : Reorder(pos)
  BY <1>2, ReorderStep
<1>3. CASE \E e \in FlagRows, flag \in BOOLEAN : TogglePresent(e, flag)
  BY <1>1, <1>3, TogglePresentStep
<1>4. CASE \E e \in FlagRows, flag \in BOOLEAN : ToggleReady(e, flag)
  BY <1>1, <1>4, ToggleReadyStep
<1>5. CASE \E e \in FlagRows, flag \in BOOLEAN : SetLateArrival(e, flag)
  BY <1>1, <1>5, SetLateArrivalStep
<1>6. CASE \E e \in FlagRows, n \in Notes : UpdateServiceNotes(e, n)
  BY <1>1, <1>6, UpdateServiceNotesStep
<1>7. QED
  BY <1>2, <1>3, <1>4, <1>5, <1>6 DEF Arrange

LEMMA ClockInv ==
  ASSUME ConstantsOK, IInv, Clock
  PROVE  IInv'
<1>1. ClockStaff \subseteq Staff
  BY DEF ConstantsOK
<1>2. CASE \E s \in Staff : Deactivate(s)
  BY <1>2, DeactivateStep
<1>3. CASE \E s \in ClockStaff : ClockIn(s)
  BY <1>1, <1>3, ClockInStep
<1>4. CASE \E s \in ClockStaff, status \in {"available", "break", "off"} : SetStaffStatus(s, status)
  BY <1>1, <1>4, SetStaffStatusStep
<1>5. QED
  BY <1>2, <1>3, <1>4 DEF Clock

LEMMA UndoInv ==
  ASSUME ConstantsOK, IInv, Undo
  PROVE  IInv'
<1> PICK k \in DOMAIN log :
      \/ UndoCheckIn(k) \/ UndoStart(k) \/ UndoComplete(k) \/ UndoTermination(k)
      \/ UndoReassign(k) \/ UndoServiceChange(k) \/ UndoReorder(k) \/ UndoPresent(k)
      \/ UndoReturn(k) \/ UndoStaffStatus(k)
  BY DEF Undo
<1> QED
  BY UndoCheckInStep, UndoStartStep, UndoCompleteStep, UndoTerminationStep, UndoReassignStep,
     UndoServiceChangeStep, UndoReorderStep, UndoPresentStep, UndoReturnStep, UndoStaffStatusStep

LEMMA NextInv ==
  ASSUME ConstantsOK, IInv, [Next]_vars
  PROVE  IInv'
<1>1. CASE UNCHANGED vars
  <2>1. entry' = entry /\ staff' = staff /\ log' = log /\ appt' = appt /\ refunds' = refunds
    BY <1>1 DEF vars
  <2>2. TypeOK'
    BY <2>1 DEF IInv, TypeOK
  <2>3. RowInv(entry', log')
    BY <2>1 DEF IInv
  <2>4. QED
    BY <2>2, <2>3 DEF IInv
<1>2. QED
  BY <1>1, ArriveInv, ServeInv, ArrangeInv, ClockInv, UndoInv DEF Next

\* The invariant of the rows and the log holds in every state of every run.
THEOREM Inductive == Spec => []IInv
<1>1. Init => IInv
  BY InitInv, ConstantsOK
<1>2. IInv /\ [Next]_vars => IInv'
  BY NextInv, ConstantsOK
<1>3. QED
  BY <1>1, <1>2, PTL DEF Spec

\* Every column holds a value of its domain and every event is well formed, whatever
\* payload an undo writes back.
THEOREM TypeCorrect == Spec => []TypeOK
<1>1. IInv => TypeOK
  BY DEF IInv
<1>2. QED
  BY <1>1, Inductive, PTL

\* A client in a chair has a barber, for any number of rows, barbers and events.
THEOREM ServingCorrect == Spec => []ServingHasBarber
<1>1. IInv => ServingHasBarber
  BY DEF IInv, RowInv, Seated, ServingHasBarber
<1>2. QED
  BY <1>1, Inductive, PTL

\* The status column of every row is what folding the activity log gives.
THEOREM StatusCorrect == Spec => []StatusMatchesLog
<1>1. IInv => StatusMatchesLog
  BY DEF IInv, RowInv, StatusMatchesLog, Existing
<1>2. QED
  BY <1>1, Inductive, PTL

-----------------------------------------------------------------------------
(* What an undo gives back. *)

LEMMA LastRecorded ==
  ASSUME TypeOK, NEW ev, log' = Append(log, ev)
  PROVE  Len(log') = Len(log) + 1 /\ LastEvent = ev
  BY DEF TypeOK, LastEvent

\* Only the handler of undo records a compensating event.
LEMMA OnlyUndoUndoes ==
  ASSUME TypeOK, Arrive \/ Serve \/ Arrange \/ Clock, NEW k, UndoStep(k)
  PROVE  FALSE
<1>1. Len(log) \in Nat /\ Len(log') = Len(log) + 1 /\ LastEvent.type = "undone"
  BY DEF UndoStep, TypeOK
<1>2. ASSUME NEW type, NEW entity, NEW s, NEW from, type # "undone",
             log' = Append(log, NewEvent(type, entity, s, from))
      PROVE  FALSE
  BY <1>1, <1>2, LastRecorded DEF NewEvent
<1>3. ASSUME NEW e \in Entries, NEW row, log' = Append(log, PresentEvent(e, row))
      PROVE  FALSE
  BY <1>1, <1>3, LastRecorded DEF NewEvent, PresentEvent
<1>4. ASSUME NEW e \in Entries, NEW row, log' = Append(log, CheckedInEvent(e, row))
      PROVE  FALSE
  BY <1>1, <1>4, LastRecorded DEF NewEvent, CheckedInEvent
<1>5. ASSUME NEW ev, NEW in, log' = Append(Append(log, ev), in)
      PROVE  FALSE
  BY <1>1, <1>5 DEF TypeOK
<1>6. log' # log
  BY <1>1
<1>7. ~Arrive
  BY <1>2, <1>4, <1>5, <1>6 DEF Arrive, CheckIn, Materialize, CheckInAppointment, CheckInEarly, Record
<1>8. ~Serve
  <2>1. ASSUME NEW e, NEW status, NEW type \in TerminationTypes, NEW allowed, NEW abandoned,
               Terminate(e, status, type, allowed, abandoned)
        PROVE  FALSE
    <3>1. type # "undone"
      BY DEF TerminationTypes
    <3>2. QED
      BY <1>2, <2>1, <3>1 DEF Terminate, Record
  <2>2. ASSUME NEW e, NoShow(e) \/ Cancel(e) \/ PublicCancel(e) \/ Abandon(e)
        PROVE  FALSE
    BY <2>1, <2>2 DEF NoShow, Cancel, PublicCancel, Abandon, TerminationTypes
  <2>3. ASSUME NEW e, NEW s, NEW svc, NEW n, Start(e, s, svc, n)
        PROVE  FALSE
    BY <1>2, <2>3 DEF Start, Record
  <2>4. ASSUME NEW e, NEW svc, Complete(e, svc) \/ ChangeService(e, svc)
        PROVE  FALSE
    BY <1>2, <2>4 DEF Complete, ChangeService, Record
  <2>5. ASSUME NEW e, NEW s, Reassign(e, s)
        PROVE  FALSE
    BY <1>2, <2>5 DEF Reassign, Record
  <2>6. ASSUME NEW e, NEW position, ReturnToWaiting(e, position)
        PROVE  FALSE
    BY <1>2, <2>6 DEF ReturnToWaiting, Record
  <2>7. QED
    BY <2>2, <2>3, <2>4, <2>5, <2>6 DEF Serve
<1>9. ~Arrange
  <2>1. ASSUME NEW pos, Reorder(pos)
        PROVE  FALSE
    BY <1>2, <2>1 DEF Reorder, Record
  <2>2. ASSUME NEW e \in Entries, NEW present, TogglePresent(e, present)
        PROVE  FALSE
    BY <1>3, <2>2 DEF TogglePresent, Record
  <2>3. ASSUME NEW e, NEW x, ToggleReady(e, x) \/ SetLateArrival(e, x) \/ UpdateServiceNotes(e, x)
        PROVE  FALSE
    BY <1>6, <2>3 DEF ToggleReady, SetLateArrival, UpdateServiceNotes
  <2>4. FlagRows \subseteq Entries
    BY ConstantsOK DEF ConstantsOK
  <2>5. QED
    BY <2>1, <2>2, <2>3, <2>4 DEF Arrange
<1>10. ~Clock
  BY <1>2, <1>6 DEF Clock, Deactivate, ClockIn, SetStaffStatus, Record
<1>11. QED
  BY <1>7, <1>8, <1>9, <1>10

\* The undo of event k records k as its target.
LEMMA UndoesItsTarget ==
  ASSUME ConstantsOK, IInv, NEW k \in DOMAIN log, NEW j \in DOMAIN log, NEW types \in SUBSET EventTypes,
         Compensate(j, types), UndoStep(k)
  PROVE  j = k
<1>1. log' = Append(log, UndoneEvent(j))
  BY DEF Compensate, Record
<1>2. LastEvent = UndoneEvent(j)
  BY <1>1, LastRecorded DEF IInv
<1>3. UndoneEvent(j).target = j
  BY DEF UndoneEvent, NewEvent
<1>4. QED
  BY <1>2, <1>3 DEF UndoStep

\* After the undo of event k its row has the status, the barber and, unless a checkout
\* replaced it, the service it had when the event was written.
LEMMA UndoneRowRestored ==
  ASSUME ConstantsOK, IInv, NEW k \in DOMAIN log,
         \/ UndoStart(k) \/ UndoComplete(k) \/ UndoTermination(k) \/ UndoReassign(k)
         \/ UndoServiceChange(k) \/ UndoPresent(k) \/ UndoReturn(k)
  PROVE  RestoresRow(k)
<1> DEFINE e == log[k].entity
<1>1. log[k].type \in RowTypes /\ Undoable(k)
  BY DEF UndoStart, UndoComplete, UndoTermination, UndoReassign, UndoServiceChange, UndoPresent,
       UndoReturn, Compensate, RowTypes
<1>2. e \in Entries /\ entry[e] \in Row /\ Shaped(log[k]) /\ Snapshot(log[k]) /\ Explains(log[k], entry[e])
  BY <1>1, UndoneFacts
<1>3. ASSUME NEW row, entry' = [entry EXCEPT ![e] = row]
      PROVE  entry'[e] = row
  BY <1>2, <1>3 DEF IInv, TypeOK
<1>4. entry[e] \in Row
  BY <1>2
<1> HIDE DEF e
<1>5. CASE UndoStart(k)
  <2> DEFINE row == [entry[e] EXCEPT
              !.status = log[k].from.status, !.assigned = log[k].from.staff,
              !.notes = log[k].from.notes, !.service = log[k].from.service]
  <2>1. log[k].type = "service_started" /\ entry' = [entry EXCEPT ![e] = row]
    BY <1>5 DEF UndoStart, Compensate, e
  <2>2. /\ row.status = log[k].from.status /\ row.assigned = log[k].from.staff
        /\ row.service = log[k].from.service
    BY <1>4 DEF Row
  <2> HIDE DEF row
  <2>3. entry'[e] = row
    BY <1>3, <2>1
  <2>4. QED
    BY <1>2, <2>1, <2>2, <2>3 DEF RestoresRow, Snapshot, e
<1>6. CASE UndoComplete(k)
  <2> DEFINE row == [entry[e] EXCEPT !.status = log[k].from.status]
  <2>1. log[k].type = "service_completed" /\ entry' = [entry EXCEPT ![e] = row]
    BY <1>6 DEF UndoComplete, Compensate, e
  <2>2. row.status = log[k].from.status /\ row.assigned = entry[e].assigned
    BY <1>4 DEF Row
  <2> HIDE DEF row
  <2>3. entry'[e] = row
    BY <1>3, <2>1
  <2>4. QED
    BY <1>2, <2>1, <2>2, <2>3 DEF RestoresRow, Shaped, Snapshot, Explains, KeepsBarber, e
<1>7. CASE UndoTermination(k)
  <2> DEFINE row == [entry[e] EXCEPT
              !.status = log[k].from.status, !.abandoned = FALSE,
              !.order = log[k].from.order, !.assigned = log[k].from.staff]
  <2>1. log[k].type \in TerminationTypes /\ entry' = [entry EXCEPT ![e] = row]
    BY <1>7 DEF UndoTermination, Compensate, e
  <2>2. /\ row.status = log[k].from.status /\ row.assigned = log[k].from.staff
        /\ row.service = entry[e].service
    BY <1>4 DEF Row
  <2> HIDE DEF row
  <2>3. entry'[e] = row
    BY <1>3, <2>1
  <2>4. QED
    BY <1>2, <2>1, <2>2, <2>3 DEF RestoresRow, Snapshot, Explains, KeepsService, e
<1>8. CASE UndoReassign(k)
  <2> DEFINE row == [entry[e] EXCEPT !.assigned = log[k].from.staff]
  <2>1. log[k].type = "queue_entry_reassigned" /\ entry' = [entry EXCEPT ![e] = row]
    BY <1>8 DEF UndoReassign, Compensate, e
  <2>2. /\ row.status = entry[e].status /\ row.assigned = log[k].from.staff
        /\ row.service = entry[e].service
    BY <1>4 DEF Row
  <2> HIDE DEF row
  <2>3. entry'[e] = row
    BY <1>3, <2>1
  <2>4. QED
    BY <1>2, <2>1, <2>2, <2>3 DEF RestoresRow, Snapshot, Explains, KeepsStatus, KeepsService, e
<1>9. CASE UndoServiceChange(k)
  <2> DEFINE row == [entry[e] EXCEPT !.service = log[k].from.service]
  <2>1. log[k].type = "queue_entry_service_changed" /\ entry' = [entry EXCEPT ![e] = row]
    BY <1>9 DEF UndoServiceChange, Compensate, e
  <2>2. /\ row.status = entry[e].status /\ row.assigned = entry[e].assigned
        /\ row.service = log[k].from.service
    BY <1>4 DEF Row
  <2> HIDE DEF row
  <2>3. entry'[e] = row
    BY <1>3, <2>1
  <2>4. QED
    BY <1>2, <2>1, <2>2, <2>3 DEF RestoresRow, Snapshot, Explains, KeepsStatus, KeepsBarber, e
<1>10. CASE UndoPresent(k)
  <2> DEFINE row == [entry[e] EXCEPT !.present = log[k].from.present]
  <2>1. log[k].type = "queue_entry_present_toggled" /\ entry' = [entry EXCEPT ![e] = row]
    BY <1>10 DEF UndoPresent, Compensate, e
  <2>2. /\ row.status = entry[e].status /\ row.assigned = entry[e].assigned
        /\ row.service = entry[e].service
    BY <1>4 DEF Row
  <2> HIDE DEF row
  <2>3. entry'[e] = row
    BY <1>3, <2>1
  <2>4. QED
    BY <1>2, <2>1, <2>2, <2>3 DEF RestoresRow, Explains, KeepsStatus, KeepsBarber, KeepsService, e
<1>11. CASE UndoReturn(k)
  <2> DEFINE row == [entry[e] EXCEPT
              !.status = log[k].from.status, !.assigned = log[k].from.staff,
              !.order = log[k].from.order]
  <2>1. log[k].type = "queue_entry_returned_to_waiting" /\ entry' = [entry EXCEPT ![e] = row]
    BY <1>11 DEF UndoReturn, Compensate, e
  <2>2. /\ row.status = log[k].from.status /\ row.assigned = log[k].from.staff
        /\ row.service = entry[e].service
    BY <1>4 DEF Row
  <2> HIDE DEF row
  <2>3. entry'[e] = row
    BY <1>3, <2>1
  <2>4. QED
    BY <1>2, <2>1, <2>2, <2>3 DEF RestoresRow, Snapshot, Explains, KeepsService, e
<1>12. QED
  BY <1>5, <1>6, <1>7, <1>8, <1>9, <1>10, <1>11

\* One step of the system: if it undoes event k, it restores the row of k.
LEMMA UndoStepRestores ==
  ASSUME ConstantsOK, IInv, [Next]_vars, NEW k \in DOMAIN log, UndoStep(k),
         log[k].entity \in Entries, log[k].type # "client_checked_in"
  PROVE  RestoresRow(k)
<1>1. log' # log
  BY DEF UndoStep, IInv, TypeOK
<1>2. Undo
  BY <1>1, OnlyUndoUndoes DEF Next, vars, IInv
<1>3. PICK j \in DOMAIN log :
        \/ UndoCheckIn(j) \/ UndoStart(j) \/ UndoComplete(j) \/ UndoTermination(j)
        \/ UndoReassign(j) \/ UndoServiceChange(j) \/ UndoReorder(j) \/ UndoPresent(j)
        \/ UndoReturn(j) \/ UndoStaffStatus(j)
  BY <1>2 DEF Undo
<1>4. \E types \in SUBSET EventTypes : Compensate(j, types)
  <2>1. \A types : types = {"client_checked_in"} \/ types = {"service_started"}
                     \/ types = {"service_completed"} \/ types = TerminationTypes
                     \/ types = {"queue_entry_reassigned"} \/ types = {"queue_entry_service_changed"}
                     \/ types = {"queue_entry_reordered"} \/ types = {"queue_entry_present_toggled"}
                     \/ types = {"queue_entry_returned_to_waiting"} \/ types = StaffTypes
                   => types \in SUBSET EventTypes
    BY DEF EventTypes
  <2>2. QED
    BY <1>3, <2>1 DEF UndoCheckIn, UndoStart, UndoComplete, UndoTermination, UndoReassign,
         UndoServiceChange, UndoReorder, UndoPresent, UndoReturn, UndoStaffStatus
<1>5. j = k
  BY <1>4, UndoesItsTarget
<1>6. ~UndoCheckIn(k)
  BY DEF UndoCheckIn, Compensate
<1>7. Shaped(log[k])
  BY DEF IInv, RowInv
<1>8. ~UndoReorder(k) /\ ~UndoStaffStatus(k)
  BY <1>7 DEF UndoReorder, UndoStaffStatus, Compensate, Shaped, ConstantsOK
<1>9. QED
  BY <1>3, <1>5, <1>6, <1>8, UndoneRowRestored

\* An undo gives its row back the status, the barber and the service it had before the
\* event, however long ago that was.
THEOREM UndoCorrect == Spec => UndoRestores
<1>1. IInv /\ [Next]_vars =>
        [\A k \in DOMAIN log :
           UndoStep(k) /\ log[k].entity \in Entries /\ log[k].type # "client_checked_in"
             => RestoresRow(k)]_vars
  BY UndoStepRestores, ConstantsOK
<1>2. QED
  BY <1>1, Inductive, PTL DEF Spec, UndoRestores

-----------------------------------------------------------------------------
(* The floor laws: what a step does to the rows. *)

SameGuest(row, old) == row.client = old.client /\ row.link = old.link /\ row.isAppt = old.isAppt

\* The row e, and no other, has the status and the barber given, and one event about it of
\* the type given is recorded, which remembers the status from.
RowLogged(e, status, assigned, type, from) ==
  /\ \A f \in Entries : f # e => entry'[f] = entry[f]
  /\ SameGuest(entry'[e], entry[e]) /\ entry'[e].status = status /\ entry'[e].assigned = assigned
  /\ \E ev : log' = Append(log, ev) /\ ev.type = type /\ ev.entity = e /\ ev.from.status = from

\* The same for the undo of event k.
RowUndone(e, status, assigned, k) ==
  /\ \A f \in Entries : f # e => entry'[f] = entry[f]
  /\ SameGuest(entry'[e], entry[e]) /\ entry'[e].status = status /\ entry'[e].assigned = assigned
  /\ \E ev : log' = Append(log, ev) /\ ev.type = "undone" /\ ev.entity = e /\ ev.target = k

\* No row changes but in its place, its flags, its notes or its service.
RowsKept ==
  \A f \in Entries : /\ SameGuest(entry'[f], entry[f]) /\ entry'[f].status = entry[f].status
                     /\ entry'[f].assigned = entry[f].assigned

LEMMA RowWritten ==
  ASSUME TypeOK, NEW e \in Entries, NEW row, entry' = [entry EXCEPT ![e] = row]
  PROVE  entry'[e] = row /\ \A f \in Entries : f # e => entry'[f] = entry[f]
  BY DEF TypeOK

LEMMA LoggedMove ==
  ASSUME TypeOK, NEW e \in Entries, NEW row, NEW type, NEW s, NEW from, NEW was,
         entry' = [entry EXCEPT ![e] = row], log' = Append(log, NewEvent(type, e, s, from)),
         SameGuest(row, entry[e]), from.status = was
  PROVE  RowLogged(e, row.status, row.assigned, type, was)
<1> DEFINE ev == NewEvent(type, e, s, from)
<1>1. ev.type = type /\ ev.entity = e /\ ev.from = from
  BY DEF NewEvent
<1>2. log' = Append(log, ev)
  OBVIOUS
<1> HIDE DEF ev
<1>3. \E written : log' = Append(log, written) /\ written.type = type /\ written.entity = e
                    /\ written.from.status = was
  BY <1>1, <1>2
<1>4. entry'[e] = row /\ \A f \in Entries : f # e => entry'[f] = entry[f]
  BY RowWritten
<1>5. QED
  BY <1>3, <1>4 DEF RowLogged

LEMMA StartMoves ==
  ASSUME TypeOK, NEW e \in Entries, NEW s, NEW svc, NEW n, Start(e, s, svc, n)
  PROVE  RowLogged(e, "in_service", s, "service_started", "waiting")
<1> DEFINE row == [entry[e] EXCEPT !.status = "in_service", !.assigned = s, !.service = svc,
                                   !.notes = n, !.ready = None]
           from == [NoReversal EXCEPT !.status = entry[e].status, !.staff = entry[e].assigned,
                                      !.notes = entry[e].notes, !.service = entry[e].service]
<1>1. entry[e] \in Row
  BY DEF TypeOK
<1>2. SameGuest(row, entry[e]) /\ row.status = "in_service" /\ row.assigned = s
  BY <1>1 DEF Row, SameGuest
<1>3. from.status = "waiting"
  BY DEF NoReversal, Start
<1> HIDE DEF row, from
<1>4. entry' = [entry EXCEPT ![e] = row] /\ log' = Append(log, NewEvent("service_started", e, s, from))
  BY DEF Start, Record, row, from
<1>5. QED
  BY <1>2, <1>3, <1>4, LoggedMove

LEMMA CompleteMoves ==
  ASSUME TypeOK, NEW e \in Entries, NEW svc, Complete(e, svc)
  PROVE  RowLogged(e, "completed", entry[e].assigned, "service_completed", "in_service")
<1> DEFINE row == [entry[e] EXCEPT !.status = "completed", !.service = svc]
           from == [NoReversal EXCEPT !.status = "in_service", !.staff = entry[e].assigned]
<1>1. entry[e] \in Row
  BY DEF TypeOK
<1>2. SameGuest(row, entry[e]) /\ row.status = "completed" /\ row.assigned = entry[e].assigned
  BY <1>1 DEF Row, SameGuest
<1>3. from.status = "in_service"
  BY DEF NoReversal
<1> HIDE DEF row, from
<1>4. entry' = [entry EXCEPT ![e] = row] /\ log' = Append(log, NewEvent("service_completed", e, None, from))
  BY DEF Complete, Record, row, from
<1>5. QED
  BY <1>2, <1>3, <1>4, LoggedMove

LEMMA TerminateMoves ==
  ASSUME TypeOK, NEW e \in Entries, NEW status, NEW type, NEW allowed, NEW abandoned,
         Terminate(e, status, type, allowed, abandoned)
  PROVE  RowLogged(e, status, entry[e].assigned, type, entry[e].status)
<1> DEFINE row == [entry[e] EXCEPT !.status = status, !.abandoned = abandoned]
           from == [NoReversal EXCEPT !.status = entry[e].status, !.order = entry[e].order,
                                      !.staff = entry[e].assigned]
<1>1. entry[e] \in Row
  BY DEF TypeOK
<1>2. SameGuest(row, entry[e]) /\ row.status = status /\ row.assigned = entry[e].assigned
  BY <1>1 DEF Row, SameGuest
<1>3. from.status = entry[e].status
  BY DEF NoReversal
<1> HIDE DEF row, from
<1>4. entry' = [entry EXCEPT ![e] = row] /\ log' = Append(log, NewEvent(type, e, None, from))
  BY DEF Terminate, Record, row, from
<1>5. QED
  BY <1>2, <1>3, <1>4, LoggedMove

LEMMA ReassignMoves ==
  ASSUME TypeOK, NEW e \in Entries, NEW s, Reassign(e, s)
  PROVE  RowLogged(e, entry[e].status, s, "queue_entry_reassigned", None)
<1> DEFINE row == [entry[e] EXCEPT !.assigned = s]
           from == [NoReversal EXCEPT !.staff = entry[e].assigned]
<1>1. entry[e] \in Row
  BY DEF TypeOK
<1>2. SameGuest(row, entry[e]) /\ row.status = entry[e].status /\ row.assigned = s
  BY <1>1 DEF Row, SameGuest
<1>3. from.status = None
  BY DEF NoReversal
<1> HIDE DEF row, from
<1>4. entry' = [entry EXCEPT ![e] = row] /\ log' = Append(log, NewEvent("queue_entry_reassigned", e, s, from))
  BY DEF Reassign, Record, row, from
<1>5. QED
  BY <1>2, <1>3, <1>4, LoggedMove

LEMMA ReturnMoves ==
  ASSUME TypeOK, NEW e \in Entries, NEW position, ReturnToWaiting(e, position)
  PROVE  RowLogged(e, "waiting", None, "queue_entry_returned_to_waiting", entry[e].status)
<1>1. PICK place \in Positions :
        entry' = [entry EXCEPT ![e] = [@ EXCEPT !.status = "waiting", !.assigned = None, !.order = place]]
  BY DEF ReturnToWaiting
<1> DEFINE row == [entry[e] EXCEPT !.status = "waiting", !.assigned = None, !.order = place]
           from == [NoReversal EXCEPT !.status = entry[e].status, !.staff = entry[e].assigned,
                                      !.order = entry[e].order]
<1>2. entry[e] \in Row
  BY DEF TypeOK
<1>3. SameGuest(row, entry[e]) /\ row.status = "waiting" /\ row.assigned = None
  BY <1>2 DEF Row, SameGuest
<1>4. from.status = entry[e].status
  BY DEF NoReversal
<1> HIDE DEF row, from
<1>5. /\ entry' = [entry EXCEPT ![e] = row]
      /\ log' = Append(log, NewEvent("queue_entry_returned_to_waiting", e, None, from))
  BY <1>1 DEF ReturnToWaiting, Record, row, from
<1>6. QED
  BY <1>3, <1>4, <1>5, LoggedMove

LEMMA UndoneMove ==
  ASSUME ConstantsOK, IInv, NEW k \in DOMAIN log, log[k].entity \in Entries, NEW row,
         entry' = [entry EXCEPT ![log[k].entity] = row], log' = Append(log, UndoneEvent(k)),
         SameGuest(row, entry[log[k].entity])
  PROVE  RowUndone(log[k].entity, row.status, row.assigned, k)
<1> DEFINE ev == UndoneEvent(k)
           e  == log[k].entity
<1>1. ev.type = "undone" /\ ev.entity = e /\ ev.target = k
  BY UndoneEventFields
<1>2. log' = Append(log, ev)
  OBVIOUS
<1> HIDE DEF ev
<1>3. \E written : log' = Append(log, written) /\ written.type = "undone" /\ written.entity = e
                    /\ written.target = k
  BY <1>1, <1>2
<1>4. entry'[e] = row /\ \A f \in Entries : f # e => entry'[f] = entry[f]
  BY RowWritten DEF IInv
<1>5. QED
  BY <1>3, <1>4 DEF RowUndone

LEMMA UndoCheckInMoves ==
  ASSUME ConstantsOK, IInv, NEW k \in DOMAIN log, UndoCheckIn(k)
  PROVE  RowUndone(log[k].entity, "cancelled", entry[log[k].entity].assigned, k)
<1> DEFINE row == [entry[log[k].entity] EXCEPT !.status = "cancelled"]
<1>1. log[k].type \in RowTypes /\ Undoable(k) /\ log' = Append(log, UndoneEvent(k))
  BY DEF UndoCheckIn, Compensate, Record, RowTypes
<1>2. log[k].entity \in Entries /\ entry[log[k].entity] \in Row
  BY <1>1, UndoneFacts
<1>3. /\ SameGuest(row, entry[log[k].entity])
      /\ row.status = "cancelled"
      /\ row.assigned = entry[log[k].entity].assigned
  BY <1>2 DEF Row, SameGuest
<1>4. entry' = [entry EXCEPT ![log[k].entity] = row]
  BY DEF UndoCheckIn
<1> HIDE DEF row
<1>5. RowUndone(log[k].entity, row.status, row.assigned, k)
  BY <1>1, <1>2, <1>3, <1>4, UndoneMove
<1>6. QED
  BY <1>3, <1>5, Zenon

LEMMA UndoStartMoves ==
  ASSUME ConstantsOK, IInv, NEW k \in DOMAIN log, UndoStart(k)
  PROVE  RowUndone(log[k].entity, log[k].from.status, log[k].from.staff, k)
<1> DEFINE row == [entry[log[k].entity] EXCEPT !.status = log[k].from.status, !.assigned = log[k].from.staff,
             !.notes = log[k].from.notes, !.service = log[k].from.service]
<1>1. log[k].type \in RowTypes /\ Undoable(k) /\ log' = Append(log, UndoneEvent(k))
  BY DEF UndoStart, Compensate, Record, RowTypes
<1>2. log[k].entity \in Entries /\ entry[log[k].entity] \in Row
  BY <1>1, UndoneFacts
<1>3. /\ SameGuest(row, entry[log[k].entity])
      /\ row.status = log[k].from.status
      /\ row.assigned = log[k].from.staff
  BY <1>2 DEF Row, SameGuest
<1>4. entry' = [entry EXCEPT ![log[k].entity] = row]
  BY DEF UndoStart
<1> HIDE DEF row
<1>5. QED
  BY <1>1, <1>2, <1>3, <1>4, UndoneMove

LEMMA UndoCompleteMoves ==
  ASSUME ConstantsOK, IInv, NEW k \in DOMAIN log, UndoComplete(k)
  PROVE  RowUndone(log[k].entity, log[k].from.status, entry[log[k].entity].assigned, k)
<1> DEFINE row == [entry[log[k].entity] EXCEPT !.status = log[k].from.status]
<1>1. log[k].type \in RowTypes /\ Undoable(k) /\ log' = Append(log, UndoneEvent(k))
  BY DEF UndoComplete, Compensate, Record, RowTypes
<1>2. log[k].entity \in Entries /\ entry[log[k].entity] \in Row
  BY <1>1, UndoneFacts
<1>3. /\ SameGuest(row, entry[log[k].entity])
      /\ row.status = log[k].from.status
      /\ row.assigned = entry[log[k].entity].assigned
  BY <1>2 DEF Row, SameGuest
<1>4. entry' = [entry EXCEPT ![log[k].entity] = row]
  BY DEF UndoComplete
<1> HIDE DEF row
<1>5. QED
  BY <1>1, <1>2, <1>3, <1>4, UndoneMove

LEMMA UndoTerminationMoves ==
  ASSUME ConstantsOK, IInv, NEW k \in DOMAIN log, UndoTermination(k)
  PROVE  RowUndone(log[k].entity, log[k].from.status, log[k].from.staff, k)
<1> DEFINE row == [entry[log[k].entity] EXCEPT !.status = log[k].from.status, !.abandoned = FALSE,
             !.order = log[k].from.order, !.assigned = log[k].from.staff]
<1>1. log[k].type \in RowTypes /\ Undoable(k) /\ log' = Append(log, UndoneEvent(k))
  BY DEF UndoTermination, Compensate, Record, RowTypes
<1>2. log[k].entity \in Entries /\ entry[log[k].entity] \in Row
  BY <1>1, UndoneFacts
<1>3. /\ SameGuest(row, entry[log[k].entity])
      /\ row.status = log[k].from.status
      /\ row.assigned = log[k].from.staff
  BY <1>2 DEF Row, SameGuest
<1>4. entry' = [entry EXCEPT ![log[k].entity] = row]
  BY DEF UndoTermination
<1> HIDE DEF row
<1>5. QED
  BY <1>1, <1>2, <1>3, <1>4, UndoneMove

LEMMA UndoReassignMoves ==
  ASSUME ConstantsOK, IInv, NEW k \in DOMAIN log, UndoReassign(k)
  PROVE  RowUndone(log[k].entity, entry[log[k].entity].status, log[k].from.staff, k)
<1> DEFINE row == [entry[log[k].entity] EXCEPT !.assigned = log[k].from.staff]
<1>1. log[k].type \in RowTypes /\ Undoable(k) /\ log' = Append(log, UndoneEvent(k))
  BY DEF UndoReassign, Compensate, Record, RowTypes
<1>2. log[k].entity \in Entries /\ entry[log[k].entity] \in Row
  BY <1>1, UndoneFacts
<1>3. /\ SameGuest(row, entry[log[k].entity])
      /\ row.status = entry[log[k].entity].status
      /\ row.assigned = log[k].from.staff
  BY <1>2 DEF Row, SameGuest
<1>4. entry' = [entry EXCEPT ![log[k].entity] = row]
  BY DEF UndoReassign
<1> HIDE DEF row
<1>5. QED
  BY <1>1, <1>2, <1>3, <1>4, UndoneMove

LEMMA UndoServiceChangeMoves ==
  ASSUME ConstantsOK, IInv, NEW k \in DOMAIN log, UndoServiceChange(k)
  PROVE  RowUndone(log[k].entity, entry[log[k].entity].status, entry[log[k].entity].assigned, k)
<1> DEFINE row == [entry[log[k].entity] EXCEPT !.service = log[k].from.service]
<1>1. log[k].type \in RowTypes /\ Undoable(k) /\ log' = Append(log, UndoneEvent(k))
  BY DEF UndoServiceChange, Compensate, Record, RowTypes
<1>2. log[k].entity \in Entries /\ entry[log[k].entity] \in Row
  BY <1>1, UndoneFacts
<1>3. /\ SameGuest(row, entry[log[k].entity])
      /\ row.status = entry[log[k].entity].status
      /\ row.assigned = entry[log[k].entity].assigned
  BY <1>2 DEF Row, SameGuest
<1>4. entry' = [entry EXCEPT ![log[k].entity] = row]
  BY DEF UndoServiceChange
<1> HIDE DEF row
<1>5. QED
  BY <1>1, <1>2, <1>3, <1>4, UndoneMove

LEMMA UndoPresentMoves ==
  ASSUME ConstantsOK, IInv, NEW k \in DOMAIN log, UndoPresent(k)
  PROVE  RowUndone(log[k].entity, entry[log[k].entity].status, entry[log[k].entity].assigned, k)
<1> DEFINE row == [entry[log[k].entity] EXCEPT !.present = log[k].from.present]
<1>1. log[k].type \in RowTypes /\ Undoable(k) /\ log' = Append(log, UndoneEvent(k))
  BY DEF UndoPresent, Compensate, Record, RowTypes
<1>2. log[k].entity \in Entries /\ entry[log[k].entity] \in Row
  BY <1>1, UndoneFacts
<1>3. /\ SameGuest(row, entry[log[k].entity])
      /\ row.status = entry[log[k].entity].status
      /\ row.assigned = entry[log[k].entity].assigned
  BY <1>2 DEF Row, SameGuest
<1>4. entry' = [entry EXCEPT ![log[k].entity] = row]
  BY DEF UndoPresent
<1> HIDE DEF row
<1>5. QED
  BY <1>1, <1>2, <1>3, <1>4, UndoneMove

LEMMA UndoReturnMoves ==
  ASSUME ConstantsOK, IInv, NEW k \in DOMAIN log, UndoReturn(k)
  PROVE  RowUndone(log[k].entity, log[k].from.status, log[k].from.staff, k)
<1> DEFINE row == [entry[log[k].entity] EXCEPT !.status = log[k].from.status, !.assigned = log[k].from.staff,
             !.order = log[k].from.order]
<1>1. log[k].type \in RowTypes /\ Undoable(k) /\ log' = Append(log, UndoneEvent(k))
  BY DEF UndoReturn, Compensate, Record, RowTypes
<1>2. log[k].entity \in Entries /\ entry[log[k].entity] \in Row
  BY <1>1, UndoneFacts
<1>3. /\ SameGuest(row, entry[log[k].entity])
      /\ row.status = log[k].from.status
      /\ row.assigned = log[k].from.staff
  BY <1>2 DEF Row, SameGuest
<1>4. entry' = [entry EXCEPT ![log[k].entity] = row]
  BY DEF UndoReturn
<1> HIDE DEF row
<1>5. QED
  BY <1>1, <1>2, <1>3, <1>4, UndoneMove

-----------------------------------------------------------------------------
(* The steps that move nobody. *)

Grows == \A k \in DOMAIN log : k \in DOMAIN log' /\ log'[k] = log[k]

\* Every event that a step records is of one of the types, and about e.
Records(types, e) ==
  Grows /\ \A k \in DOMAIN log' : k \notin DOMAIN log => log'[k].type \in types /\ log'[k].entity = e

LEMMA OneEvent ==
  ASSUME TypeOK, NEW ev, log' = Append(log, ev), NEW types, ev.type \in types
  PROVE  Records(types, ev.entity)
  BY DEF TypeOK, Records, Grows

LEMMA TwoEvents ==
  ASSUME TypeOK, NEW here, NEW in, log' = Append(Append(log, here), in), NEW types,
         here.type \in types, in.type \in types, NEW e, here.entity = e, in.entity = e
  PROVE  Records(types, e)
<1>1. /\ Len(log) \in Nat /\ DOMAIN log = 1 .. Len(log) /\ DOMAIN log' = 1 .. (Len(log) + 2)
      /\ \A k \in DOMAIN log : log'[k] = log[k]
      /\ log'[Len(log) + 1] = here /\ log'[Len(log) + 2] = in
  BY DEF TypeOK
<1>2. \A k \in DOMAIN log' : k \notin DOMAIN log => k = Len(log) + 1 \/ k = Len(log) + 2
  BY <1>1
<1>3. QED
  BY <1>1, <1>2 DEF Records, Grows

LEMMA NoEvent ==
  ASSUME log' = log, NEW types, NEW e
  PROVE  Records(types, e)
  BY DEF Records, Grows

LEMMA KeptRow ==
  ASSUME TypeOK, NEW e \in Entries, NEW row, entry' = [entry EXCEPT ![e] = row],
         SameGuest(row, entry[e]), row.status = entry[e].status, row.assigned = entry[e].assigned
  PROVE  RowsKept
  BY RowWritten DEF RowsKept, SameGuest

LEMMA EditMoves ==
  ASSUME ConstantsOK, TypeOK, NEW e \in Entries, NEW flag, NEW n,
         ToggleReady(e, flag) \/ SetLateArrival(e, flag) \/ UpdateServiceNotes(e, n)
  PROVE  RowsKept /\ log' = log /\ UNCHANGED <<staff, refunds>>
<1>1. entry[e] \in Row
  BY DEF TypeOK
<1>2. CASE ToggleReady(e, flag)
  <2> DEFINE row == [entry[e] EXCEPT !.ready = flag, !.present = flag \/ entry[e].present]
  <2>1. SameGuest(row, entry[e]) /\ row.status = entry[e].status /\ row.assigned = entry[e].assigned
    BY <1>1 DEF Row, SameGuest
  <2> HIDE DEF row
  <2>2. entry' = [entry EXCEPT ![e] = row]
    BY <1>2 DEF ToggleReady, row
  <2>3. QED
    BY <1>2, <2>1, <2>2, KeptRow DEF ToggleReady
<1>3. CASE SetLateArrival(e, flag)
  <2> DEFINE row == [entry[e] EXCEPT !.late = flag]
  <2>1. SameGuest(row, entry[e]) /\ row.status = entry[e].status /\ row.assigned = entry[e].assigned
    BY <1>1 DEF Row, SameGuest
  <2> HIDE DEF row
  <2>2. entry' = [entry EXCEPT ![e] = row]
    BY <1>3 DEF SetLateArrival, row
  <2>3. QED
    BY <1>3, <2>1, <2>2, KeptRow DEF SetLateArrival
<1>4. CASE UpdateServiceNotes(e, n)
  <2> DEFINE row == [entry[e] EXCEPT !.notes = n]
  <2>1. SameGuest(row, entry[e]) /\ row.status = entry[e].status /\ row.assigned = entry[e].assigned
    BY <1>1 DEF Row, SameGuest
  <2> HIDE DEF row
  <2>2. entry' = [entry EXCEPT ![e] = row]
    BY <1>4 DEF UpdateServiceNotes, row
  <2>3. QED
    BY <1>4, <2>1, <2>2, KeptRow DEF UpdateServiceNotes
<1>5. QED
  BY <1>2, <1>3, <1>4

LEMMA ChangeServiceMoves ==
  ASSUME ConstantsOK, TypeOK, NEW e \in Entries, NEW svc, ChangeService(e, svc)
  PROVE  RowLogged(e, entry[e].status, entry[e].assigned, "queue_entry_service_changed", None)
<1> DEFINE row == [entry[e] EXCEPT !.service = svc]
           from == [NoReversal EXCEPT !.service = entry[e].service]
<1>1. entry[e] \in Row
  BY DEF TypeOK
<1>2. SameGuest(row, entry[e]) /\ row.status = entry[e].status /\ row.assigned = entry[e].assigned
  BY <1>1 DEF Row, SameGuest
<1>3. from.status = None
  BY DEF NoReversal
<1> HIDE DEF row, from
<1>4. /\ entry' = [entry EXCEPT ![e] = row]
      /\ log' = Append(log, NewEvent("queue_entry_service_changed", e, None, from))
  BY DEF ChangeService, Record, row, from
<1>5. RowLogged(e, row.status, row.assigned, "queue_entry_service_changed", None)
  BY <1>2, <1>3, <1>4, LoggedMove
<1>6. QED
  BY <1>2, <1>5, Zenon

LEMMA TogglePresentMoves ==
  ASSUME ConstantsOK, TypeOK, NEW e \in Entries, NEW present \in BOOLEAN, TogglePresent(e, present)
  PROVE  RowLogged(e, entry[e].status, entry[e].assigned, "queue_entry_present_toggled", None)
<1> DEFINE row == [entry[e] EXCEPT !.present = present, !.ready = IF present THEN entry[e].ready ELSE None]
           ev == PresentEvent(e, entry[e])
<1>1. entry[e] \in Row
  BY DEF TypeOK
<1>2. SameGuest(row, entry[e]) /\ row.status = entry[e].status /\ row.assigned = entry[e].assigned
  BY <1>1 DEF Row, SameGuest
<1>3. ev.type = "queue_entry_present_toggled" /\ ev.entity = e /\ ev.from.status = None
  BY <1>1, PresentEventFields
<1> HIDE DEF row, ev
<1>4. entry' = [entry EXCEPT ![e] = row] /\ log' = Append(log, ev)
  BY DEF TogglePresent, Record, row, ev
<1>5. entry'[e] = row /\ \A f \in Entries : f # e => entry'[f] = entry[f]
  BY <1>4, RowWritten
<1>6. QED
  BY <1>2, <1>3, <1>4, <1>5 DEF RowLogged

\* A function from orders rewrites no column but the order.
LEMMA RearrangedMoves ==
  ASSUME IInv, NEW orders \in Orders,
         entry' = [e \in Entries |-> IF e \in DOMAIN orders
                                     THEN [entry[e] EXCEPT !.order = orders[e]] ELSE entry[e]]
  PROVE  RowsKept
<1>1. PICK S \in SUBSET Entries : orders \in [S -> Nullable(Positions)]
  BY DEF Orders
<1>2. ASSUME NEW e \in Entries
      PROVE  /\ SameGuest(entry'[e], entry[e]) /\ entry'[e].status = entry[e].status
             /\ entry'[e].assigned = entry[e].assigned
  <2>1. entry[e] \in Row
    BY RowFacts
  <2>2. CASE e \in S
    <3>1. entry'[e] = [entry[e] EXCEPT !.order = orders[e]]
      BY <1>1, <2>2
    <3>2. QED
      BY <2>1, <3>1 DEF Row, SameGuest
  <2>3. CASE e \notin S
    <3>1. entry'[e] = entry[e]
      BY <1>1, <2>3
    <3>2. QED
      BY <3>1 DEF SameGuest
  <2>4. QED
    BY <2>2, <2>3
<1>3. QED
  BY <1>2 DEF RowsKept

LEMMA ReorderMoves ==
  ASSUME ConstantsOK, IInv, NEW pos \in DraggedLists, Reorder(pos)
  PROVE  RowsKept /\ Records({"queue_entry_reordered"}, None) /\ UNCHANGED <<staff, refunds>>
<1>1. pos \in Orders
  BY DEF ConstantsOK, DraggedLists, Orders, Nullable
<1>2. RowsKept
  BY <1>1, RearrangedMoves DEF Reorder
<1> DEFINE from == [NoReversal EXCEPT !.orders = [e \in Waiting |-> entry[e].order]]
           ev == NewEvent("queue_entry_reordered", None, None, from)
<1>3. ev.type = "queue_entry_reordered" /\ ev.entity = None
  BY DEF NewEvent
<1> HIDE DEF from
<1>4. log' = Append(log, ev)
  BY DEF Reorder, Record, from
<1> HIDE DEF ev
<1>5. Records({"queue_entry_reordered"}, ev.entity)
  BY <1>3, <1>4, OneEvent DEF IInv
<1>6. QED
  BY <1>2, <1>3, <1>5 DEF Reorder

\* The undo of an event that is about no row.
LEMMA OtherUndoMoves ==
  ASSUME ConstantsOK, IInv, NEW k \in DOMAIN log, UndoReorder(k) \/ UndoStaffStatus(k)
  PROVE  /\ RowsKept /\ UNCHANGED refunds /\ log[k].entity \notin Entries
         /\ \E ev : log' = Append(log, ev) /\ ev.type = "undone" /\ ev.entity = log[k].entity
                   /\ ev.target = k
<1>1. Shaped(log[k]) /\ log' = Append(log, UndoneEvent(k))
  BY DEF UndoReorder, UndoStaffStatus, Compensate, Record, IInv, RowInv
<1>2. log[k].entity \in Staff \cup {None} /\ log[k].entity \notin Entries
  BY <1>1 DEF UndoReorder, UndoStaffStatus, Compensate, Shaped, ConstantsOK
<1>3. RowsKept
  <2>1. CASE UndoReorder(k)
    <3>1. log[k].from.orders \in Orders
      BY <1>1, <2>1 DEF UndoReorder, Compensate, Shaped
    <3>2. QED
      BY <2>1, <3>1, RearrangedMoves DEF UndoReorder
  <2>2. CASE UndoStaffStatus(k)
    BY <2>2 DEF UndoStaffStatus, RowsKept, SameGuest
  <2>3. QED
    BY <2>1, <2>2
<1> DEFINE ev == UndoneEvent(k)
<1>4. ev.type = "undone" /\ ev.entity = log[k].entity /\ ev.target = k
  BY <1>2, UndoneEventFields
<1>5. log' = Append(log, ev)
  BY <1>1
<1> HIDE DEF ev
<1>6. QED
  BY <1>2, <1>3, <1>4, <1>5 DEF UndoReorder, UndoStaffStatus

\* A barber's clock.
LEMMA ClockMoves ==
  ASSUME ConstantsOK, TypeOK, NEW s \in Staff, NEW status,
         ClockIn(s) \/ SetStaffStatus(s, status)
  PROVE  /\ entry' = entry /\ Records(StaffTypes, s) /\ UNCHANGED refunds
         /\ \A x \in Staff : x # s => staff'[x] = staff[x]
         /\ \E k \in DOMAIN log' : log'[k].type \in StaffTypes /\ log'[k].entity = s
<1>1. PICK type, from : type \in StaffTypes /\ log' = Append(log, NewEvent(type, s, None, from))
  BY DEF ClockIn, SetStaffStatus, Record, StaffTypes
<1> DEFINE ev == NewEvent(type, s, None, from)
<1>2. ev.type \in StaffTypes /\ ev.entity = s
  BY <1>1 DEF NewEvent
<1>3. log' = Append(log, ev)
  BY <1>1
<1> HIDE DEF ev
<1>4. Records(StaffTypes, ev.entity)
  BY <1>2, <1>3, OneEvent
<1>5. Len(log) + 1 \in DOMAIN log' /\ log'[Len(log) + 1] = ev
  BY <1>3 DEF TypeOK
<1>6. \A x \in Staff : x # s => staff'[x] = staff[x]
  BY DEF ClockIn, SetStaffStatus, TypeOK
<1>7. QED
  BY <1>2, <1>4, <1>5, <1>6 DEF ClockIn, SetStaffStatus

-----------------------------------------------------------------------------
(* Arrivals. *)

Arriving == {"client_checked_in", "queue_entry_present_toggled"}

\* Row e is new, and whoever it is for holds no spot.
Arrives(e) ==
  /\ entry[e].status = "none" /\ entry'[e].status = "waiting"
  /\ \A f \in Entries : f # e => entry'[f] = entry[f]
  /\ entry'[e].client # None /\ ~entry'[e].isAppt => ~HoldsSpot(entry'[e].client)
  /\ entry'[e].link # None => LiveRowsOf(entry'[e].link) = {}
  /\ Records(Arriving, e) /\ UNCHANGED <<staff, refunds>>

LEMMA CheckInMoves ==
  ASSUME ConstantsOK, TypeOK, NEW e \in Entries, NEW form \in Forms, CheckIn(e, form)
  PROVE  Arrives(e)
<1>1. PICK place \in Positions :
        entry' = [entry EXCEPT ![e] =
          [AbsentRow EXCEPT !.status = "waiting", !.assigned = form.staff,
             !.client = form.client, !.isAppt = form.isAppt, !.present = form.present,
             !.order = place, !.original = place, !.service = form.service,
             !.notes = form.notes]]
  BY DEF CheckIn
<1> DEFINE row == [AbsentRow EXCEPT !.status = "waiting", !.assigned = form.staff,
             !.client = form.client, !.isAppt = form.isAppt, !.present = form.present,
             !.order = place, !.original = place, !.service = form.service,
             !.notes = form.notes]
           ev == NewEvent("client_checked_in", e, None, NoReversal)
<1>2. /\ row.status = "waiting" /\ row.client = form.client /\ row.isAppt = form.isAppt
      /\ row.link = None
  BY DEF AbsentRow
<1>3. ev.type = "client_checked_in" /\ ev.entity = e
  BY DEF NewEvent
<1> HIDE DEF row, ev
<1>4. entry'[e] = row /\ \A f \in Entries : f # e => entry'[f] = entry[f]
  <2>1. entry' = [entry EXCEPT ![e] = row]
    BY <1>1 DEF row
  <2>2. QED
    BY <2>1, RowWritten
<1>5. log' = Append(log, ev)
  BY DEF CheckIn, Record, ev
<1>6. Records(Arriving, ev.entity)
  BY <1>3, <1>5, OneEvent DEF Arriving
<1>7. QED
  BY <1>2, <1>3, <1>4, <1>6 DEF CheckIn, Existing, Arrives

LEMMA AppointmentRowGuest ==
  ASSUME TypeOK, NEW a \in Appointments, NEW place \in Positions, NEW row,
         row = AppointmentRow(a, place) \/ row = [AppointmentRow(a, place) EXCEPT !.present = TRUE]
  PROVE  row.status = "waiting" /\ row.isAppt = TRUE /\ row.link = a
  BY DEF AppointmentRow, AbsentRow

LEMMA MaterializeMoves ==
  ASSUME ConstantsOK, TypeOK, NEW a \in Appointments, NEW e \in Entries, Materialize(a, e)
  PROVE  Arrives(e)
<1>1. PICK place \in Positions : entry' = [entry EXCEPT ![e] = AppointmentRow(a, place)]
  BY DEF Materialize
<1>2. entry'[e] = AppointmentRow(a, place) /\ \A f \in Entries : f # e => entry'[f] = entry[f]
  BY <1>1, RowWritten
<1>3. entry'[e].status = "waiting" /\ entry'[e].isAppt = TRUE /\ entry'[e].link = a
  BY <1>2, AppointmentRowGuest
<1>4. Records(Arriving, e)
  BY NoEvent DEF Materialize
<1>5. QED
  BY <1>2, <1>3, <1>4 DEF Materialize, Existing, Arrives

LEMMA CheckInEarlyMoves ==
  ASSUME ConstantsOK, TypeOK, NEW a \in Appointments, NEW e \in Entries, CheckInEarly(a, e)
  PROVE  Arrives(e)
<1>1. PICK place \in Positions :
        /\ entry' = [entry EXCEPT ![e] = [AppointmentRow(a, place) EXCEPT !.present = TRUE]]
        /\ log' = Append(Append(log, PresentEvent(e, AppointmentRow(a, place))),
                         CheckedInEvent(e, entry'[e]))
  BY DEF CheckInEarly
<1> DEFINE row == [AppointmentRow(a, place) EXCEPT !.present = TRUE]
           here == PresentEvent(e, AppointmentRow(a, place))
           in == CheckedInEvent(e, entry'[e])
<1>2. row.status = "waiting" /\ row.isAppt = TRUE /\ row.link = a
  BY AppointmentRowGuest
<1>3. /\ here.type = "queue_entry_present_toggled" /\ here.entity = e
      /\ in.type = "client_checked_in" /\ in.entity = e
  BY DEF PresentEvent, CheckedInEvent, NewEvent
<1> HIDE DEF row
<1>4. entry'[e] = row /\ \A f \in Entries : f # e => entry'[f] = entry[f]
  <2>1. entry' = [entry EXCEPT ![e] = row]
    BY <1>1 DEF row
  <2>2. QED
    BY <2>1, RowWritten
<1> HIDE DEF here, in
<1>5. log' = Append(Append(log, here), in)
  BY <1>1 DEF here, in
<1>6. Records(Arriving, e)
  BY <1>3, <1>5, TwoEvents DEF Arriving
<1>7. QED
  BY <1>2, <1>4, <1>6 DEF CheckInEarly, Existing, Arrives

LEMMA CheckInAppointmentMoves ==
  ASSUME ConstantsOK, TypeOK, NEW a \in Appointments, NEW e \in Entries, CheckInAppointment(a, e)
  PROVE  RowsKept /\ Live(e) /\ Records(Arriving, e) /\ UNCHANGED <<staff, refunds>>
<1> DEFINE row == [entry[e] EXCEPT !.present = TRUE]
           here == PresentEvent(e, entry[e])
           in == CheckedInEvent(e, entry'[e])
<1>1. entry[e] \in Row /\ Live(e)
  BY DEF TypeOK, CheckInAppointment, LiveRowsOf
<1>2. SameGuest(row, entry[e]) /\ row.status = entry[e].status /\ row.assigned = entry[e].assigned
  BY <1>1 DEF Row, SameGuest
<1>3. /\ here.type = "queue_entry_present_toggled" /\ here.entity = e
      /\ in.type = "client_checked_in" /\ in.entity = e
  BY DEF PresentEvent, CheckedInEvent, NewEvent
<1>4. CASE entry[e].present
  <2>1. entry' = entry
    BY <1>4 DEF CheckInAppointment
  <2>2. log' = Append(log, in)
    BY <1>4, <2>1 DEF CheckInAppointment, Record
  <2> HIDE DEF in
  <2>3. Records(Arriving, in.entity)
    BY <1>3, <2>2, OneEvent DEF Arriving
  <2>4. RowsKept
    BY <2>1 DEF RowsKept, SameGuest
  <2>5. QED
    BY <1>1, <1>3, <2>3, <2>4 DEF CheckInAppointment
<1>5. CASE ~entry[e].present
  <2> HIDE DEF row
  <2>1. entry' = [entry EXCEPT ![e] = row]
    BY <1>5 DEF CheckInAppointment, row
  <2>2. log' = Append(Append(log, here), in)
    BY <1>5 DEF CheckInAppointment
  <2> HIDE DEF here, in
  <2>3. Records(Arriving, e)
    BY <1>3, <2>2, TwoEvents DEF Arriving
  <2>4. RowsKept
    BY <1>2, <2>1, KeptRow
  <2>5. QED
    BY <1>1, <2>3, <2>4 DEF CheckInAppointment
<1>6. QED
  BY <1>4, <1>5

-----------------------------------------------------------------------------
(* One spot in line. *)

OnFloor == {"waiting", "in_service"}

\* A row that came back once has come back for good: the log only grows.
LEMMA CameBackStays ==
  ASSUME IInv, Grows, NEW e, CameBack(e)
  PROVE  CameBack(e)'
<1>1. PICK k \in EventsOf(e) :
        \/ log[k].type = "undone" /\ log[log[k].target].from.status \in OnFloor
        \/ log[k].type = "queue_entry_returned_to_waiting" /\ log[k].from.status \notin OnFloor
  BY DEF CameBack, OnFloor
<1>2. k \in DOMAIN log /\ k \in DOMAIN log' /\ log'[k] = log[k] /\ log[k].entity = e
  BY <1>1 DEF EventsOf, Grows
<1>3. k \in EventsOf(e)'
  BY <1>2 DEF EventsOf
<1>4. CASE log[k].type = "undone" /\ log[log[k].target].from.status \in OnFloor
  <2>1. log[k].target \in DOMAIN log
    BY <1>2, <1>4 DEF IInv, RowInv, TypeOK
  <2>2. log'[log'[k].target] = log[log[k].target]
    BY <1>2, <2>1 DEF Grows
  <2>3. QED
    BY <1>2, <1>3, <1>4, <2>2 DEF CameBack, OnFloor
<1>5. CASE log[k].type = "queue_entry_returned_to_waiting" /\ log[k].from.status \notin OnFloor
  BY <1>2, <1>3, <1>5 DEF CameBack, OnFloor
<1>6. QED
  BY <1>1, <1>4, <1>5

\* The law survives a step that lets nobody new onto the floor, unless it is by coming back.
LEMMA SpotsKept ==
  ASSUME IInv, OneSpotUnlessOneCameBack, Grows,
         \A f \in Entries : SameGuest(entry'[f], entry[f]),
         \A f \in Entries : Live(f)' => Live(f) \/ CameBack(f)'
  PROVE  OneSpotUnlessOneCameBack'
<1> SUFFICES ASSUME NEW e \in Entries, NEW f \in Entries, e # f, Live(e)', Live(f)',
                    \/ entry'[e].client # None /\ entry'[e].client = entry'[f].client
                         /\ ~entry'[e].isAppt /\ ~entry'[f].isAppt
                    \/ entry'[e].link # None /\ entry'[e].link = entry'[f].link
             PROVE  CameBack(e)' \/ CameBack(f)'
  BY DEF OneSpotUnlessOneCameBack
<1>1. CASE Live(e) /\ Live(f)
  <2>1. CameBack(e) \/ CameBack(f)
    BY <1>1 DEF OneSpotUnlessOneCameBack, SameGuest
  <2>2. QED
    BY <2>1, CameBackStays
<1>2. CASE ~(Live(e) /\ Live(f))
  BY <1>2
<1>3. QED
  BY <1>1, <1>2

LEMMA SpotsAfterArrival ==
  ASSUME IInv, OneSpotUnlessOneCameBack, NEW e \in Entries, Arrives(e)
  PROVE  OneSpotUnlessOneCameBack'
<1>1. Grows
  BY DEF Arrives, Records
<1>2. ASSUME NEW f \in Entries, f # e, Live(f)'
      PROVE  /\ entry'[f] = entry[f] /\ Live(f)
             /\ ~(entry'[e].client # None /\ entry'[e].client = entry[f].client /\ ~entry'[e].isAppt)
             /\ ~(entry'[e].link # None /\ entry'[e].link = entry[f].link)
  <2>1. entry'[f] = entry[f] /\ Live(f)
    BY <1>2 DEF Arrives, Live
  <2>2. entry'[e].client # None /\ ~entry'[e].isAppt => entry[f].client # entry'[e].client
    BY <2>1 DEF Arrives, HoldsSpot
  <2>3. entry'[e].link # None => entry[f].link # entry'[e].link
    BY <2>1 DEF Arrives, LiveRowsOf
  <2>4. QED
    BY <2>1, <2>2, <2>3
<1> SUFFICES ASSUME NEW a \in Entries, NEW b \in Entries, a # b, Live(a)', Live(b)',
                    \/ entry'[a].client # None /\ entry'[a].client = entry'[b].client
                         /\ ~entry'[a].isAppt /\ ~entry'[b].isAppt
                    \/ entry'[a].link # None /\ entry'[a].link = entry'[b].link
             PROVE  CameBack(a)' \/ CameBack(b)'
  BY DEF OneSpotUnlessOneCameBack
<1>3. CASE a # e /\ b # e
  <2>1. Live(a) /\ Live(b) /\ entry'[a] = entry[a] /\ entry'[b] = entry[b]
    BY <1>2, <1>3
  <2>2. CameBack(a) \/ CameBack(b)
    BY <2>1 DEF OneSpotUnlessOneCameBack
  <2>3. QED
    BY <1>1, <2>2, CameBackStays
<1>4. CASE a = e
  BY <1>2, <1>4
<1>5. CASE b = e
  BY <1>2, <1>5
<1>6. QED
  BY <1>3, <1>4, <1>5

LEMMA SpotsAfterRowLogged ==
  ASSUME IInv, OneSpotUnlessOneCameBack, NEW e \in Entries, NEW status, NEW assigned, NEW type, NEW from,
         RowLogged(e, status, assigned, type, from),
         \/ status \notin OnFloor \/ Live(e)
         \/ type = "queue_entry_returned_to_waiting" /\ from \notin OnFloor
  PROVE  OneSpotUnlessOneCameBack'
<1>1. PICK ev : log' = Append(log, ev) /\ ev.type = type /\ ev.entity = e /\ ev.from.status = from
  BY DEF RowLogged
<1>2. Grows /\ Len(log) + 1 \in DOMAIN log' /\ log'[Len(log) + 1] = ev
  BY <1>1 DEF Grows, IInv, TypeOK
<1>3. \A f \in Entries : SameGuest(entry'[f], entry[f])
  BY DEF RowLogged, SameGuest
<1>4. type = "queue_entry_returned_to_waiting" /\ from \notin OnFloor => CameBack(e)'
  <2>1. Len(log) + 1 \in EventsOf(e)'
    BY <1>1, <1>2 DEF EventsOf
  <2>2. QED
    BY <1>1, <1>2, <2>1 DEF CameBack, OnFloor
<1>5. \A f \in Entries : Live(f)' => Live(f) \/ CameBack(f)'
  BY <1>4 DEF RowLogged, Live, OnFloor
<1>6. QED
  BY <1>2, <1>3, <1>5, SpotsKept

LEMMA SpotsAfterRowUndone ==
  ASSUME IInv, OneSpotUnlessOneCameBack, NEW e \in Entries, NEW status, NEW assigned,
         NEW k \in DOMAIN log, RowUndone(e, status, assigned, k),
         status \notin OnFloor \/ Live(e) \/ log[k].from.status \in OnFloor
  PROVE  OneSpotUnlessOneCameBack'
<1>1. PICK ev : log' = Append(log, ev) /\ ev.type = "undone" /\ ev.entity = e /\ ev.target = k
  BY DEF RowUndone
<1>2. Grows /\ Len(log) + 1 \in DOMAIN log' /\ log'[Len(log) + 1] = ev /\ log'[k] = log[k]
  BY <1>1 DEF Grows, IInv, TypeOK
<1>3. \A f \in Entries : SameGuest(entry'[f], entry[f])
  BY DEF RowUndone, SameGuest
<1>4. log[k].from.status \in OnFloor => CameBack(e)'
  <2>1. Len(log) + 1 \in EventsOf(e)'
    BY <1>1, <1>2 DEF EventsOf
  <2>2. QED
    BY <1>1, <1>2, <2>1 DEF CameBack, OnFloor
<1>5. \A f \in Entries : Live(f)' => Live(f) \/ CameBack(f)'
  BY <1>4 DEF RowUndone, Live, OnFloor
<1>6. QED
  BY <1>2, <1>3, <1>5, SpotsKept

LEMMA SpotsAfterKept ==
  ASSUME IInv, OneSpotUnlessOneCameBack, RowsKept, Grows
  PROVE  OneSpotUnlessOneCameBack'
<1>1. \A f \in Entries : SameGuest(entry'[f], entry[f]) /\ (Live(f)' => Live(f))
  BY DEF RowsKept, Live
<1>2. QED
  BY <1>1, SpotsKept

LEMMA SpotsServe ==
  ASSUME ConstantsOK, IInv, OneSpotUnlessOneCameBack, Serve
  PROVE  OneSpotUnlessOneCameBack'
<1>1. ASSUME NEW e \in Entries, NEW s \in Staff, NEW svc \in Services, NEW n \in Notes, Start(e, s, svc, n)
      PROVE  OneSpotUnlessOneCameBack'
  BY <1>1, StartMoves, SpotsAfterRowLogged DEF Start, Live, IInv
<1>2. ASSUME NEW e \in Entries, NEW svc \in Services, Complete(e, svc)
      PROVE  OneSpotUnlessOneCameBack'
  BY <1>2, CompleteMoves, SpotsAfterRowLogged DEF Complete, Live, IInv
<1>3. ASSUME NEW e \in Entries, NEW svc \in Services, ChangeService(e, svc)
      PROVE  OneSpotUnlessOneCameBack'
  BY <1>3, ChangeServiceMoves, SpotsAfterRowLogged DEF ChangeService, Live, IInv
<1>4. ASSUME NEW e \in Entries, NEW status, NEW type, NEW abandoned, NEW allowed,
             allowed \in SUBSET {"waiting", "in_service"}, Terminate(e, status, type, allowed, abandoned)
      PROVE  OneSpotUnlessOneCameBack'
  <2>1. Live(e)
    BY <1>4 DEF Terminate, Live
  <2>2. QED
    BY <1>4, <2>1, TerminateMoves, SpotsAfterRowLogged DEF IInv
<1>5. ASSUME NEW e \in Entries, NoShow(e) \/ Cancel(e) \/ PublicCancel(e) \/ Abandon(e)
      PROVE  OneSpotUnlessOneCameBack'
  BY <1>4, <1>5 DEF NoShow, Cancel, PublicCancel, Abandon
<1>6. ASSUME NEW e \in Entries, NEW s \in Staff, Reassign(e, s)
      PROVE  OneSpotUnlessOneCameBack'
  BY <1>6, ReassignMoves, SpotsAfterRowLogged DEF Live, OnFloor, IInv
<1>7. ASSUME NEW e \in Entries, NEW position \in {"top", "original"}, ReturnToWaiting(e, position)
      PROVE  OneSpotUnlessOneCameBack'
  BY <1>7, ReturnMoves, SpotsAfterRowLogged DEF Live, OnFloor, IInv
<1>8. QED
  BY <1>1, <1>2, <1>3, <1>5, <1>6, <1>7 DEF Serve

LEMMA SpotsUndo ==
  ASSUME ConstantsOK, IInv, OneSpotUnlessOneCameBack, Undo
  PROVE  OneSpotUnlessOneCameBack'
<1> PICK k \in DOMAIN log :
      \/ UndoCheckIn(k) \/ UndoStart(k) \/ UndoComplete(k) \/ UndoTermination(k)
      \/ UndoReassign(k) \/ UndoServiceChange(k) \/ UndoReorder(k) \/ UndoPresent(k)
      \/ UndoReturn(k) \/ UndoStaffStatus(k)
  BY DEF Undo
<1>1. CASE UndoReorder(k) \/ UndoStaffStatus(k)
  <2>1. RowsKept /\ \E ev : log' = Append(log, ev)
    BY <1>1, OtherUndoMoves
  <2>2. Grows
    BY <2>1 DEF Grows, IInv, TypeOK
  <2>3. QED
    BY <2>1, <2>2, SpotsAfterKept
<1>2. CASE ~(UndoReorder(k) \/ UndoStaffStatus(k))
  <2>1. log[k].type \in RowTypes /\ Shaped(log[k])
    BY <1>2 DEF UndoCheckIn, UndoStart, UndoComplete, UndoTermination, UndoReassign,
         UndoServiceChange, UndoPresent, UndoReturn, Compensate, RowTypes, IInv, RowInv
  <2>2. log[k].entity \in Entries
    BY <2>1 DEF Shaped
  <2>3. \/ \E assigned : RowUndone(log[k].entity, "cancelled", assigned, k)
        \/ \E assigned : RowUndone(log[k].entity, log[k].from.status, assigned, k)
        \/ \E assigned : RowUndone(log[k].entity, entry[log[k].entity].status, assigned, k)
    BY <1>2, UndoCheckInMoves, UndoStartMoves, UndoCompleteMoves, UndoTerminationMoves,
       UndoReassignMoves, UndoServiceChangeMoves, UndoPresentMoves, UndoReturnMoves
  <2>4. QED
    BY <2>2, <2>3, SpotsAfterRowUndone DEF OnFloor, Live
<1>3. QED
  BY <1>1, <1>2

LEMMA SpotsNext ==
  ASSUME ConstantsOK, IInv, OneSpotUnlessOneCameBack, [Next]_vars
  PROVE  OneSpotUnlessOneCameBack'
<1>1. CASE Arrive
  <2>1. ASSUME NEW a \in Appointments, NEW e \in Entries, CheckInAppointment(a, e)
        PROVE  OneSpotUnlessOneCameBack'
    BY <2>1, CheckInAppointmentMoves, SpotsAfterKept DEF Records, IInv
  <2>2. ASSUME NEW e \in Entries, Arrives(e)
        PROVE  OneSpotUnlessOneCameBack'
    BY <2>2, SpotsAfterArrival
  <2>3. QED
    BY <1>1, <2>1, <2>2, CheckInMoves, MaterializeMoves, CheckInEarlyMoves DEF Arrive, IInv
<1>2. CASE Arrange
  <2>1. FlagRows \subseteq Entries
    BY DEF ConstantsOK
  <2>2. ASSUME NEW pos \in DraggedLists, Reorder(pos)
        PROVE  OneSpotUnlessOneCameBack'
    BY <2>2, ReorderMoves, SpotsAfterKept DEF Records
  <2>3. ASSUME NEW e \in FlagRows, NEW flag \in BOOLEAN, TogglePresent(e, flag)
        PROVE  OneSpotUnlessOneCameBack'
    BY <2>1, <2>3, TogglePresentMoves, SpotsAfterRowLogged DEF Live, OnFloor, IInv
  <2>4. ASSUME NEW e \in FlagRows, NEW flag, NEW n,
               ToggleReady(e, flag) \/ SetLateArrival(e, flag) \/ UpdateServiceNotes(e, n)
        PROVE  OneSpotUnlessOneCameBack'
    <3>1. RowsKept /\ log' = log
      BY <2>1, <2>4, EditMoves DEF IInv
    <3>2. QED
      BY <3>1, SpotsAfterKept DEF Grows
  <2>5. QED
    BY <1>2, <2>2, <2>3, <2>4 DEF Arrange
<1>3. CASE Clock
  <2>1. entry' = entry /\ Grows
    <3>1. ASSUME NEW s \in Staff, Deactivate(s)
          PROVE  entry' = entry /\ Grows
      BY <3>1 DEF Deactivate, Grows
    <3>2. ASSUME NEW s \in ClockStaff, NEW status, ClockIn(s) \/ SetStaffStatus(s, status)
          PROVE  entry' = entry /\ Grows
      BY <3>2, ClockMoves DEF Records, ConstantsOK, IInv
    <3>3. QED
      BY <1>3, <3>1, <3>2 DEF Clock
  <2>2. RowsKept
    BY <2>1 DEF RowsKept, SameGuest
  <2>3. QED
    BY <2>1, <2>2, SpotsAfterKept
<1>4. CASE UNCHANGED vars
  BY <1>4, SpotsAfterKept DEF vars, RowsKept, SameGuest, Grows
<1>5. QED
  BY <1>1, <1>2, <1>3, <1>4, SpotsServe, SpotsUndo DEF Next

\* Two live rows of one walk-in client, or of one appointment, exist only if one of them
\* came back after the other was let in, for any number of rows, clients and events.
THEOREM OneSpot == Spec => []OneSpotUnlessOneCameBack
<1>1. Init => OneSpotUnlessOneCameBack
  BY DEF Init, OneSpotUnlessOneCameBack, Live, AbsentRow
<1>2. IInv /\ OneSpotUnlessOneCameBack /\ [Next]_vars => OneSpotUnlessOneCameBack'
  BY SpotsNext, ConstantsOK
<1>3. QED
  BY <1>1, <1>2, Inductive, PTL DEF Spec

-----------------------------------------------------------------------------
(* One client in a chair. *)

Chair(s) ==
  /\ \A e, f \in Serving(s) : e = f
  /\ staff[s] = "busy" => Serving(s) # {}
  /\ staff[s] = "available" => Serving(s) = {}

\* An id no row has been inserted under is for no appointment.
AbsentIsNoAppointment == \A e \in Entries : entry[e].status = "none" => ~entry[e].isAppt

LEMMA ChairKept ==
  ASSUME NEW s, Chair(s), staff'[s] = staff[s],
         \A f \in Entries : (entry'[f].status = "in_service" /\ entry'[f].assigned = s)
                             <=> (entry[f].status = "in_service" /\ entry[f].assigned = s)
  PROVE  Chair(s)'
<1>1. Serving(s)' = Serving(s)
  BY DEF Serving
<1>2. QED
  BY <1>1 DEF Chair

LEMMA ChairFreed ==
  ASSUME NEW s, Chair(s), NEW e \in Serving(s), \A f \in Entries : f # e => entry'[f] = entry[f],
         ~(entry'[e].status = "in_service" /\ entry'[e].assigned = s), staff'[s] = "available"
  PROVE  Chair(s)'
<1>1. Serving(s)' = {}
  BY DEF Serving, Chair
<1>2. QED
  BY <1>1 DEF Chair

LEMMA ChairTaken ==
  ASSUME NEW s, Chair(s), NEW e \in Entries, \A f \in Entries : f # e => entry'[f] = entry[f],
         entry'[e].status = "in_service", entry'[e].assigned = s,
         staff[s] = "available", staff'[s] = "busy"
  PROVE  Chair(s)'
<1>1. Serving(s)' = {e}
  BY DEF Serving, Chair
<1>2. QED
  BY <1>1 DEF Chair

\* Who only served walk-ins after a step only served walk-ins before it.
LEMMA OnlyWalkInsBefore ==
  ASSUME TypeOK, Grows, NEW s, OnlyWalkInsServed(s)',
         \A e \in Entries : entry[e].isAppt => entry'[e].isAppt
  PROVE  OnlyWalkInsServed(s)
  BY DEF OnlyWalkInsServed, Grows

\* Neither an undo nor the manager's clock leaves a barber with walk-ins only.
LEMMA WalkInsOnly ==
  ASSUME NEW s, OnlyWalkInsServed(s)'
  PROVE  \A k \in DOMAIN log' : /\ log'[k].type # "undone"
                                /\ log'[k].type \in StaffTypes => log'[k].entity # s
  BY DEF OnlyWalkInsServed

LEMMA ChairStart ==
  ASSUME ConstantsOK, IInv, NEW s \in Staff, Chair(s), OnlyWalkInsServed(s),
         NEW e \in Entries, NEW b \in Staff, NEW svc, NEW n, Start(e, b, svc, n)
  PROVE  Chair(s)'
<1>1. RowLogged(e, "in_service", b, "service_started", "waiting") /\ entry[e].status = "waiting"
  BY StartMoves DEF Start, IInv
<1>2. staff[b] = "available"
  BY DEF Start, Eligible, OnlyWalkInsServed
<1>3. b # None /\ staff' = [staff EXCEPT ![b] = "busy"]
  BY DEF Start, Occupy, ConstantsOK
<1>4. CASE s = b
  BY <1>1, <1>2, <1>3, <1>4, ChairTaken DEF RowLogged, IInv, TypeOK
<1>5. CASE s # b
  BY <1>1, <1>3, <1>5, ChairKept DEF RowLogged, IInv, TypeOK
<1>6. QED
  BY <1>4, <1>5

\* A row leaves the floor, or goes back to the line, and frees the barber it was with.
LEMMA ChairLeft ==
  ASSUME ConstantsOK, IInv, NEW s \in Staff, Chair(s), NEW e \in Entries, NEW status, NEW assigned,
         NEW type, NEW from, RowLogged(e, status, assigned, type, from), status # "in_service",
         staff' = IF entry[e].status = "in_service" THEN Free(staff, entry[e].assigned) ELSE staff
  PROVE  Chair(s)'
<1>1. CASE entry[e].status = "in_service"
  <2>1. entry[e].assigned \in Staff /\ entry[e].assigned # None
    BY <1>1, RowFacts DEF Seated, ConstantsOK
  <2>2. staff' = [staff EXCEPT ![entry[e].assigned] = "available"]
    BY <1>1, <2>1 DEF Free
  <2>3. CASE s = entry[e].assigned
    <3>1. e \in Serving(s) /\ staff'[s] = "available"
      BY <1>1, <2>2, <2>3 DEF Serving, IInv, TypeOK
    <3>2. QED
      BY <3>1, ChairFreed DEF RowLogged
  <2>4. CASE s # entry[e].assigned
    BY <2>2, <2>4, ChairKept DEF RowLogged, IInv, TypeOK
  <2>5. QED
    BY <2>3, <2>4
<1>2. CASE entry[e].status # "in_service"
  BY <1>2, ChairKept DEF RowLogged
<1>3. QED
  BY <1>1, <1>2

LEMMA ChairReassign ==
  ASSUME ConstantsOK, IInv, NEW s \in Staff, Chair(s), NEW e \in Entries, NEW b \in Staff, Reassign(e, b)
  PROVE  Chair(s)'
<1>1. RowLogged(e, entry[e].status, b, "queue_entry_reassigned", None)
  BY ReassignMoves DEF IInv
<1>2. CASE entry[e].status = "in_service"
  <2> DEFINE was == entry[e].assigned
  <2>1. was \in Staff /\ was # None /\ b # None /\ staff[b] = "available"
    BY <1>2, RowFacts DEF Seated, ConstantsOK, Reassign, Eligible
  <2>2. staff' = [[staff EXCEPT ![was] = "available"] EXCEPT ![b] = "busy"]
    BY <1>2, <2>1 DEF Reassign, Free, Occupy
  <2>3. CASE s = b
    <3>1. staff'[s] = "busy"
      BY <2>2, <2>3 DEF IInv, TypeOK
    <3>2. QED
      BY <1>1, <1>2, <2>1, <2>3, <3>1, ChairTaken DEF RowLogged
  <2>4. CASE s # b /\ s = was
    <3>1. e \in Serving(s) /\ staff'[s] = "available"
      BY <1>2, <2>2, <2>4 DEF Serving, IInv, TypeOK
    <3>2. entry'[e].assigned # s
      BY <1>1, <2>4 DEF RowLogged
    <3>3. QED
      BY <1>1, <3>1, <3>2, ChairFreed DEF RowLogged
  <2>5. CASE s # b /\ s # was
    <3>1. staff'[s] = staff[s]
      BY <2>2, <2>5 DEF IInv, TypeOK
    <3>2. QED
      BY <1>1, <2>5, <3>1, ChairKept DEF RowLogged
  <2>6. QED
    BY <2>3, <2>4, <2>5
<1>3. CASE entry[e].status # "in_service"
  BY <1>1, <1>3, ChairKept DEF Reassign, RowLogged
<1>4. QED
  BY <1>2, <1>3

LEMMA ChairServe ==
  ASSUME ConstantsOK, IInv, NEW s \in Staff, Chair(s), OnlyWalkInsServed(s), Serve
  PROVE  Chair(s)'
<1>1. ASSUME NEW e \in Entries, NEW svc \in Services, Complete(e, svc)
      PROVE  Chair(s)'
  BY <1>1, CompleteMoves, ChairLeft DEF Complete, IInv
<1>2. ASSUME NEW e \in Entries, NEW svc \in Services, ChangeService(e, svc)
      PROVE  Chair(s)'
  BY <1>2, ChangeServiceMoves, ChairKept DEF ChangeService, RowLogged, IInv
<1>3. ASSUME NEW e \in Entries, NEW status, NEW type, NEW abandoned, NEW allowed,
             status # "in_service", Terminate(e, status, type, allowed, abandoned)
      PROVE  Chair(s)'
  BY <1>3, TerminateMoves, ChairLeft DEF Terminate, IInv
<1>4. ASSUME NEW e \in Entries, NoShow(e) \/ Cancel(e) \/ PublicCancel(e) \/ Abandon(e)
      PROVE  Chair(s)'
  BY <1>3, <1>4 DEF NoShow, Cancel, PublicCancel, Abandon
<1>5. ASSUME NEW e \in Entries, NEW position \in {"top", "original"}, ReturnToWaiting(e, position)
      PROVE  Chair(s)'
  BY <1>5, ReturnMoves, ChairLeft DEF ReturnToWaiting, IInv
<1>6. QED
  BY <1>1, <1>2, <1>4, <1>5, ChairStart, ChairReassign DEF Serve

\* Whoever is not touched by a clock keeps the chair when no row moves.
LEMMA ChairRowsKept ==
  ASSUME NEW s, Chair(s), RowsKept, staff'[s] = staff[s]
  PROVE  Chair(s)'
  BY ChairKept DEF RowsKept

LEMMA ChairArrange ==
  ASSUME ConstantsOK, IInv, NEW s \in Staff, Chair(s), Arrange
  PROVE  Chair(s)'
<1>1. FlagRows \subseteq Entries
  BY DEF ConstantsOK
<1>2. ASSUME NEW e \in FlagRows, NEW flag \in BOOLEAN, TogglePresent(e, flag)
      PROVE  Chair(s)'
  <2>1. RowLogged(e, entry[e].status, entry[e].assigned, "queue_entry_present_toggled", None)
    BY <1>1, <1>2, TogglePresentMoves DEF IInv
  <2>2. staff' = staff
    BY <1>2 DEF TogglePresent
  <2>3. QED
    BY <1>1, <2>1, <2>2, ChairKept DEF RowLogged
<1>3. ASSUME NEW pos \in DraggedLists, Reorder(pos)
      PROVE  Chair(s)'
  BY <1>3, ReorderMoves, ChairRowsKept
<1>4. ASSUME NEW e \in FlagRows, NEW flag, NEW n,
             ToggleReady(e, flag) \/ SetLateArrival(e, flag) \/ UpdateServiceNotes(e, n)
      PROVE  Chair(s)'
  BY <1>1, <1>4, EditMoves, ChairRowsKept DEF IInv
<1>5. QED
  BY <1>2, <1>3, <1>4 DEF Arrange

LEMMA ChairClock ==
  ASSUME ConstantsOK, IInv, NEW s \in Staff, Chair(s), OnlyWalkInsServed(s)', Clock
  PROVE  Chair(s)'
<1>1. ASSUME NEW x \in Staff, Deactivate(x)
      PROVE  Chair(s)'
  <2>1. entry' = entry /\ staff'[s] \in {staff[s], "off"}
    BY <1>1 DEF Deactivate, IInv, TypeOK
  <2>2. Serving(s)' = Serving(s)
    BY <2>1 DEF Serving
  <2>3. QED
    BY <2>1, <2>2 DEF Chair
<1>2. ASSUME NEW x \in ClockStaff, NEW status, ClockIn(x) \/ SetStaffStatus(x, status)
      PROVE  Chair(s)'
  <2>1. x # s /\ entry' = entry /\ staff'[s] = staff[s]
    BY <1>2, ClockMoves, WalkInsOnly DEF ConstantsOK, IInv
  <2>2. QED
    BY <2>1, ChairKept
<1>3. QED
  BY <1>1, <1>2 DEF Clock

LEMMA NoUndoLeavesWalkIns ==
  ASSUME ConstantsOK, IInv, Undo
  PROVE  \E k \in DOMAIN log' : log'[k].type = "undone"
<1> PICK k \in DOMAIN log :
      \/ UndoCheckIn(k) \/ UndoStart(k) \/ UndoComplete(k) \/ UndoTermination(k)
      \/ UndoReassign(k) \/ UndoServiceChange(k) \/ UndoReorder(k) \/ UndoPresent(k)
      \/ UndoReturn(k) \/ UndoStaffStatus(k)
  BY DEF Undo
<1>1. log' = Append(log, UndoneEvent(k))
  BY DEF UndoCheckIn, UndoStart, UndoComplete, UndoTermination, UndoReassign, UndoServiceChange,
       UndoReorder, UndoPresent, UndoReturn, UndoStaffStatus, Compensate, Record
<1>2. UndoneEvent(k).type = "undone"
  BY DEF UndoneEvent, NewEvent
<1>3. QED
  BY <1>1, <1>2 DEF IInv, TypeOK

\* Only an arrival makes a row, and no row changes whom it is for.
LEMMA Guests ==
  ASSUME ConstantsOK, IInv, [Next]_vars
  PROVE  /\ Grows
         /\ \/ \E e \in Entries : Arrives(e)
            \/ \A f \in Entries : SameGuest(entry'[f], entry[f]) /\ (entry'[f].status = "none" => entry[f].status = "none")
<1> DEFINE Same == \A f \in Entries : SameGuest(entry'[f], entry[f])
                                    /\ (entry'[f].status = "none" => entry[f].status = "none")
<1> SUFFICES Grows /\ ((\E e \in Entries : Arrives(e)) \/ Same)
  OBVIOUS
<1>1. ASSUME RowsKept
      PROVE  Same
  BY <1>1 DEF RowsKept
<1>2. ASSUME NEW e \in Entries, NEW status, NEW assigned, NEW type, NEW from,
             RowLogged(e, status, assigned, type, from), status # "none" \/ status = entry[e].status
      PROVE  Same /\ Grows
  BY <1>2 DEF RowLogged, SameGuest, Grows, IInv, TypeOK
<1> HIDE DEF Same
<1>3. CASE Arrive
  <2>1. ASSUME NEW a \in Appointments, NEW e \in Entries, CheckInAppointment(a, e)
        PROVE  Same /\ Grows
    BY <1>1, <2>1, CheckInAppointmentMoves DEF Records, IInv
  <2>2. ASSUME NEW e \in Entries, Arrives(e)
        PROVE  Grows
    BY <2>2 DEF Arrives, Records
  <2>3. CASE \E a \in Appointments, e \in Entries : CheckInAppointment(a, e)
    BY <2>1, <2>3
  <2>4. CASE \E e \in Entries : Arrives(e)
    BY <2>2, <2>4
  <2>5. QED
    BY <1>3, <2>3, <2>4, CheckInMoves, MaterializeMoves, CheckInEarlyMoves DEF Arrive, IInv
<1>4. CASE Serve
  <2>1. ASSUME NEW e \in Entries, NEW status, NEW type, NEW abandoned, NEW allowed,
               status # "none", Terminate(e, status, type, allowed, abandoned)
        PROVE  Same /\ Grows
    BY <1>2, <2>1, TerminateMoves DEF IInv
  <2>2. ASSUME NEW e \in Entries, NoShow(e) \/ Cancel(e) \/ PublicCancel(e) \/ Abandon(e)
        PROVE  Same /\ Grows
    BY <2>1, <2>2 DEF NoShow, Cancel, PublicCancel, Abandon
  <2>3. ASSUME NEW e \in Entries, NEW svc, Complete(e, svc) \/ ChangeService(e, svc)
        PROVE  Same /\ Grows
    BY <1>2, <2>3, CompleteMoves, ChangeServiceMoves DEF IInv
  <2>4. ASSUME NEW e \in Entries, NEW s, NEW svc, NEW n, Start(e, s, svc, n)
        PROVE  Same /\ Grows
    BY <1>2, <2>4, StartMoves DEF IInv
  <2>5. ASSUME NEW e \in Entries, NEW s, Reassign(e, s)
        PROVE  Same /\ Grows
    BY <1>2, <2>5, ReassignMoves DEF IInv
  <2>6. ASSUME NEW e \in Entries, NEW position, ReturnToWaiting(e, position)
        PROVE  Same /\ Grows
    BY <1>2, <2>6, ReturnMoves DEF IInv
  <2>7. Same /\ Grows
    BY <1>4, <2>2, <2>3, <2>4, <2>5, <2>6 DEF Serve
  <2>8. QED
    BY <2>7
<1>5. CASE Arrange
  <2>1. FlagRows \subseteq Entries
    BY DEF ConstantsOK
  <2>2. ASSUME NEW pos \in DraggedLists, Reorder(pos)
        PROVE  Same /\ Grows
    BY <1>1, <2>2, ReorderMoves DEF Records
  <2>3. ASSUME NEW e \in FlagRows, NEW flag \in BOOLEAN, TogglePresent(e, flag)
        PROVE  Same /\ Grows
    BY <1>2, <2>1, <2>3, TogglePresentMoves DEF IInv
  <2>4. ASSUME NEW e \in FlagRows, NEW flag, NEW n,
               ToggleReady(e, flag) \/ SetLateArrival(e, flag) \/ UpdateServiceNotes(e, n)
        PROVE  Same /\ Grows
    <3>1. RowsKept /\ log' = log
      BY <2>1, <2>4, EditMoves DEF IInv
    <3>2. QED
      BY <1>1, <3>1 DEF Grows
  <2>5. Same /\ Grows
    BY <1>5, <2>2, <2>3, <2>4 DEF Arrange
  <2>6. QED
    BY <2>5
<1>6. CASE Clock
  <2>1. ASSUME NEW s \in Staff, Deactivate(s)
        PROVE  entry' = entry /\ Grows
    BY <2>1 DEF Deactivate, Grows
  <2>2. ASSUME NEW s \in ClockStaff, NEW status, ClockIn(s) \/ SetStaffStatus(s, status)
        PROVE  entry' = entry /\ Grows
    BY <2>2, ClockMoves DEF Records, ConstantsOK, IInv
  <2>3. entry' = entry /\ Grows
    BY <1>6, <2>1, <2>2 DEF Clock
  <2>4. QED
    BY <2>3 DEF Same, SameGuest
<1>7. CASE Undo
  <2>1. PICK k \in DOMAIN log :
          \/ UndoCheckIn(k) \/ UndoStart(k) \/ UndoComplete(k) \/ UndoTermination(k)
          \/ UndoReassign(k) \/ UndoServiceChange(k) \/ UndoReorder(k) \/ UndoPresent(k)
          \/ UndoReturn(k) \/ UndoStaffStatus(k)
    BY <1>7 DEF Undo
  <2>2. log' = Append(log, UndoneEvent(k))
    BY <2>1 DEF UndoCheckIn, UndoStart, UndoComplete, UndoTermination, UndoReassign, UndoServiceChange,
         UndoReorder, UndoPresent, UndoReturn, UndoStaffStatus, Compensate, Record
  <2>3. Grows
    BY <2>2 DEF Grows, IInv, TypeOK
  <2>4. CASE UndoReorder(k) \/ UndoStaffStatus(k)
    BY <1>1, <2>3, <2>4, OtherUndoMoves
  <2>5. CASE ~(UndoReorder(k) \/ UndoStaffStatus(k))
    <3>1. log[k].type \in RowTypes /\ Undoable(k)
      BY <2>1, <2>5 DEF UndoCheckIn, UndoStart, UndoComplete, UndoTermination, UndoReassign,
           UndoServiceChange, UndoPresent, UndoReturn, Compensate, RowTypes
    <3>2. log[k].entity \in Entries /\ entry[log[k].entity].status # "none"
      BY <3>1, UndoneFacts
    <3>3. \E status, assigned : RowUndone(log[k].entity, status, assigned, k)
      BY <2>1, <2>5, UndoCheckInMoves, UndoStartMoves, UndoCompleteMoves, UndoTerminationMoves,
         UndoReassignMoves, UndoServiceChangeMoves, UndoPresentMoves, UndoReturnMoves
    <3>4. IInv' /\ Len(log) + 1 \in DOMAIN log' /\ log'[Len(log) + 1].entity = log[k].entity
      BY <1>7, <3>3, UndoInv DEF RowUndone, IInv, TypeOK
    <3>5. entry'[log[k].entity].status # "none"
      BY <3>2, <3>4 DEF IInv, RowInv
    <3>6. QED
      BY <2>3, <3>2, <3>3, <3>5 DEF RowUndone, SameGuest, Same
  <2>6. QED
    BY <2>4, <2>5
<1>8. CASE UNCHANGED vars
  BY <1>8 DEF vars, Grows, SameGuest, Same
<1>9. QED
  BY <1>3, <1>4, <1>5, <1>6, <1>7, <1>8 DEF Next

LEMMA ChairsNext ==
  ASSUME ConstantsOK, IInv, AbsentIsNoAppointment, OneClientPerChair, [Next]_vars
  PROVE  AbsentIsNoAppointment' /\ OneClientPerChair'
<1>1. CASE \E e \in Entries : Arrives(e)
  <2>1. PICK e \in Entries : Arrives(e)
    BY <1>1
  <2>2. AbsentIsNoAppointment'
    BY <2>1 DEF AbsentIsNoAppointment, Arrives
  <2>3. ASSUME NEW s \in Staff, OnlyWalkInsServed(s)'
        PROVE  Chair(s)'
    <3>1. \A f \in Entries : entry[f].isAppt => entry'[f].isAppt
      BY <2>1 DEF AbsentIsNoAppointment, Arrives
    <3>2. OnlyWalkInsServed(s)
      BY <2>1, <2>3, <3>1, OnlyWalkInsBefore DEF Arrives, Records, IInv
    <3>3. Chair(s)
      BY <3>2 DEF OneClientPerChair, Chair
    <3>4. QED
      BY <2>1, <3>3, ChairKept DEF Arrives
  <2>4. QED
    BY <2>2, <2>3 DEF OneClientPerChair, Chair
<1>2. CASE ~\E e \in Entries : Arrives(e)
  <2>1. Grows /\ \A f \in Entries : /\ SameGuest(entry'[f], entry[f])
                                    /\ entry'[f].status = "none" => entry[f].status = "none"
    BY <1>2, Guests
  <2>a. \A f \in Entries : entry'[f].isAppt = entry[f].isAppt
    BY <2>1, Zenon DEF SameGuest
  <2>2. AbsentIsNoAppointment'
    <3> SUFFICES ASSUME NEW f \in Entries, entry'[f].status = "none"
                 PROVE  ~entry'[f].isAppt
      BY DEF AbsentIsNoAppointment
    <3>1. ~entry[f].isAppt
      BY <2>1, Zenon DEF AbsentIsNoAppointment
    <3>2. QED
      BY <2>a, <3>1, Zenon
  <2>3. ASSUME NEW s \in Staff, OnlyWalkInsServed(s)'
        PROVE  Chair(s)'
    <3>1. OnlyWalkInsServed(s)
      BY <2>1, <2>a, <2>3, OnlyWalkInsBefore, Zenon DEF IInv
    <3>2. Chair(s)
      BY <3>1 DEF OneClientPerChair, Chair
    <3>3. ~Undo
      BY <2>3, NoUndoLeavesWalkIns, WalkInsOnly
    <3>4. CASE Arrive
      <4>1. ~\E a \in Appointments, e \in Entries : Materialize(a, e) \/ CheckInEarly(a, e)
        BY <1>2, MaterializeMoves, CheckInEarlyMoves DEF IInv
      <4>2. PICK a \in Appointments, e \in Entries : CheckInAppointment(a, e)
        BY <1>2, <3>4, <4>1, CheckInMoves DEF Arrive, IInv
      <4>3. QED
        BY <3>2, <4>2, CheckInAppointmentMoves, ChairRowsKept DEF IInv
    <3>5. CASE UNCHANGED vars
      BY <3>2, <3>5, ChairKept DEF vars
    <3>6. QED
      BY <2>3, <3>1, <3>2, <3>3, <3>4, <3>5, ChairServe, ChairArrange, ChairClock DEF Next
  <2>4. QED
    BY <2>2, <2>3 DEF OneClientPerChair, Chair
<1>3. QED
  BY <1>1, <1>2

\* A barber who serves walk-ins only has at most one client in the chair, and is busy
\* exactly while that one is there unless clocked out, for any number of barbers and rows.
THEOREM OneChair == Spec => []OneClientPerChair
<1>1. Init => AbsentIsNoAppointment /\ OneClientPerChair
  BY DEF Init, AbsentIsNoAppointment, OneClientPerChair, Serving, AbsentRow
<1>2. IInv /\ AbsentIsNoAppointment /\ OneClientPerChair /\ [Next]_vars
        => AbsentIsNoAppointment' /\ OneClientPerChair'
  BY ChairsNext, ConstantsOK
<1>3. QED
  BY <1>1, <1>2, Inductive, PTL DEF Spec

-----------------------------------------------------------------------------
(* A sale for every completed visit. *)

\* A row whose last event is a check-in has not left the floor since.
CheckInsStand ==
  \A k \in DOMAIN log :
    log[k].type = "client_checked_in" /\ LastOfItsRow(log, k) => Live(log[k].entity)

RefundsAreUndone == \A i \in DOMAIN refunds : refunds[i] \in DOMAIN log /\ AlreadyUndone(refunds[i])

VisitSold(e) ==
  Cardinality(StandingSales(e)) =
    Cardinality(ReopenedVisits(e)) + (IF entry[e].status = "completed" THEN 1 ELSE 0)

SalesInv == CheckInsStand /\ RefundsAreUndone /\ SalesMatchVisits

LEMMA SalesFinite ==
  ASSUME TypeOK, NEW e
  PROVE  /\ IsFiniteSet(StandingSales(e)) /\ IsFiniteSet(ReopenedVisits(e))
         /\ Cardinality(StandingSales(e)) \in Nat /\ Cardinality(ReopenedVisits(e)) \in Nat
<1>1. IsFiniteSet(DOMAIN log)
  <2>1. DOMAIN log = 1 .. Len(log) /\ Len(log) \in Nat
    BY DEF TypeOK
  <2>2. QED
    BY <2>1, FS_Interval
<1>2. StandingSales(e) \subseteq DOMAIN log /\ ReopenedVisits(e) \subseteq DOMAIN log
  BY DEF StandingSales, ReopenedVisits, EventsOf
<1>3. QED
  BY <1>1, <1>2, FS_Subset, FS_CardinalityType

\* The status an event left its row in is the row's while no later event is about it.
LEMMA LastLeft ==
  ASSUME IInv, NEW k \in DOMAIN log, log[k].entity \in Entries, LastOfItsRow(log, k),
         StatusLeft(log, log[k]) # None
  PROVE  entry[log[k].entity].status = StatusLeft(log, log[k])
<1>1. FoldsTo(log, log[k].entity, entry[log[k].entity].status)
  BY DEF IInv, RowInv
<1>2. k \in StatusEvents(log, log[k].entity)
  BY DEF StatusEvents
<1>3. \A j \in StatusEvents(log, log[k].entity) : j <= k
  BY DEF StatusEvents, LastOfItsRow
<1>4. QED
  BY <1>1, <1>2, <1>3 DEF FoldsTo

LEMMA UndoneIsLast ==
  ASSUME ConstantsOK, IInv, NEW k \in DOMAIN log, Undoable(k), log[k].entity \in Entries
  PROVE  LastOfItsRow(log, k)
<1>1. k \in Nat /\ \A j \in DOMAIN log : j \in Nat
  BY DEF IInv, TypeOK
<1>2. log[k].entity # None
  BY DEF ConstantsOK
<1>3. QED
  BY <1>1, <1>2 DEF Undoable, LaterEvent, LastOfItsRow

LEMMA UndoneStays ==
  ASSUME Grows, NEW k, AlreadyUndone(k)
  PROVE  AlreadyUndone(k)'
  BY DEF Grows, AlreadyUndone

LEMMA RefundsUndoneStay ==
  ASSUME Grows, RefundsAreUndone, refunds' = refunds
  PROVE  RefundsAreUndone'
<1> SUFFICES ASSUME NEW i \in DOMAIN refunds
             PROVE  refunds[i] \in DOMAIN log' /\ AlreadyUndone(refunds[i])'
  BY DEF RefundsAreUndone
<1>1. PICK k : k = refunds[i]
  OBVIOUS
<1>2. k \in DOMAIN log' /\ AlreadyUndone(k)'
  BY <1>1, UndoneStays DEF RefundsAreUndone, Grows
<1>3. refunds'[i] = k
  BY <1>1
<1>4. QED
  BY <1>1, <1>2, <1>3 DEF AlreadyUndone

LEMMA CheckInsStillStand ==
  ASSUME IInv, IInv', CheckInsStand, Grows,
         \A k \in DOMAIN log' : k \notin DOMAIN log /\ log'[k].type = "client_checked_in"
                               => Live(log[k].entity)',
         \A f \in Entries : entry[f].status # "none" =>
            \/ entry'[f].status = entry[f].status
            \/ \E k \in DOMAIN log' : k \notin DOMAIN log /\ log'[k].entity = f
  PROVE  CheckInsStand'
<1> SUFFICES ASSUME NEW k \in DOMAIN log', log'[k].type = "client_checked_in", LastOfItsRow(log, k)'
             PROVE  Live(log[k].entity)'
  BY DEF CheckInsStand
<1>1. CASE k \in DOMAIN log
  <2>1. log'[k] = log[k]
    BY <1>1 DEF Grows
  <2>2. log[k].entity \in Entries /\ entry[log[k].entity].status # "none"
    <3>1. Shaped(log[k])
      BY <1>1 DEF IInv, RowInv
    <3>2. log[k].entity \in Entries
      BY <2>1, <3>1 DEF Shaped, RowTypes
    <3>3. QED
      BY <1>1, <3>2 DEF IInv, RowInv
  <2>3. \A j \in DOMAIN log' : log'[j].entity = log'[k].entity => j <= k
    BY DEF LastOfItsRow
  <2>4. LastOfItsRow(log, k)
    BY <1>1, <2>1, <2>3 DEF LastOfItsRow, Grows
  <2>5. Live(log[k].entity)
    BY <1>1, <2>1, <2>4 DEF CheckInsStand
  <2>6. \A j \in DOMAIN log' : j \notin DOMAIN log => ~(j <= k)
    <3>1. /\ Len(log) \in Nat /\ DOMAIN log = 1 .. Len(log)
          /\ Len(log') \in Nat /\ DOMAIN log' = 1 .. Len(log')
      BY DEF IInv, TypeOK
    <3>2. QED
      BY <1>1, <3>1
  <2>7. entry'[log[k].entity].status = entry[log[k].entity].status
    <3>1. ~\E j \in DOMAIN log' : j \notin DOMAIN log /\ log'[j].entity = log[k].entity
      BY <2>1, <2>3, <2>6
    <3>2. QED
      BY <2>2, <3>1
  <2>8. QED
    BY <2>1, <2>5, <2>7 DEF Live
<1>2. CASE k \notin DOMAIN log
  BY <1>2
<1>3. QED
  BY <1>1, <1>2

\* No sale and no visit is counted anew by events that neither complete, return a completed
\* visit, nor undo.
LEMMA SalesUntouched ==
  ASSUME IInv, Grows, refunds' = refunds, NEW e,
         \A k \in DOMAIN log' : k \notin DOMAIN log =>
            /\ log'[k].type \notin {"service_completed", "undone"}
            /\ log'[k].type = "queue_entry_returned_to_waiting" => log'[k].from.status # "completed"
  PROVE  StandingSales(e)' = StandingSales(e) /\ ReopenedVisits(e)' = ReopenedVisits(e)
<1>1. \A k : Refunded(k)' <=> Refunded(k)
  BY DEF Refunded
<1>2. \A k \in DOMAIN log : AlreadyUndone(k)' <=> AlreadyUndone(k)
  BY DEF AlreadyUndone, Grows
<1>3. StandingSales(e)' = StandingSales(e)
  BY <1>1 DEF StandingSales, EventsOf, Grows
<1>4. ReopenedVisits(e)' = ReopenedVisits(e)
  BY <1>2 DEF ReopenedVisits, EventsOf, Grows
<1>5. QED
  BY <1>3, <1>4

LEMMA SalesAfterQuiet ==
  ASSUME IInv, IInv', SalesInv, Grows, refunds' = refunds,
         \A k \in DOMAIN log' : k \notin DOMAIN log =>
            /\ log'[k].type \notin {"service_completed", "undone"}
            /\ log'[k].type = "queue_entry_returned_to_waiting" => log'[k].from.status # "completed"
            /\ log'[k].type = "client_checked_in" => Live(log[k].entity)',
         \A f \in Entries :
            /\ entry'[f].status = "completed" <=> entry[f].status = "completed"
            /\ entry[f].status # "none" =>
                 \/ entry'[f].status = entry[f].status
                 \/ \E k \in DOMAIN log' : k \notin DOMAIN log /\ log'[k].entity = f
  PROVE  SalesInv'
<1>1. CheckInsStand'
  <2>1. \A k \in DOMAIN log' : k \notin DOMAIN log /\ log'[k].type = "client_checked_in"
                             => Live(log[k].entity)'
    OBVIOUS
  <2>2. QED
    BY <2>1, CheckInsStillStand DEF SalesInv
<1>2. RefundsAreUndone'
  BY RefundsUndoneStay DEF SalesInv
<1>3. ASSUME NEW e \in Entries
      PROVE  VisitSold(e)'
  <2>1. StandingSales(e)' = StandingSales(e) /\ ReopenedVisits(e)' = ReopenedVisits(e)
    BY SalesUntouched
  <2>2. VisitSold(e)
    BY DEF SalesInv, SalesMatchVisits, VisitSold
  <2>3. entry'[e].status = "completed" <=> entry[e].status = "completed"
    OBVIOUS
  <2>4. QED
    BY <2>1, <2>2, <2>3 DEF VisitSold
<1>4. \A i, j \in DOMAIN refunds' : refunds'[i] = refunds'[j] => i = j
  BY DEF SalesInv, SalesMatchVisits
<1>5. QED
  BY <1>1, <1>2, <1>3, <1>4 DEF SalesInv, SalesMatchVisits, VisitSold

LEMMA SalesAfterRow ==
  ASSUME IInv, IInv', SalesInv, refunds' = refunds,
         NEW e \in Entries, NEW status, NEW assigned, NEW type, NEW from,
         RowLogged(e, status, assigned, type, from),
         type \notin {"service_completed", "undone", "client_checked_in"},
         type = "queue_entry_returned_to_waiting" => from # "completed",
         status = "completed" <=> entry[e].status = "completed"
  PROVE  SalesInv'
<1>1. PICK ev : log' = Append(log, ev) /\ ev.type = type /\ ev.entity = e /\ ev.from.status = from
  BY DEF RowLogged
<1>2. /\ Grows /\ Len(log) + 1 \in DOMAIN log' /\ log'[Len(log) + 1] = ev
      /\ Len(log) + 1 \notin DOMAIN log
      /\ \A k \in DOMAIN log' : k \notin DOMAIN log => log'[k] = ev
  BY <1>1 DEF Grows, IInv, TypeOK
<1>3. \A f \in Entries :
         /\ entry'[f].status = "completed" <=> entry[f].status = "completed"
         /\ \/ entry'[f].status = entry[f].status
            \/ \E k \in DOMAIN log' : k \notin DOMAIN log /\ log'[k].entity = f
  <2>1. ASSUME NEW f \in Entries, f # e
        PROVE  entry'[f].status = entry[f].status
    BY <2>1 DEF RowLogged
  <2>2. entry'[e].status = status /\ \E k \in DOMAIN log' : k \notin DOMAIN log /\ log'[k].entity = e
    BY <1>1, <1>2 DEF RowLogged
  <2>3. QED
    BY <2>1, <2>2
<1>4. QED
  BY <1>1, <1>2, <1>3, SalesAfterQuiet

LEMMA SalesAfterKept ==
  ASSUME IInv, IInv', SalesInv, refunds' = refunds, RowsKept, NEW types, NEW x, Records(types, x),
         types \cap {"service_completed", "undone", "queue_entry_returned_to_waiting"} = {},
         "client_checked_in" \in types => x \in Entries /\ Live(x)
  PROVE  SalesInv'
<1>1. \A f \in Entries : entry'[f].status = entry[f].status
  BY DEF RowsKept
<1>2. Grows /\ \A k \in DOMAIN log' : k \notin DOMAIN log => log'[k].type \in types /\ log'[k].entity = x
  BY DEF Records
<1>3. x \in Entries /\ Live(x) => Live(x)'
  BY <1>1 DEF Live
<1>4. \A k \in DOMAIN log' : k \notin DOMAIN log =>
        /\ log'[k].type \notin {"service_completed", "undone", "queue_entry_returned_to_waiting"}
        /\ log'[k].type = "client_checked_in" => Live(log[k].entity)'
  BY <1>2, <1>3 DEF Live
<1>5. QED
  BY <1>1, <1>2, <1>4, SalesAfterQuiet

LEMMA SalesAfterArrival ==
  ASSUME IInv, IInv', SalesInv, NEW e \in Entries, Arrives(e)
  PROVE  SalesInv'
<1>1. /\ Grows /\ refunds' = refunds
      /\ \A k \in DOMAIN log' : k \notin DOMAIN log => log'[k].type \in Arriving /\ log'[k].entity = e
  BY DEF Arrives, Records
<1>2. \A k \in DOMAIN log' : k \notin DOMAIN log =>
        /\ log'[k].type \notin {"service_completed", "undone", "queue_entry_returned_to_waiting"}
        /\ Live(log[k].entity)'
  BY <1>1 DEF Arriving, Arrives, Live
<1>3. \A f \in Entries :
        /\ entry'[f].status = "completed" <=> entry[f].status = "completed"
        /\ entry[f].status # "none" => entry'[f].status = entry[f].status
  BY DEF Arrives
<1>4. QED
  BY <1>1, <1>2, <1>3, SalesAfterQuiet

\* The checks-in stand, whatever else one event about one row does.
LEMMA CheckInsAfterRow ==
  ASSUME IInv, IInv', CheckInsStand, NEW e \in Entries, NEW ev, log' = Append(log, ev),
         ev.entity = e, ev.type # "client_checked_in",
         \A f \in Entries : f # e => entry'[f] = entry[f]
  PROVE  CheckInsStand' /\ Grows
<1>1. /\ Grows /\ Len(log) + 1 \in DOMAIN log' /\ Len(log) + 1 \notin DOMAIN log
      /\ log'[Len(log) + 1] = ev /\ \A k \in DOMAIN log' : k \notin DOMAIN log => log'[k] = ev
  BY DEF Grows, IInv, TypeOK
<1>2. \A f \in Entries : \/ entry'[f].status = entry[f].status
                         \/ \E k \in DOMAIN log' : k \notin DOMAIN log /\ log'[k].entity = f
  BY <1>1
<1>3. QED
  BY <1>1, <1>2, CheckInsStillStand

LEMMA SalesComplete ==
  ASSUME IInv, IInv', SalesInv, NEW e \in Entries, NEW svc, Complete(e, svc)
  PROVE  SalesInv'
<1> PICK n \in Nat : n = Len(log) + 1
  BY DEF IInv, TypeOK
<1>1. /\ RowLogged(e, "completed", entry[e].assigned, "service_completed", "in_service")
      /\ entry[e].status = "in_service" /\ refunds' = refunds
  BY CompleteMoves DEF Complete, IInv
<1>2. PICK ev : log' = Append(log, ev) /\ ev.type = "service_completed" /\ ev.entity = e
  BY <1>1 DEF RowLogged
<1>3. CheckInsStand' /\ Grows
  BY <1>1, <1>2, CheckInsAfterRow DEF RowLogged, SalesInv
<1>4. /\ n \in DOMAIN log' /\ n \notin DOMAIN log /\ log'[n] = ev
      /\ \A k \in DOMAIN log' : k \notin DOMAIN log => k = n
  BY <1>2 DEF IInv, TypeOK
<1>5. RefundsAreUndone'
  BY <1>1, <1>3, RefundsUndoneStay DEF SalesInv
<1>6. ~Refunded(n)'
  BY <1>1, <1>4 DEF Refunded, RefundsAreUndone, SalesInv
<1>7. \A k \in DOMAIN log : (AlreadyUndone(k)' <=> AlreadyUndone(k)) /\ (Refunded(k)' <=> Refunded(k))
  BY <1>1, <1>2, <1>3, <1>4 DEF AlreadyUndone, Refunded, Grows
<1>8. ASSUME NEW f \in Entries
      PROVE  VisitSold(f)'
  <2>1. ReopenedVisits(f)' = ReopenedVisits(f)
    BY <1>2, <1>3, <1>4, <1>7 DEF ReopenedVisits, EventsOf, Grows
  <2>2. VisitSold(f)
    BY DEF SalesInv, SalesMatchVisits, VisitSold
  <2>3. CASE f = e
    <3>1. StandingSales(f)' = StandingSales(f) \cup {n}
      BY <1>2, <1>3, <1>4, <1>6, <1>7, <2>3 DEF StandingSales, EventsOf, Grows
    <3>2. n \notin StandingSales(f)
      BY <1>4 DEF StandingSales, EventsOf
    <3>3. Cardinality(StandingSales(f))' = Cardinality(StandingSales(f)) + 1
      BY <3>1, <3>2, SalesFinite, FS_AddElement DEF IInv
    <3>4. entry[f].status # "completed" /\ entry'[f].status = "completed"
      BY <1>1, <2>3 DEF RowLogged
    <3>5. Cardinality(StandingSales(f)) \in Nat /\ Cardinality(ReopenedVisits(f)) \in Nat
      BY SalesFinite DEF IInv
    <3>6. QED
      BY <2>1, <2>2, <3>3, <3>4, <3>5 DEF VisitSold
  <2>4. CASE f # e
    <3>1. StandingSales(f)' = StandingSales(f)
      BY <1>2, <1>3, <1>4, <1>7, <2>4 DEF StandingSales, EventsOf, Grows
    <3>2. entry'[f] = entry[f]
      BY <1>1, <2>4 DEF RowLogged
    <3>3. QED
      BY <2>1, <2>2, <3>1, <3>2 DEF VisitSold
  <2>5. QED
    BY <2>3, <2>4
<1>9. \A i, j \in DOMAIN refunds' : refunds'[i] = refunds'[j] => i = j
  BY <1>1 DEF SalesInv, SalesMatchVisits
<1>10. QED
  BY <1>3, <1>5, <1>8, <1>9 DEF SalesInv, SalesMatchVisits, VisitSold

\* A completed visit is sent back to the line: its sale stands and is counted as such.
LEMMA SalesReopen ==
  ASSUME IInv, IInv', SalesInv, NEW e \in Entries, NEW position, ReturnToWaiting(e, position),
         entry[e].status = "completed"
  PROVE  SalesInv'
<1> PICK n \in Nat : n = Len(log) + 1
  BY DEF IInv, TypeOK
<1>1. /\ RowLogged(e, "waiting", None, "queue_entry_returned_to_waiting", "completed")
      /\ refunds' = refunds
  BY ReturnMoves DEF ReturnToWaiting, IInv
<1>2. PICK ev : /\ log' = Append(log, ev) /\ ev.type = "queue_entry_returned_to_waiting" /\ ev.entity = e
                /\ ev.from.status = "completed"
  BY <1>1 DEF RowLogged
<1>3. CheckInsStand' /\ Grows
  BY <1>1, <1>2, CheckInsAfterRow DEF RowLogged, SalesInv
<1>4. /\ n \in DOMAIN log' /\ n \notin DOMAIN log /\ log'[n] = ev
      /\ \A k \in DOMAIN log' : k \notin DOMAIN log => k = n
  BY <1>2 DEF IInv, TypeOK
<1>5. ~AlreadyUndone(n)'
  <2>1. ASSUME NEW j \in DOMAIN log', log'[j].type = "undone"
        PROVE  log'[j].target # n
    <3>1. j \in DOMAIN log /\ log'[j] = log[j]
      BY <1>2, <1>3, <1>4, <2>1 DEF Grows
    <3>2. log[j].target \in 1 .. (j - 1) /\ j \in 1 .. Len(log) /\ Len(log) \in Nat
      BY <2>1, <3>1 DEF IInv, RowInv, TypeOK
    <3>3. QED
      BY <3>1, <3>2
  <2>2. QED
    BY <2>1 DEF AlreadyUndone
<1>6. RefundsAreUndone'
  BY <1>1, <1>3, RefundsUndoneStay DEF SalesInv
<1>7. \A k \in DOMAIN log : (AlreadyUndone(k)' <=> AlreadyUndone(k)) /\ (Refunded(k)' <=> Refunded(k))
  BY <1>1, <1>2, <1>3, <1>4 DEF AlreadyUndone, Refunded, Grows
<1>8. ASSUME NEW f \in Entries
      PROVE  VisitSold(f)'
  <2>1. StandingSales(f)' = StandingSales(f)
    BY <1>2, <1>3, <1>4, <1>7 DEF StandingSales, EventsOf, Grows
  <2>2. VisitSold(f)
    BY DEF SalesInv, SalesMatchVisits, VisitSold
  <2>3. CASE f = e
    <3>1. ReopenedVisits(f)' = ReopenedVisits(f) \cup {n}
      BY <1>2, <1>3, <1>4, <1>5, <1>7, <2>3 DEF ReopenedVisits, EventsOf, Grows
    <3>2. n \notin ReopenedVisits(f)
      BY <1>4 DEF ReopenedVisits, EventsOf
    <3>3. Cardinality(ReopenedVisits(f))' = Cardinality(ReopenedVisits(f)) + 1
      BY <3>1, <3>2, SalesFinite, FS_AddElement DEF IInv
    <3>4. entry[f].status = "completed" /\ entry'[f].status # "completed"
      BY <1>1, <2>3 DEF RowLogged
    <3>5. Cardinality(StandingSales(f)) \in Nat /\ Cardinality(ReopenedVisits(f)) \in Nat
      BY SalesFinite DEF IInv
    <3>6. QED
      BY <2>1, <2>2, <3>3, <3>4, <3>5 DEF VisitSold
  <2>4. CASE f # e
    <3>1. ReopenedVisits(f)' = ReopenedVisits(f)
      BY <1>2, <1>3, <1>4, <1>7, <2>4 DEF ReopenedVisits, EventsOf, Grows
    <3>2. entry'[f] = entry[f]
      BY <1>1, <2>4 DEF RowLogged
    <3>3. QED
      BY <2>1, <2>2, <3>1, <3>2 DEF VisitSold
  <2>5. QED
    BY <2>3, <2>4
<1>9. \A i, j \in DOMAIN refunds' : refunds'[i] = refunds'[j] => i = j
  BY <1>1 DEF SalesInv, SalesMatchVisits
<1>10. QED
  BY <1>3, <1>6, <1>8, <1>9 DEF SalesInv, SalesMatchVisits, VisitSold

\* What the undo of event k does to the sales that stand and the visits that were reopened.
LEMMA SalesAfterUndone ==
  ASSUME IInv, NEW k \in DOMAIN log, NEW ev, log' = Append(log, ev), ev.type = "undone", ev.target = k,
         refunds' = refunds, NEW f
  PROVE  StandingSales(f)' = StandingSales(f) /\ ReopenedVisits(f)' = ReopenedVisits(f) \ {k}
<1> PICK n \in Nat : n = Len(log) + 1
  BY DEF IInv, TypeOK
<1>1. /\ n \in DOMAIN log' /\ n \notin DOMAIN log /\ log'[n] = ev
      /\ \A j \in DOMAIN log' : j \notin DOMAIN log => j = n
      /\ \A j \in DOMAIN log : j \in DOMAIN log' /\ log'[j] = log[j]
  BY DEF IInv, TypeOK
<1>2. \A j : Refunded(j)' <=> Refunded(j)
  BY DEF Refunded
<1>3. \A j \in DOMAIN log : AlreadyUndone(j)' <=> AlreadyUndone(j) \/ j = k
  BY <1>1 DEF AlreadyUndone
<1>4. StandingSales(f)' = StandingSales(f)
  BY <1>1, <1>2 DEF StandingSales, EventsOf
<1>5. ReopenedVisits(f)' = ReopenedVisits(f) \ {k}
  BY <1>1, <1>3 DEF ReopenedVisits, EventsOf
<1>6. QED
  BY <1>4, <1>5

\* The undo of anything but a completion: it takes a reopened visit back to completed, or
\* leaves both the visits that are completed and those that were reopened.
LEMMA SalesUndoRow ==
  ASSUME IInv, IInv', SalesInv, NEW k \in DOMAIN log, NEW e \in Entries, e = log[k].entity,
         NEW status, NEW assigned, RowUndone(e, status, assigned, k), refunds' = refunds,
         IF k \in ReopenedVisits(e) THEN entry[e].status # "completed" /\ status = "completed"
         ELSE status = "completed" <=> entry[e].status = "completed"
  PROVE  SalesInv'
<1>1. PICK ev : log' = Append(log, ev) /\ ev.type = "undone" /\ ev.entity = e /\ ev.target = k
  BY DEF RowUndone
<1>2. CheckInsStand' /\ Grows
  BY <1>1, CheckInsAfterRow DEF RowUndone, SalesInv
<1>3. RefundsAreUndone'
  BY <1>2, RefundsUndoneStay DEF SalesInv
<1>4. ASSUME NEW f \in Entries
      PROVE  VisitSold(f)'
  <2>1. StandingSales(f)' = StandingSales(f) /\ ReopenedVisits(f)' = ReopenedVisits(f) \ {k}
    BY <1>1, SalesAfterUndone
  <2>2. VisitSold(f)
    BY DEF SalesInv, SalesMatchVisits, VisitSold
  <2>3. Cardinality(StandingSales(f)) \in Nat /\ Cardinality(ReopenedVisits(f)) \in Nat
    BY SalesFinite DEF IInv
  <2>4. CASE f = e /\ k \in ReopenedVisits(f)
    <3>1. Cardinality(ReopenedVisits(f))' = Cardinality(ReopenedVisits(f)) - 1
      <4>1. PICK R : R = ReopenedVisits(f)
        OBVIOUS
      <4>2. IsFiniteSet(R) /\ k \in R
        BY <2>4, <4>1, SalesFinite DEF IInv
      <4>3. Cardinality(R \ {k}) = Cardinality(R) - 1
        BY <4>2, FS_RemoveElement
      <4>4. QED
        BY <2>1, <4>1, <4>3
    <3>2. entry[f].status # "completed" /\ entry'[f].status = "completed"
      BY <2>4 DEF RowUndone
    <3>3. QED
      BY <2>1, <2>2, <2>3, <3>1, <3>2 DEF VisitSold
  <2>5. CASE ~(f = e /\ k \in ReopenedVisits(f))
    <3>1. k \notin ReopenedVisits(f)
      BY <2>5 DEF ReopenedVisits, EventsOf
    <3>2. ReopenedVisits(f)' = ReopenedVisits(f)
      BY <2>1, <3>1
    <3>3. entry'[f].status = "completed" <=> entry[f].status = "completed"
      BY <3>1, <2>5 DEF RowUndone
    <3>4. QED
      BY <2>1, <2>2, <3>2, <3>3 DEF VisitSold
  <2>6. QED
    BY <2>4, <2>5
<1>5. \A i, j \in DOMAIN refunds' : refunds'[i] = refunds'[j] => i = j
  BY DEF SalesInv, SalesMatchVisits
<1>6. QED
  BY <1>2, <1>3, <1>4, <1>5 DEF SalesInv, SalesMatchVisits, VisitSold

\* The undo of an event about no row.
LEMMA SalesUndoOther ==
  ASSUME ConstantsOK, IInv, IInv', SalesInv, NEW k \in DOMAIN log, UndoReorder(k) \/ UndoStaffStatus(k)
  PROVE  SalesInv'
<1>1. /\ RowsKept /\ refunds' = refunds /\ log[k].entity \notin Entries
      /\ \E ev : log' = Append(log, ev) /\ ev.type = "undone" /\ ev.entity = log[k].entity
                /\ ev.target = k
  BY OtherUndoMoves
<1>2. PICK ev : log' = Append(log, ev) /\ ev.type = "undone" /\ ev.target = k
  BY <1>1
<1>3. Grows /\ \A j \in DOMAIN log' : j \notin DOMAIN log => log'[j] = ev
  BY <1>2 DEF Grows, IInv, TypeOK
<1>4. CheckInsStand'
  BY <1>1, <1>2, <1>3, CheckInsStillStand DEF RowsKept, SalesInv
<1>5. RefundsAreUndone'
  BY <1>1, <1>3, RefundsUndoneStay DEF SalesInv
<1>6. ASSUME NEW f \in Entries
      PROVE  VisitSold(f)'
  <2>1. StandingSales(f)' = StandingSales(f) /\ ReopenedVisits(f)' = ReopenedVisits(f) \ {k}
    BY <1>1, <1>2, SalesAfterUndone
  <2>2. ReopenedVisits(f)' = ReopenedVisits(f)
    BY <1>1, <2>1 DEF ReopenedVisits, EventsOf
  <2>3. VisitSold(f) /\ entry'[f].status = entry[f].status
    BY <1>1 DEF SalesInv, SalesMatchVisits, VisitSold, RowsKept
  <2>4. QED
    BY <2>1, <2>2, <2>3 DEF VisitSold
<1>7. \A i, j \in DOMAIN refunds' : refunds'[i] = refunds'[j] => i = j
  BY <1>1 DEF SalesInv, SalesMatchVisits
<1>8. QED
  BY <1>4, <1>5, <1>6, <1>7 DEF SalesInv, SalesMatchVisits, VisitSold

\* The undo of a completion refunds a sale that no undo has refunded before.
LEMMA SalesUndoComplete ==
  ASSUME ConstantsOK, IInv, IInv', SalesInv, NEW k \in DOMAIN log, UndoComplete(k)
  PROVE  SalesInv'
<1> PICK n \in Nat : n = Len(log) + 1
  BY DEF IInv, TypeOK
<1> PICK e : e = log[k].entity
  OBVIOUS
<1>1. log[k].type = "service_completed" /\ Undoable(k) /\ refunds' = Append(refunds, k)
  BY DEF UndoComplete, Compensate
<1>2. e \in Entries /\ Shaped(log[k]) /\ LastOfItsRow(log, k)
  BY <1>1, UndoneFacts, UndoneIsLast DEF RowTypes
<1>3. RowUndone(e, "in_service", entry[e].assigned, k)
  BY <1>1, <1>2, UndoCompleteMoves DEF Shaped
<1>4. PICK ev : log' = Append(log, ev) /\ ev.type = "undone" /\ ev.entity = e /\ ev.target = k
  BY <1>3 DEF RowUndone
<1>5. CheckInsStand' /\ Grows
  BY <1>2, <1>3, <1>4, CheckInsAfterRow DEF RowUndone, SalesInv
<1>6. /\ n \in DOMAIN log' /\ n \notin DOMAIN log /\ log'[n] = ev
      /\ \A j \in DOMAIN log' : j \notin DOMAIN log => j = n
      /\ \A j \in DOMAIN log : j \in DOMAIN log' /\ log'[j] = log[j]
  BY <1>4 DEF IInv, TypeOK
<1>7. ~Refunded(k) /\ ~AlreadyUndone(k)
  <2>1. ~AlreadyUndone(k)
    BY <1>1 DEF Undoable
  <2>2. ASSUME NEW i \in DOMAIN refunds, refunds[i] = k
        PROVE  FALSE
    BY <2>1, <2>2 DEF SalesInv, RefundsAreUndone
  <2>3. QED
    BY <2>1, <2>2 DEF Refunded
<1>8. /\ Len(refunds) \in Nat /\ DOMAIN refunds' = DOMAIN refunds \cup {Len(refunds) + 1}
      /\ refunds'[Len(refunds) + 1] = k /\ \A i \in DOMAIN refunds : refunds'[i] = refunds[i]
  BY <1>1 DEF IInv, TypeOK
<1>9. /\ \A j : Refunded(j)' <=> Refunded(j) \/ j = k
      /\ \A j \in DOMAIN log : AlreadyUndone(j)' <=> AlreadyUndone(j) \/ j = k
  BY <1>4, <1>6, <1>8 DEF Refunded, AlreadyUndone
<1>10. RefundsAreUndone'
  <2> SUFFICES ASSUME NEW i \in DOMAIN refunds'
               PROVE  refunds'[i] \in DOMAIN log' /\ \E j \in DOMAIN log' : log'[j].type = "undone" /\ log'[j].target = refunds'[i]
    BY DEF RefundsAreUndone, AlreadyUndone
  <2>1. CASE i \in DOMAIN refunds
    BY <1>6, <1>8, <2>1 DEF SalesInv, RefundsAreUndone, AlreadyUndone
  <2>2. CASE i \notin DOMAIN refunds
    BY <1>4, <1>6, <1>8, <2>2
  <2>3. QED
    BY <2>1, <2>2
<1>11. entry[e].status = "completed"
  <2>1. StatusLeft(log, log[k]) = "completed" /\ None # "completed"
    BY <1>1 DEF StatusLeft, ConstantsOK, RowStatus
  <2>2. QED
    BY <1>2, <2>1, LastLeft
<1>12. ASSUME NEW f \in Entries
       PROVE  VisitSold(f)'
  <2>1. ReopenedVisits(f)' = ReopenedVisits(f)
    BY <1>1, <1>4, <1>6, <1>9 DEF ReopenedVisits, EventsOf
  <2>2. StandingSales(f)' = StandingSales(f) \ {k}
    BY <1>4, <1>6, <1>9 DEF StandingSales, EventsOf
  <2>3. VisitSold(f)
    BY DEF SalesInv, SalesMatchVisits, VisitSold
  <2>4. Cardinality(StandingSales(f)) \in Nat /\ Cardinality(ReopenedVisits(f)) \in Nat
    BY SalesFinite DEF IInv
  <2>5. CASE f = e
    <3>1. k \in StandingSales(f)
      BY <1>1, <1>7, <2>5 DEF StandingSales, EventsOf
    <3>2. Cardinality(StandingSales(f))' = Cardinality(StandingSales(f)) - 1
      BY <2>2, <3>1, SalesFinite, FS_RemoveElement DEF IInv
    <3>3. entry'[f].status # "completed"
      BY <1>3, <2>5 DEF RowUndone
    <3>4. QED
      BY <1>11, <2>1, <2>3, <2>4, <2>5, <3>2, <3>3 DEF VisitSold
  <2>6. CASE f # e
    <3>1. k \notin StandingSales(f)
      BY <2>6 DEF StandingSales, EventsOf
    <3>2. StandingSales(f)' = StandingSales(f) /\ entry'[f] = entry[f]
      BY <1>3, <2>2, <2>6, <3>1 DEF RowUndone
    <3>3. QED
      BY <2>1, <2>3, <3>2 DEF VisitSold
  <2>7. QED
    BY <2>5, <2>6
<1>13. \A i, j \in DOMAIN refunds' : refunds'[i] = refunds'[j] => i = j
  BY <1>7, <1>8 DEF SalesInv, SalesMatchVisits, Refunded
<1>14. QED
  BY <1>5, <1>10, <1>12, <1>13 DEF SalesInv, SalesMatchVisits, VisitSold

LEMMA SalesUndo ==
  ASSUME ConstantsOK, IInv, IInv', SalesInv, Undo
  PROVE  SalesInv'
<1> PICK k \in DOMAIN log :
      \/ UndoCheckIn(k) \/ UndoStart(k) \/ UndoComplete(k) \/ UndoTermination(k)
      \/ UndoReassign(k) \/ UndoServiceChange(k) \/ UndoReorder(k) \/ UndoPresent(k)
      \/ UndoReturn(k) \/ UndoStaffStatus(k)
  BY DEF Undo
<1> PICK e : e = log[k].entity
  OBVIOUS
<1>1. CASE UndoReorder(k) \/ UndoStaffStatus(k)
  BY <1>1, SalesUndoOther
<1>2. CASE UndoComplete(k)
  BY <1>2, SalesUndoComplete
<1>3. ASSUME log[k].type \in RowTypes, Undoable(k)
      PROVE  /\ e \in Entries /\ Shaped(log[k]) /\ LastOfItsRow(log, k)
             /\ StatusLeft(log, log[k]) # None => entry[e].status = StatusLeft(log, log[k])
  BY <1>3, UndoneFacts, UndoneIsLast, LastLeft
<1>4. log[k].type # "queue_entry_returned_to_waiting" => k \notin ReopenedVisits(e)
  BY DEF ReopenedVisits
<1>5. CASE UndoCheckIn(k)
  <2>1. log[k].type = "client_checked_in" /\ Undoable(k) /\ refunds' = refunds
    BY <1>5 DEF UndoCheckIn, Compensate
  <2>2. e \in Entries /\ Live(e)
    BY <1>3, <2>1 DEF RowTypes, SalesInv, CheckInsStand
  <2>3. RowUndone(e, "cancelled", entry[e].assigned, k)
    BY <1>5, UndoCheckInMoves
  <2>4. entry[e].status # "completed"
    BY <2>2 DEF Live
  <2>5. QED
    BY <1>4, <2>1, <2>2, <2>3, <2>4, SalesUndoRow
<1>6. CASE UndoStart(k)
  <2>1. log[k].type = "service_started" /\ Undoable(k) /\ refunds' = refunds
    BY <1>6 DEF UndoStart, Compensate
  <2>2. StatusLeft(log, log[k]) = "in_service" /\ None # "in_service"
    BY <2>1 DEF StatusLeft, ConstantsOK, RowStatus
  <2>3. e \in Entries /\ entry[e].status = "in_service" /\ log[k].from.status = "waiting"
    BY <1>3, <2>1, <2>2 DEF RowTypes, Shaped
  <2>4. \E assigned : RowUndone(e, "waiting", assigned, k)
    BY <1>6, <2>3, UndoStartMoves
  <2>5. QED
    BY <1>4, <2>1, <2>3, <2>4, SalesUndoRow
<1>7. CASE UndoTermination(k)
  <2>1. log[k].type \in TerminationTypes /\ Undoable(k) /\ refunds' = refunds
    BY <1>7 DEF UndoTermination, Compensate
  <2>2. StatusLeft(log, log[k]) \in {"cancelled", "no_show"} /\ None \notin {"cancelled", "no_show"}
    BY <2>1 DEF StatusLeft, ConstantsOK, RowStatus, TerminationTypes
  <2>3. /\ e \in Entries /\ entry[e].status # "completed" /\ log[k].from.status # "completed"
    BY <1>3, <2>1, <2>2 DEF RowTypes, Shaped
  <2>4. \E assigned : RowUndone(e, log[k].from.status, assigned, k)
    BY <1>7, UndoTerminationMoves
  <2>5. log[k].type # "queue_entry_returned_to_waiting"
    BY <2>1 DEF TerminationTypes
  <2>6. QED
    BY <1>4, <2>1, <2>3, <2>4, <2>5, SalesUndoRow
<1>8. CASE UndoReassign(k) \/ UndoServiceChange(k) \/ UndoPresent(k)
  <2>1. /\ log[k].type \in {"queue_entry_reassigned", "queue_entry_service_changed", "queue_entry_present_toggled"}
        /\ Undoable(k) /\ refunds' = refunds
    BY <1>8 DEF UndoReassign, UndoServiceChange, UndoPresent, Compensate
  <2>2. e \in Entries
    BY <1>3, <2>1 DEF RowTypes
  <2>3. \E assigned : RowUndone(e, entry[e].status, assigned, k)
    BY <1>8, UndoReassignMoves, UndoServiceChangeMoves, UndoPresentMoves
  <2>4. QED
    BY <1>4, <2>1, <2>2, <2>3, SalesUndoRow
<1>9. CASE UndoReturn(k)
  <2>1. /\ log[k].type = "queue_entry_returned_to_waiting" /\ Undoable(k) /\ refunds' = refunds
        /\ ~AlreadyUndone(k)
    BY <1>9 DEF UndoReturn, Compensate, Undoable
  <2>2. StatusLeft(log, log[k]) = "waiting" /\ None # "waiting"
    BY <2>1 DEF StatusLeft, ConstantsOK, RowStatus
  <2>3. e \in Entries /\ entry[e].status = "waiting"
    BY <1>3, <2>1, <2>2 DEF RowTypes
  <2>4. \E assigned : RowUndone(e, log[k].from.status, assigned, k)
    BY <1>9, UndoReturnMoves
  <2>5. k \in ReopenedVisits(e) <=> log[k].from.status = "completed"
    BY <2>1 DEF ReopenedVisits, EventsOf
  <2>6. QED
    BY <2>1, <2>3, <2>4, <2>5, SalesUndoRow
<1>10. QED
  BY <1>1, <1>2, <1>5, <1>6, <1>7, <1>8, <1>9

LEMMA SalesServe ==
  ASSUME ConstantsOK, IInv, IInv', SalesInv, Serve
  PROVE  SalesInv'
<1>1. ASSUME NEW e \in Entries, NEW s \in Staff, NEW svc \in Services, NEW n \in Notes, Start(e, s, svc, n)
      PROVE  SalesInv'
  BY <1>1, StartMoves, SalesAfterRow DEF Start, IInv
<1>2. ASSUME NEW e \in Entries, NEW svc \in Services, ChangeService(e, svc)
      PROVE  SalesInv'
  <2>1. RowLogged(e, entry[e].status, entry[e].assigned, "queue_entry_service_changed", None)
    BY <1>2, ChangeServiceMoves DEF IInv
  <2>2. refunds' = refunds
    BY <1>2 DEF ChangeService
  <2>3. QED
    BY <2>1, <2>2, SalesAfterRow
<1>3. ASSUME NEW e \in Entries, NEW status, NEW type \in TerminationTypes, NEW abandoned, NEW allowed,
             status # "completed", allowed \in SUBSET {"waiting", "in_service"},
             Terminate(e, status, type, allowed, abandoned)
      PROVE  SalesInv'
  <2>1. entry[e].status # "completed" /\ refunds' = refunds
    BY <1>3 DEF Terminate
  <2>2. RowLogged(e, status, entry[e].assigned, type, entry[e].status)
    BY <1>3, TerminateMoves DEF IInv
  <2>3. type \notin {"service_completed", "undone", "client_checked_in", "queue_entry_returned_to_waiting"}
    BY DEF TerminationTypes
  <2>4. QED
    BY <1>3, <2>1, <2>2, <2>3, SalesAfterRow
<1>4. ASSUME NEW e \in Entries, NoShow(e) \/ Cancel(e) \/ PublicCancel(e) \/ Abandon(e)
      PROVE  SalesInv'
  BY <1>3, <1>4 DEF NoShow, Cancel, PublicCancel, Abandon, TerminationTypes
<1>5. ASSUME NEW e \in Entries, NEW s \in Staff, Reassign(e, s)
      PROVE  SalesInv'
  <2>1. RowLogged(e, entry[e].status, s, "queue_entry_reassigned", None)
    BY <1>5, ReassignMoves DEF IInv
  <2>2. refunds' = refunds
    BY <1>5 DEF Reassign
  <2>3. QED
    BY <2>1, <2>2, SalesAfterRow
<1>6. ASSUME NEW e \in Entries, NEW position \in {"top", "original"}, ReturnToWaiting(e, position)
      PROVE  SalesInv'
  <2>1. CASE entry[e].status = "completed"
    BY <1>6, <2>1, SalesReopen
  <2>2. CASE entry[e].status # "completed"
    <3>1. RowLogged(e, "waiting", None, "queue_entry_returned_to_waiting", entry[e].status)
      BY <1>6, ReturnMoves DEF IInv
    <3>2. refunds' = refunds
      BY <1>6 DEF ReturnToWaiting
    <3>3. QED
      BY <2>2, <3>1, <3>2, SalesAfterRow
  <2>3. QED
    BY <2>1, <2>2
<1>7. QED
  BY <1>1, <1>2, <1>4, <1>5, <1>6, SalesComplete DEF Serve

LEMMA SalesNext ==
  ASSUME ConstantsOK, IInv, SalesInv, [Next]_vars
  PROVE  SalesInv'
<1>1. IInv'
  BY NextInv
<1>2. CASE Arrive
  <2>1. ASSUME NEW a \in Appointments, NEW e \in Entries, CheckInAppointment(a, e)
        PROVE  SalesInv'
    <3>1. RowsKept /\ Live(e) /\ Records(Arriving, e) /\ refunds' = refunds
      BY <2>1, CheckInAppointmentMoves DEF IInv
    <3>2. Arriving \cap {"service_completed", "undone", "queue_entry_returned_to_waiting"} = {}
      BY DEF Arriving
    <3>3. QED
      BY <1>1, <3>1, <3>2, SalesAfterKept
  <2>2. ASSUME NEW e \in Entries, Arrives(e)
        PROVE  SalesInv'
    BY <1>1, <2>2, SalesAfterArrival
  <2>3. QED
    BY <1>2, <2>1, <2>2, CheckInMoves, MaterializeMoves, CheckInEarlyMoves DEF Arrive, IInv
<1>3. ASSUME RowsKept, log' = log, refunds' = refunds
      PROVE  SalesInv'
  <2>1. Records({}, None)
    BY <1>3, NoEvent
  <2>2. QED
    BY <1>1, <1>3, <2>1, SalesAfterKept
<1>4. CASE Arrange
  <2>1. FlagRows \subseteq Entries
    BY DEF ConstantsOK
  <2>2. ASSUME NEW pos \in DraggedLists, Reorder(pos)
        PROVE  SalesInv'
    BY <1>1, <2>2, ReorderMoves, SalesAfterKept
  <2>3. ASSUME NEW e \in FlagRows, NEW flag \in BOOLEAN, TogglePresent(e, flag)
        PROVE  SalesInv'
    <3>1. RowLogged(e, entry[e].status, entry[e].assigned, "queue_entry_present_toggled", None)
      BY <2>1, <2>3, TogglePresentMoves DEF IInv
    <3>2. refunds' = refunds /\ e \in Entries
      BY <2>1, <2>3 DEF TogglePresent
    <3>3. QED
      BY <1>1, <3>1, <3>2, SalesAfterRow
  <2>4. ASSUME NEW e \in FlagRows, NEW flag, NEW n,
               ToggleReady(e, flag) \/ SetLateArrival(e, flag) \/ UpdateServiceNotes(e, n)
        PROVE  SalesInv'
    BY <1>3, <2>1, <2>4, EditMoves DEF IInv
  <2>5. QED
    BY <1>4, <2>2, <2>3, <2>4 DEF Arrange
<1>5. CASE Clock
  <2>1. ASSUME NEW s \in Staff, Deactivate(s)
        PROVE  SalesInv'
    BY <1>3, <2>1 DEF Deactivate, RowsKept, SameGuest
  <2>2. ASSUME NEW s \in ClockStaff, NEW status, ClockIn(s) \/ SetStaffStatus(s, status)
        PROVE  SalesInv'
    <3>1. entry' = entry /\ Records(StaffTypes, s) /\ refunds' = refunds
      BY <2>2, ClockMoves DEF ConstantsOK, IInv
    <3>2. RowsKept
      BY <3>1 DEF RowsKept, SameGuest
    <3>3. /\ StaffTypes \cap {"service_completed", "undone", "queue_entry_returned_to_waiting"} = {}
          /\ "client_checked_in" \notin StaffTypes
      BY DEF StaffTypes
    <3>4. QED
      BY <1>1, <3>1, <3>2, <3>3, SalesAfterKept
  <2>3. QED
    BY <1>5, <2>1, <2>2 DEF Clock
<1>6. CASE UNCHANGED vars
  BY <1>3, <1>6 DEF vars, RowsKept, SameGuest
<1>7. QED
  BY <1>1, <1>2, <1>4, <1>5, <1>6, SalesServe, SalesUndo DEF Next

LEMMA SalesInit ==
  ASSUME ConstantsOK, Init
  PROVE  SalesInv
<1>1. DOMAIN log = {} /\ DOMAIN refunds = {}
  BY DEF Init
<1>2. CheckInsStand /\ RefundsAreUndone
  BY <1>1 DEF CheckInsStand, RefundsAreUndone
<1>3. ASSUME NEW e \in Entries
      PROVE  VisitSold(e)
  <2>1. StandingSales(e) = {} /\ ReopenedVisits(e) = {} /\ entry[e].status # "completed"
    BY <1>1 DEF StandingSales, ReopenedVisits, EventsOf, Init, AbsentRow
  <2>2. QED
    BY <2>1, FS_EmptySet DEF VisitSold
<1>4. QED
  BY <1>1, <1>2, <1>3 DEF SalesInv, SalesMatchVisits, VisitSold

\* A visit has one sale that is not refunded when it is completed, none otherwise, and one
\* more for every time it was sent back after its checkout; no sale is refunded twice by
\* undo, for any number of visits and events.
THEOREM SalesCorrect == Spec => []SalesMatchVisits
<1>1. Init => SalesInv
  BY SalesInit, ConstantsOK
<1>2. IInv /\ SalesInv /\ [Next]_vars => SalesInv'
  BY SalesNext, ConstantsOK
<1>3. SalesInv => SalesMatchVisits
  BY DEF SalesInv
<1>4. QED
  BY <1>1, <1>2, <1>3, Inductive, PTL DEF Spec

=============================================================================
