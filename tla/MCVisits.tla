------------------------------ MODULE MCVisits ------------------------------
(* Three instances of LiveQueue in one: everything that can be edited about *)
(* one guest's visit, two rows of a client whose appointment is due, and    *)
(* two walk-ins with two barbers.                                           *)
EXTENDS MCLiveQueue

CONSTANTS e1, barber1, alice, haircut, blank

VARIABLE lane

GuestsAndClients == GuestsOnly \cup WalkIns

\* What the tables hold in each lane.
OneVisit ==
  /\ \A e \in Entries : entry[e] # AbsentRow => e = e1 /\ entry[e].client = None /\ entry[e].link = None
  /\ Len(log) < MaxEvents - 1

\* The rows are alike: e1 is inserted first.
PlainRows ==
  \A e \in Entries :
    entry[e] # AbsentRow => /\ entry[e1] # AbsentRow
                            /\ entry[e].client # None /\ entry[e].service = haircut
                            /\ entry[e].notes \in {blank, None}
                            /\ ~entry[e].late /\ entry[e].ready = None

OneBarber ==
  /\ \A b \in Staff \ {barber1} : staff[b] = "off"
  /\ \A e \in Entries : entry[e] # AbsentRow => /\ entry[e].client \in {alice, None}
                                            /\ entry[e].assigned \in {barber1, None}
  /\ Len(log) < MaxEvents

\* The barber's clock is set at most once next to the bookings.
OneClocking == Cardinality({k \in DOMAIN log : log[k].type \in StaffTypes}) <= 1

\* Barbers and clients are alike: barber1 works when barber2 does, and e1 is not bob's.
AlikeNames ==
  /\ \A b \in Staff : staff[b] = "available" => staff[barber1] # "off"
  /\ entry[e1].client \in {alice, None}

InLane ==
  CASE lane = "visit"    -> OneVisit /\ OneBarber
    [] lane = "bookings" -> PlainRows /\ OneBarber /\ OneClocking
    [] lane = "floor"    -> PlainRows /\ AlikeNames /\ \A e \in Entries : entry[e].link = None

VisitsInit ==
  /\ Init
  /\ lane \in {"visit", "bookings", "floor"}
  /\ InLane
  /\ \A a \in Appointments : appt[a].service = haircut
  /\ lane # "bookings" => \A a \in Appointments : appt[a].staff = None

Edits == {"queue_entry_service_changed", "queue_entry_reordered", "queue_entry_present_toggled"}

Skipped ==
  CASE lane = "visit"    -> StaffTypes
    [] lane = "bookings" -> Edits
    [] lane = "floor"    -> Edits \cup StaffTypes

\* A row changes only with an event, as flags, notes and lateness are edited in one lane.
EventsOnly == log' = log => \A e \in Entries : Existing(e) => entry'[e] = entry[e]

VisitsNext ==
  /\ Next
  /\ UNCHANGED lane
  /\ InLane'
  /\ lane # "bookings" => UNCHANGED appt
  /\ lane # "visit" => EventsOnly
  /\ \A k \in DOMAIN log' : log'[k].type \notin Skipped

VisitsSpec == VisitsInit /\ [][VisitsNext]_<<vars, lane>>
=============================================================================
