---------------------------- MODULE MCLiveQueue ----------------------------
(* Instances of LiveQueue small enough for TLC. *)
EXTENDS LiveQueue, TLC

\* Every appointment is booked by the same client.
OneClientBooksAll == [a \in Appointments |-> CHOOSE c \in Clients : TRUE]

\* The values of waiting_order: a check-in adds one at the bottom, a return one on top.
Places == -3 .. 3

Form(c, s, isAppt, present) ==
  [client |-> c, staff |-> s, isAppt |-> isAppt, present |-> present,
   service |-> CHOOSE svc \in Services : TRUE, notes |-> CHOOSE n \in Notes : TRUE]

WalkIns   == {Form(c, None, FALSE, TRUE) : c \in Clients}
Requests  == {Form(None, s, FALSE, TRUE) : s \in Staff}
LaterToday == {Form(None, s, TRUE, FALSE) : s \in Nullable(Staff)}
NoForms   == {}
GuestsOnly == {Form(None, None, FALSE, TRUE)}
GuestsAndRequests == GuestsOnly \cup Requests
RequestsAndLaterToday == Requests \cup LaterToday

\* Rows are alike; so are the barbers when all of them are on the schedule.
RowSymmetry   == Permutations(Entries)
FloorSymmetry == Permutations(Entries) \cup Permutations(Staff)
=============================================================================
