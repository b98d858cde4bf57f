-------------------------------- MODULE Shop --------------------------------
(***************************************************************************)
(* What the components of one shop share: its barbers, who are the rows of *)
(* location_staff, the value that stands for SQL's NULL where a barber     *)
(* could be, and what an update makes of a row.                            *)
(***************************************************************************)
CONSTANTS
  Barbers,  \* location_staff
  Nobody    \* no barber

ASSUME NobodyIsNoBarber == Nobody \notin Barbers

\* A row after an update of some of its columns.
Onto(columns, old) ==
  [f \in DOMAIN columns \cup DOMAIN old |-> IF f \in DOMAIN columns THEN columns[f] ELSE old[f]]
=============================================================================
