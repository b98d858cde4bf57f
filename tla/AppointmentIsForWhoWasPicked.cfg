SPECIFICATION JoinPageSpec
CONSTANTS
  h1 = h1
  h2 = h2
  ann = ann
  bob = bob
  Phones = {h1, h2}
  Folk = {ann, bob}
  Times = {1}
  MaxSpots = 2
  MaxAppts = 1
  Occasions <- MCOccasions
INVARIANTS
  AppointmentIsForWhoWasPicked
CHECK_DEADLOCK FALSE
