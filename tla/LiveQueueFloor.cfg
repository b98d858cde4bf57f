SPECIFICATION VisitsSpec
CONSTANTS
  None = None
  e1 = e1
  barber1 = barber1
  alice = alice
  haircut = haircut
  blank = blank
  Entries = {e1, e2}
  Staff = {barber1, barber2}
  Clients = {alice, bob}
  Appointments = {a1}
  Scheduled = {barber1, barber2}
  Services = {haircut, shave}
  Notes = {blank, fade}
  FlagRows = {e1}
  DragRows = {e1}
  ClockStaff = {barber1}
  MaxEvents = 5
  ApptClient <- OneClientBooksAll
  Forms <- GuestsAndClients
  Positions <- Places
INVARIANTS
  TypeOK
  ServingHasBarber
  StatusMatchesLog
  OneClientPerChair
  OneSpotUnlessOneCameBack
  SalesMatchVisits

  
