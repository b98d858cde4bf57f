SPECIFICATION Spec
CONSTANTS
  None = None
  Entries = {e1, e2}
  Staff = {barber1}
  Clients = {alice}
  Appointments = {}
  Scheduled = {barber1}
  Services = {haircut}
  Notes = {blank}
  FlagRows = {}
  DragRows = {}
  ClockStaff = {}
  MaxEvents = 4
  ApptClient <- OneClientBooksAll
  Forms <- WalkIns
  Positions <- Places
SYMMETRY RowSymmetry
INVARIANTS
  OneLiveSpotPerClient
