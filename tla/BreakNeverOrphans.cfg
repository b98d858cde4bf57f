SPECIFICATION Spec
CONSTANTS
  None = None
  Entries = {e1}
  Staff = {barber1}
  Clients = {alice}
  Appointments = {}
  Scheduled = {barber1}
  Services = {haircut}
  Notes = {blank}
  FlagRows = {}
  DragRows = {}
  ClockStaff = {barber1}
  MaxEvents = 4
  ApptClient <- OneClientBooksAll
  Forms <- GuestsOnly
  Positions <- Places
PROPERTIES
  BreakNeverOrphans
