SPECIFICATION Spec
CONSTANTS
  None = None
  Entries = {e1}
  Staff = {barber1}
  Clients = {alice}
  Appointments = {}
  Scheduled = {barber1}
  Services = {haircut}
  Notes = {blank}
  FlagRows = {}
  DragRows = {}
  ClockStaff = {}
  MaxEvents = 4
  ApptClient <- OneClientBooksAll
  Forms <- GuestsOnly
  Positions <- Places
PROPERTIES
  UndoReseatsBarber
