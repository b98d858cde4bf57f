SPECIFICATION OfficeSpec
CONSTANTS
  r1 = r1
  r2 = r2
  r3 = r3
  card = card
  cash = cash
  t1 = t1
  t2 = t2
  t3 = t3
  v1 = v1
  v2 = v2
  c1 = c1
  c2 = c2
  c3 = c3
  a1 = a1
  a2 = a2
  a3 = a3
  cut = cut
  wash = wash
  b1 = b1
  b2 = b2
  i1 = i1
  i2 = i2
  i3 = i3
  p1 = p1
  p2 = p2
  g1 = g1
  g2 = g2
  g3 = g3
  h1 = h1
  h2 = h2
  ann = ann
  bob = bob
  n1 = n1
  n2 = n2
  n3 = n3
  Barbers = {b1, b2}
  Nobody = Nobody
  Refunds = {r1, r2, r3}
  CardSales = {card}
  CashSales = {cash}
  Asks <- MCAsks
  SaleTotal <- MCTotal
  StartFloat = 3
  LastDay = 2
  LastSale = 1
  LastStamp = 4
  Tablets = {t1, t2, t3}
  Visits = {v1, v2}
  Jobs <- MCJobs
  Callers = {c1, c2, c3}
  Appointments = {a1, a2, a3}
  AnyBarber = AnyBarber
  Services = {cut, wash}
  DayLength = 4
  Horizon = 1
  Lead = 1
  Interval = 1
  Recurring <- MCRecurring
  Exceptions <- MCExceptions
  SpecialHours <- MCSpecialHours
  Calls <- MCCalls
  Calendars <- MCCalendars
  Durations = {2}
  Intakes = {i1, i2, i3}
  Regulars = {p1, p2}
  Names = {ann, bob}
  Numbers = {n1, n2, n3}
  NoNumber = NoNumber
  Unasked = Unasked
  Wishes <- MCWishes
  Directory <- MCDirectory
  Tabs = {t1, t2}
  Guests = {g1, g2, g3}
  Kits <- MCKits
  Favoured <- MCFavoured
  Lossy = {t1}
  Outstanding = 1
  Shifts <- MCShifts
  Phones = {h1, h2}
  Folk = {ann, bob}
  Times = {1}
  MaxSpots = 2
  MaxAppts = 1
  Occasions <- MCOccasions
INVARIANTS
  OfficeTypeOK
  RefundsFit
  PaidBackIsAccounted
  
  BusyAloneOnlyByOverlap
  CycleNeedsReturnOrReassign
  NoDoubleBooking
  FloorFollowsCalendar
  DirectoryHolds
  
  JoinPageHolds
PROPERTIES
  ImplementsEventLog
  RequestsAnswered
  FinalUnlessReadBefore
  BoardCatchesUp
CHECK_DEADLOCK FALSE
