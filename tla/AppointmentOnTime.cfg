SPECIFICATION ManagementSpec
CONSTANTS
  s1 = s1
  s2 = s2
  s3 = s3
  payRow = payRow
  week = week
  mon = mon
  tue = tue
  dflt = dflt
  date = date
  ch1 = ch1
  ch2 = ch2
  cut = cut
  wash = wash
  dye = dye
  shave = shave
  e1 = e1
  e2 = e2
  e3 = e3
  k1 = k1
  k2 = k2
  h1 = h1
  h2 = h2
  h3 = h3
  q1 = q1
  q2 = q2
  q3 = q3
  d1 = d1
  d2 = d2
  x1 = x1
  x2 = x2
  m1 = m1
  m2 = m2
  m3 = m3
  m4 = m4
  u1 = u1
  u2 = u2
  u3 = u3
  b1 = b1
  b2 = b2
  o1 = o1
  o2 = o2
  t1 = t1
  t2 = t2
  Savers = {s1, s2, s3}
  Slots = {payRow, week, mon, tue, dflt, date}
  Articles = {cut, wash, dye}
  NoArticle = NoArticle
  Changes = {ch1, ch2}
  NoChange = NoChange
  Orders <- MCOrders
  Standing <- MCStanding
  Editors = {e1, e2, e3}
  Shops = {x1, x2}
  Columns = {k1, k2}
  Settable = {0, 1, 2}
  Factory <- MCFactory
  NoRow = NoRow
  Original = Original
  Edits <- MCEdits
  Starts <- MCStarts
  Hands = {h1, h2, h3}
  Intervals = {2, 3}
  LastWipe = 4
  Duties <- MCDuties
  Requests = {q1, q2, q3}
  Connections = {d1, d2}
  Places = {x1, x2}
  NoPlace = NoPlace
  NoConn = NoConn
  Batches <- MCBatches
  Members = {m1, m2, m3, m4}
  People = {u1, u2, u3}
  Branches = {x1, x2}
  PersonOf <- MCPersonOf
  BranchOf <- MCBranchOf
  FirstRole <- MCFirstRole
  Movable = {m2, m4}
  NewRoles = {"staff", "location_manager"}
  SessionLength = 2
  LastHour = 2
  NoToken = NoToken
  Roster <- MCRoster
  NoBarber = NoBarber
  Never = Never
  Works = {cut, shave}
  Catalog <- MCCatalog
  SampleLimit = 3
  FewestReadings = 2
  OutlierMultiple = 2
  CatchUp = 1
  MaxWait = 1
  Leaning = 1
  Lines <- MCLines
  Floors <- MCFloors
  Histories <- MCHistories
  LastMinute = 1
  Crew = {b1, b2}
  FrontDesk = {}
  WeekDays = {0}
  DayCount = 2
  Shifts <- MCShifts
  NoShift = NoShift
  NoWord = NoWord
  OpenHours <- MCOpen
  SpecialDays <- MCSpecial
  Reservations <- MCReservations
  MinimumCoverage = 1
  ChairCount = 1
  Barbers = {b1, b2}
  Nobody = Nobody
  Sales = {o1, o2}
  Ticket <- MCTicket
  Items <- MCItems
  Item <- MCItem
  Premium = "premium"
  PremiumToStaff = FALSE
  Unsold = Unsold
  Pays <- MCPays
  Hired <- MCHired
  Weekly <- MCWeekly
  Excepted <- MCExcepted
  Periods <- MCPeriods
  DayLength = 2
  LastClock = 3
  MaxRates = 3
  MaxRuns = 2
  Wests = {0}
  Branchs = {x1, x2}
  DaySales = {t1, t2}
  Bill <- MCBill
  Posts = {m1, m2, m3}
  PostOf <- MCPostOf
  NoPost = NoPost
  Terms <- MCTerms
  FirstTerms <- MCFirstTerms
  ShiftMinutes <- MCShiftMinutes
  MaxTermChanges = 1
  wax = wax
  ten = ten
  Menu = {cut, wash}
  Goods = {wax}
  Codes = {ten}
  NoCode = NoCode
  Gone = Gone
  Deputy = b2
  Sitting <- MCSitting
  Tariff <- MCTariff
  Revisions <- MCRevisions
  MaxTouches = 3
INVARIANT
  ProtectedStartsOnTime
CHECK_DEADLOCK FALSE
