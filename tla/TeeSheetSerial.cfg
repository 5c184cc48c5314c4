\* One worker: requests one after the other; the slot at t4 is closed.
SPECIFICATION Spec
CONSTANTS
  Workers = {w1}
  BookingIds = {b1, b2, b3}
  RowIds = {r1, r2, r3, r4}
  Persons = {p1, p2}
  p1 = p1
  p2 = p2
  Guest = Guest
  Lines = {l1}
  l1 = l1
  Times = {t1, t2, t3, t4}
  t1 = t1
  t2 = t2
  t3 = t3
  t4 = t4
  Courses = {cA}
  cA = cA
  CourseLines = {}
  LineCourse <- OneCourse
  DayOf <- Days
  Capacity <- TwoPerSlot
  Closed <- FourthClosed
  CourseHoles <- Eighteen
  HolesAsked = {18}
  Parties <- PairAndGuest
  DayLimit = 1
  FutureLimit = 2
  None = None
SYMMETRY Ids
INVARIANTS
  TypeOK
  SlotsRespected
  BookingsConsistent
PROPERTIES
  DayNeverChanges
  CreateWithinLimit
  FollowsLifecycle
