\* Two workers, capacity 2: the documented guarantee that they cannot double-book.
SPECIFICATION Spec
CONSTANTS
  Workers = {w1, w2}
  BookingIds = {b1, b2}
  RowIds = {r1, r2, r3, r4}
  Persons = {p1}
  p1 = p1
  p2 = p2
  Guest = Guest
  Lines = {l1}
  l1 = l1
  Times = {t1}
  t1 = t1
  t2 = t2
  t3 = t3
  t4 = t4
  Courses = {cA}
  cA = cA
  CourseLines = {}
  LineCourse <- OneCourse
  DayOf <- OneDay
  Capacity <- TwoPerSlot
  Closed <- Nothing
  CourseHoles <- Eighteen
  HolesAsked = {18}
  Parties <- OnlyWithGuest
  DayLimit = 2
  FutureLimit = 2
  None = None
SYMMETRY WorkersAndIds
INVARIANT CapacityRespected
