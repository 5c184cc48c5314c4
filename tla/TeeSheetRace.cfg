\* Two workers on one or two bookings of guests: their requests interleave.
SPECIFICATION Spec
CONSTANTS
  Workers = {w1, w2}
  BookingIds = {b1, b2}
  RowIds = {r1, r2, r3}
  Persons = {p1}
  p1 = p1
  p2 = p2
  Guest = Guest
  Lines = {l1}
  l1 = l1
  Times = {t1, t2}
  t1 = t1
  t2 = t2
  t3 = t3
  t4 = t4
  Courses = {cA}
  cA = cA
  CourseLines = {}
  LineCourse <- OneCourse
  DayOf <- Days
  Capacity <- OnlyFirst
  Closed <- Nothing
  CourseHoles <- Eighteen
  HolesAsked = {18}
  Parties <- GuestsOnly
  DayLimit = 2
  FutureLimit = 2
  None = None
SYMMETRY WorkersAndIds
INVARIANTS
  LogEndsInStatus
  CompletedWasCheckedIn
PROPERTY NeverReservedAgain
