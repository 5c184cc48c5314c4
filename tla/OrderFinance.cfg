\* Two requests at a time for two orders and the booking of one member.
SPECIFICATION ClubSpec
CONSTANTS
  b1 = b1
  o1 = o1
  o2 = o2
  a1 = a1
  a2 = a2
  r1 = r1
  w1 = w1
  w2 = w2
  None = None
  Workers <- TwoWorkers
  Bookings <- OneBooking
  References <- OrdersAndBooking
  Accounts <- TwoAccounts
  Active <- OneAccount
  Payers <- NoPayer
  Amounts <- OnePrice
  MaxEntries = 3
  OrderIds <- TwoOrders
  Requests <- OneRequest
  Customers <- OneAccount
  Links <- ForBooking
  Totals <- OnePrice
SYMMETRY Alike
INVARIANTS
  OrderTypeOK
  OrdersSound
PROPERTIES
  OrderFollowsLifecycle
