\* One request at a time: the settlement of an order and its booking.
SPECIFICATION ClubSpec
CONSTANTS
  b1 = b1
  o1 = o1
  o2 = o2
  a1 = a1
  a2 = a2
  r1 = r1
  w1 = w1
  w2 = w2
  None = None
  Workers <- OneWorker
  Bookings <- OneBooking
  References <- OrderAndBooking
  Accounts <- TwoAccounts
  Active <- OneAccount
  Payers <- OpenPayer
  Amounts <- OnePrice
  MaxEntries = 4
  OrderIds <- OneOrder
  Requests <- OneRequest
  Customers <- OneAccount
  Links <- ForBooking
  Totals <- OnePrice
INVARIANTS
  RefundFollowsPayment
