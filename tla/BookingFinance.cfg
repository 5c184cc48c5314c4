\* Two requests at a time, for one booking or for two, which may stop between their commits.
SPECIFICATION FinanceSpec
CONSTANTS
  b1 = b1
  b2 = b2
  a1 = a1
  a2 = a2
  w1 = w1
  w2 = w2
  None = None
  Workers <- TwoWorkers
  Bookings <- TwoBookings
  References <- TwoBookings
  Accounts <- AllAccounts
  Active <- OpenAccounts
  Payers <- OpenOrClosed
  Amounts <- TwoPrices
  MaxEntries = 4
SYMMETRY Alike
INVARIANTS
  FinanceTypeOK
  PaidAsPosted
  EntriesAnswer
PROPERTIES
  PaidUntilRefunded
