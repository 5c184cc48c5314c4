\* Two operators on one slot; requests and answers are lost, pages are left and crash.
SPECIFICATION FairSelectionSpec
CONSTANTS
  c1 = c1  c2 = c2  c3 = c3  c4 = c4
  s1 = s1  s2 = s2
  u1 = u1  u2 = u2
  b1 = b1  b2 = b2
  k1 = k1  k2 = k2  k3 = k3  k4 = k4
  None = None
  Calls <- TwoCalls
  Slots <- OneSlot
  Operators <- TwoOperators
  Browsers <- TwoPages
  UserOf <- OneEach
  LockIds <- TwoIds
  TTL = 2
  Threshold = 1
  OneAtATime = FALSE
  MayFail = TRUE
  Patient = TRUE
  Ordered = TRUE
  MayLeave = TRUE

INVARIANT OneLockPerSlot
PROPERTIES SelectionSettles AbandonedDecays
