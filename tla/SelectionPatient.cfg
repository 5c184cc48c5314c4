\* Two operators who wait for their answers.
SPECIFICATION SelectionSpec
CONSTANTS
  c1 = c1  c2 = c2  c3 = c3  c4 = c4
  s1 = s1  s2 = s2
  u1 = u1  u2 = u2
  b1 = b1  b2 = b2
  k1 = k1  k2 = k2  k3 = k3  k4 = k4
  None = None
  Calls <- ThreeCalls
  Slots <- TwoSlots
  Operators <- TwoOperators
  Browsers <- TwoPages
  UserOf <- OneEach
  LockIds <- FourIds
  TTL = 2
  Threshold = 1
  OneAtATime = TRUE
  MayFail = FALSE
  Patient = TRUE
  Ordered = TRUE
  MayLeave = FALSE
SYMMETRY Symmetry
INVARIANTS SelectionTypeOK ScreensAgree
PROPERTIES LocksLive
