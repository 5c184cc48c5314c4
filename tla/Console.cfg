\* One page of the browser at a time.
SPECIFICATION ConsoleSpec
CONSTANTS
  \* BrowserSession
  Users = {"ann", "bob"}
  ClubOf <- HomeClubs
  Calls = {1, 2}
  Signings = 3
  Mishaps = 1
  Settled = TRUE
  Nobody = Nobody
  \* Router
  People = {"sue", "tom", "una", "vic"}
  IsSuperadmin <- Superadmins
  RoleIn <- RolesIn
  ModulesOf <- Enabled
  NoOne = NoOne
  \* SheetView, SheetDay
  Cells <- SheetCells
  LaneOf <- OneHole
  TimeOf <- TwoTimes
  Seats <- FourSeats
  Shut = {}
  Days = {"mon", "tue"}
  Booked <- TwoBooked
  Requests = {"r1", "r2"}
  MaxDeeds = 2
  Late = 2
  Missing = Missing
  \* SheetDrawer
  Bookings = {"b1", "b2"}
  SlotOf <- OneSlotOf
  PartyOf <- OneAndFour
  OpenSlots = {"s1"}
  Filters = {"no_shows"}
  MaxSaves = 1
  Nowhere = Nowhere
  \* ParticipantSwap
  SlotTimes = {"s1", "s2"}
  RoomIn <- TwoSeats
  Columns = 2
  Party <- PairAndOne
  Passers = {"dan"}
  MaxMoves = 3
  Patient = TRUE
  Nil = Nil
  \* TeeSheetPage
  Courses <- TwoCourses
  DayRange <- OneDayOn
  Intervals = {8}
  Rows <- RowIds
  RowsAt <- RowsOfDay
  Barred = {"x1", "x2"}
  Due = {"r1"}
  NoRow = NoRow
  \* GolfSettings
  RuleSets = {"g1", "g2"}
  Matrices = {"m1", "m2"}
  Wordings = {"t1", "t2"}
  Unset = Unset
  MaxWrites = 4
  Founded = {"g1", "m1"}
  \* ClubsDesk
  ClubIds = {"c1", "c2"}
  Opened = {"c1", "c2"}
  WentLive = {"c1"}
  Details = {"d1"}
  NoClub = NoClub
  MaxPosts = 2
  \* MembersDesk
  PersonIds = {"p1", "p2"}
  Enrolled = {"p1"}
  Says = {"v1", "v2"}
  NewTerms = "v1"
  Codes = {"a1"}
  Blank = Blank
  MaxTyped = 2
  MaxSubmits = 2
  MaxForeign = 1
  \* CloseDay
  Periods = {"june"}
  BatchNos = {"b1", "b2"}
  Profiles = {"f1"}
  NoBatch = NoBatch
  MaxEvents = 4
INVARIANTS
  ConsoleTypeOK
  CookieSpentOnce
  WaitingIsAsking
  GuardIsRight
  NobodyTwice
  PartySentIsItsOwn
  PointsAtARow
  OnlyPublishedInForce
  DetailsStayWithTheirClub
  SavesAreWholeAndTheirOwn
  DriftIsNotExported
PROPERTIES
  SignedOutForAReason
  SwapTells
  SheetCatchesUp
CHECK_DEADLOCK FALSE
