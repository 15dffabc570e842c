\* One mod, two pages and every order of polls, reports and reloads.
CONSTANTS
  o1 = o1
  o2 = o2
  none = none
  warning = warning
  menu = menu
  banner = banner
  map = map
  NoOwner = NoOwner
  NoScreen = none
  ContinueScreens = {warning}
  Owners = {o1}
  Screens = {none, warning}
  Targets = {}
  LeaseSlots = 0
  RingSize = 2
  FreshFor = 1
  ExpireAfter = 1
  Durations = {}
  Skew = 0
  MaxPage = 2
  MaxGeneration = 3
  MaxSequence = 3
  MaxCommand = 3
SPECIFICATION Spec
CHECK_DEADLOCK FALSE
INVARIANTS ReceiptsAreKept OfferedOnceOrWithdrawn CommandIsCurrent
PROPERTIES ReportsSettleOnce
