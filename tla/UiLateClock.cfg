\* The page's poll reads the clock in the engine's hook, tries the lock after it,
\* and finds a command that a mod has queued in between.
CONSTANTS
  o1 = o1
  o2 = o2
  none = none
  warning = warning
  menu = menu
  banner = banner
  map = map
  NoOwner = NoOwner
  NoScreen = none
  ContinueScreens = {warning}
  Owners = {o1}
  Screens = {none, warning}
  Targets = {}
  LeaseSlots = 0
  RingSize = 1
  FreshFor = 1
  ExpireAfter = 1
  Durations = {}
  Skew = 1
  MaxPage = 1
  MaxGeneration = 2
  MaxSequence = 2
  MaxCommand = 1
SPECIFICATION Spec
CHECK_DEADLOCK FALSE
PROPERTIES ExpiredOnlyAfterDeadline
