\* Two mods contend for one lease slot and for the mailbox, on a thread whose
\* clock may lag behind the page's and the other way round;
\* receipts settle without any poll.
CONSTANTS
  o1 = o1
  o2 = o2
  none = none
  warning = warning
  menu = menu
  banner = banner
  map = map
  NoOwner = NoOwner
  NoScreen = none
  ContinueScreens = {warning}
  Owners = {o1, o2}
  Screens = {none, warning, menu}
  Targets = {banner, map}
  LeaseSlots = 1
  RingSize = 2
  FreshFor = 2
  ExpireAfter = 2
  Durations = {1, 2}
  Skew = 1
  MaxPage = 1
  MaxGeneration = 2
  MaxSequence = 2
  MaxCommand = 2
SPECIFICATION FairSpec
CHECK_DEADLOCK FALSE
INVARIANTS ReleasedOwnsNothing LeasesAreForThisScreen
PROPERTIES EveryReceiptSettles
