\* One mod, commands from submission to the renderer's trigger and back.
CONSTANTS
  o1 = o1
  none = none
  warning = warning
  Unseen = Unseen
  NoAnswer = NoAnswer
  NoOwner = NoOwner
  NoScreen = none
  ContinueScreens = {warning}
  Owners = {o1}
  Screens = {none, warning}
  Targets = {}
  LeaseSlots = 0
  RingSize = 1
  FreshFor = 1
  ExpireAfter = 1
  Durations = {}
  Skew = 0
  MaxPage = 1
  MaxGeneration = 2
  MaxSequence = 4
  MaxCommand = 2
  MaxVisit = 1
SPECIFICATION ChannelSpec
CHECK_DEADLOCK FALSE
INVARIANTS ReceiptsTellTheTruth OncePerVisit
PROPERTIES TriggersItsScreen
