CONSTANTS
  m1 = m1
  m2 = m2
  NoOwner = NoOwner
  Owners = {m1, m2}
  Players = {1, 2}
  Slots = {1, 2}
  Lifetime = 2
  MaxTime = 3
  Values = {0, 1}
  Initial = 0
  Rows = {1, 2}
  MaxQueued = 1
  MaxEvents = 1
  MaxRevision = 3
  MaxLists = 2
  MaxDocs = 2
  MaxRequests = 3
  MaxChanges = 2
  Senders = {m1}
  Capacity = 1
  Gap = 1
  Durations = {1}
  MaxMessages = 2
  MaxPage = 2
  MaxClock = 2
  MaxPolls = 2
  Askers = {m1, m2}
  Total = 8
  MaxTutorials = 2
  MaxContext = 2
SPECIFICATION ServicesSpec
INVARIANT HintIsRight
PROPERTIES ActsOnWhatWasSeen NoticesAreTrue
CHECK_DEADLOCK FALSE
