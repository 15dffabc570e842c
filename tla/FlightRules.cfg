\* Two guests, by either service, and everything that can end their flights.
CONSTANTS
  m1 = m1
  m2 = m2
  NoOwner = NoOwner
  Owners = {m1, m2}
  Modes = {TRUE, FALSE}
  Capacity = 1
  Samples <- Views
  Outcomes = {"moved", "displacement"}
  Inputs = {"focused", "escape", "fresh", "key"}
  AcquireLimit = 0
  StepGap = 1
  LeaseLimit = 2
  MaxSkew = 1
SPECIFICATION FairSpec
INVARIANTS HooksFollowFlight PressOnce
PROPERTIES FlightsEnd KeepsPromise
CHECK_DEADLOCK FALSE
