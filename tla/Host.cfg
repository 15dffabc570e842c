\* Three guests of two Runtimes that share their services, and the installer.
CONSTANTS
  Runtimes = {"worker", "tool"}
  Workers = {"worker"}
  Order <- TwoHosts
  Caps <- Asks
  HasTick = {"cat", "dog"}
  HasStop = {"cat"}
  Used = {"motion_set", "list_publish", "tutorial_show"}
  Limit <- OneEach
  MaxOwner = 3
  Required = {"runtime"}
  Extras = {"page"}
  Builds <- TwoBuilds
  Commands <- Options
  MaxRuns = 3
  MaxEdits = 1
SPECIFICATION HostSpec
INVARIANTS ChargedForThisCall InstallationIsSafe ModesAgree
PROPERTIES GuestsOwnWhatIsTheirs EveryGuestTicks
CHECK_DEADLOCK FALSE
