\* What the game's callbacks feed, in seven parts.  The session is used by two guests,
\* for one selection, and sees one retirement; rejected commands are in Endings.
CONSTANTS
  x1 = x1
  x2 = x2
  x3 = x3
  Nobody = Nobody
  NoOwner = NoOwner
  Owners = {x1, x2}
  MaxSelections = 1
  MaxRetirements = 1
  MaxRejections = 0
  Writers = {x1, x2}
  MaxWrites = 3
  MaxWorlds = 1
  MaxEntity = 2
  MaxStatus = 1
  Guests = {x1, x2, x3}
  Layers = {"frame", "map", "sonar"}
  Offers <- AllOffers
  MaxSurfaces = 2
  MaxNotes = 3
  MaxQueue = 1
  MaxPage = 2
  MaxContext = 2
  MaxRevision = 2
SPECIFICATION EngineSpec
SYMMETRY Symmetry
INVARIANTS SkipsOnlyAreas SessionIsSound EventsAreCurrent FocusIsCurrent
PROPERTY ClaimsAreOrderly
CHECK_DEADLOCK FALSE
