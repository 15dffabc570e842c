CONSTANTS
  NoOwner = NoOwner
  Owners = {u1, u2}
  Renderers = {r1, r2}
  Lifetime = 1
  MaxTime = 3
  MaxEpoch = 2
  Guests = {u1, u2}
  NoGuest = NoOwner
  Addresses = {a1}
  NoAddress = NoOwner
  Names = {intro}
  Throttle = 1
  Freshness = 2
  RequestLimit = 2
  SkipAfter = 2
  MaxGeneration = 2
  MaxMovies = 2
SPECIFICATION LeasesSpec
SYMMETRY Symmetry
PROPERTIES EvidenceIsTrue SkipsItsMovie
CHECK_DEADLOCK FALSE
