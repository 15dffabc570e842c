\* Two packages in one VM that compete for one reference; their calls tear things
\* down; replaced packages, worlds and owners.
CONSTANTS
  g1 = g1
  w1 = w1
  w2 = w2
  o1 = o1
  o2 = o2
  p1 = p1
  p2 = p2
  None = None
  Free = Free
  Game = Game
  Lost = Lost
  Cleaned = Cleaned
  Ids = {p1, p2}
  Capacity = 2
  Vms = {g1}
  Worlds = {w1, w2}
  Owners = {o1, o2}
  References = {1}
  MaxSerial = 2
  MaxTeardowns = 1
SPECIFICATION Spec
SYMMETRY Symmetry
CHECK_DEADLOCK FALSE
INVARIANTS RegistryMatchesSlots LivesInTurn StaysInItsVm
