\* Fair games: an unwanted package is released, a trial and a hold on physics end.
CONSTANTS
  g1 = g1
  w1 = w1
  o1 = o1
  o2 = o2
  p1 = p1
  b1 = b1
  light = light
  heavy = heavy
  Bodies = {b1}
  Values = {light, heavy}
  Durations = {1, 2}
  NoBody = NoBody
  NoValue = NoValue
  MaxTime = 3
  MaxIncarnations = 2
  MaxRewinds = 1
  None = None
  Free = Free
  Game = Game
  Lost = Lost
  Cleaned = Cleaned
SPECIFICATION EndingsSpec
CHECK_DEADLOCK FALSE
PROPERTIES RestorationIsOwed HoldsEnd UnwantedIsReleased
