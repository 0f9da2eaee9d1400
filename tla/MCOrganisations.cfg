SPECIFICATION MCSpec
CONSTANTS
  f1 = f1
  f2 = f2
  c1 = c1
  c2 = c2
  k1 = k1
  k2 = k2
  Films = {f1, f2}
  Companies = {c1, c2}
  Collections = {k1, k2}
  About = {"pair", "burst", "franchise", "story", "survivor"}
  Quarantine = 1
  Lookback = 3
  Window = 1
  Burst = 2
  MaxTime = 4
  MaxRows = 4
  MaxStories = 1
  MaxFaults = 1
SYMMETRY Symmetry
INVARIANTS  DeparturesCorrect
 
CHECK_DEADLOCK FALSE
