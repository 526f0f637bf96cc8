SPECIFICATION SumSpec
CONSTANTS
  Node = {n1, n2}
  Third = n3
  Ban = {b1}
  MaxSilence = 1
  MaxEpoch = 1
  MaxNet = 1
  MaxRounds = 0
  MaxChanges = 1
  MaxStops = 0
  GenModulus = 4
  Lossy = TRUE
  Away = {}
  Formed = FALSE
  KnownFirst = TRUE
  ReloadsOverlap = FALSE
INVARIANTS
  GrowsTogether
PROPERTIES
  SettingsSpread
CHECK_DEADLOCK FALSE
