SPECIFICATION Spec
CONSTANTS
  quiet = quiet
  marker = marker
  key = key
  c1 = c1
  c2 = c2
  NoFile = NoFile
  Nothing = Nothing
  Configs <- MCConfigs
  Inputs <- MCInputs
  Marker = marker
  Typed <- Keys
  CheckpointCycle = 1
  Interval = 3
  QueueLimit = 1
  MaxCycles = 3
INVARIANTS TypeOK PairConsistent LastSaveKept
PROPERTY MarkerSavesOnce
