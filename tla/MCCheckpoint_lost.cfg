SPECIFICATION Spec
CONSTANTS
  quiet = quiet
  marker = marker
  key = key
  c1 = c1
  c2 = c2
  NoFile = NoFile
  Nothing = Nothing
  Configs <- OneConfig
  Inputs <- MCInputs
  Marker = marker
  Typed <- NoKeys
  CheckpointCycle = 1
  Interval = 0
  QueueLimit = 0
  MaxCycles = 2
INVARIANT AlwaysRestorable
