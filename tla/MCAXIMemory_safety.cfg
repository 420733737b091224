SPECIFICATION Spec
CONSTANTS
  Ram <- MCRam
  Clint <- MCClint
  Uart <- MCUart
  WriteCombine <- MCWriteCombine
  AddressSpace = 64
  MtimecmpOffset = 0
  MtimeOffset = 4
  ByteBase = 2
  TimeBytes = 4
  LsrIdle = 0
  TimerDivider = 1
  BusWords = 2
  Tohost = 16
  Scenarios <- MCScenarios
  BootTime = 15
INVARIANTS TypeOK InputDelivered SlotsExclusive ReadsAreRegular OkayMeansWritten BeatsAgree ExitMirrorsTohost
PROPERTIES OfferedBeatStable KeepsPortPromises
