SPECIFICATION Spec
CONSTANTS
  Ram <- MCRam
  Clint <- MCClint
  Uart <- MCUart
  WriteCombine <- MCWriteCombine
  AddressSpace = 40
  MtimecmpOffset = 0
  MtimeOffset = 4
  ByteBase = 2
  TimeBytes = 4
  LsrIdle = 0
  TimerDivider = 2
  Scenarios <- TypingRace
  Stvec = 8
  Mtvec = 10
  PollInterval = 2
  StallCycles = 0
  MaxCycles = 6
  RobSize = 3
INVARIANTS NoFalseAlarm
