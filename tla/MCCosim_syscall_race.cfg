SPECIFICATION Spec
CONSTANTS
  Ram <- MCRam
  Clint <- MCClint
  Uart <- MCUart
  WriteCombine <- MCWriteCombine
  AddressSpace = 40
  MtimecmpOffset = 0
  MtimeOffset = 4
  ByteBase = 2
  TimeBytes = 4
  LsrIdle = 0
  TimerDivider = 2
  Scenarios <- SyscallRace
  Stvec = 8
  Mtvec = 10
  PollInterval = 8
  StallCycles = 0
  MaxCycles = 8
  RobSize = 3
INVARIANTS NoFalseAlarm
