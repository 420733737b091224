SPECIFICATION Spec
CONSTANTS
  Ram <- MCRam
  Clint <- MCClint
  Uart <- MCUart
  WriteCombine <- MCWriteCombine
  AddressSpace = 40
  MtimecmpOffset = 0
  MtimeOffset = 4
  ByteBase = 2
  TimeBytes = 4
  LsrIdle = 0
  TimerDivider = 2
  MaxOutput = 1
  Programs <- MCPrograms
INVARIANTS SamePlatform LoadsAgree InputConserved RefusedHasNoEffect
PROPERTY TimerStaysPending
