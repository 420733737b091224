SPECIFICATION Spec
CONSTANTS
  AddressSpace = 24
  ByteBase = 3
  WordLimit = 2
  Files <- MCFiles
  RawBase = 8
  HeaderSize = 2
  ProgramSize = 1
  SectionSize = 1
  SymbolSize = 1
  Ram <- MCRam
  WriteCombine <- MCWriteCombine
  MaxStores = 2
INVARIANTS LoadsAgree WideAccessesAreBytes RamIsRestorable ReadsWithinFile ImageAsDescribed
CHECK_DEADLOCK FALSE
