SPECIFICATION VectorSpec
CONSTANTS
  RegisterCount = 4
  RegisterBytes = 4
  ByteBits = 2
  MaxGroup = 2
  Addresses <- MCAddresses
  Programs <- MCPrograms
  Contents <- MCContents
  Results <- MCResults
  Faults <- MCFaults
  FaultyUpTo = 3
INVARIANTS NoFalseAlarm AcceptedIsRight
CHECK_DEADLOCK FALSE
