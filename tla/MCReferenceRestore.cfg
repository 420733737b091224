SPECIFICATION Spec
CONSTANTS
  v0 = v0
  v1 = v1
  p0 = p0
  p1 = p1
  VirtualAddress = {v0, v1}
  PhysicalAddress = {p0, p1}
  PagedMap <- MCPagedMap
  BareMap <- MCBareMap
  Interrupts = {timer}
  CounterSize = 3
  Fault = Fault
  None = None
INVARIANTS TypeOK SurvivesRestore NoInventedReservation AbortNeedsStaleAddress
CHECK_DEADLOCK FALSE
