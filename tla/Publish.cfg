SPECIFICATION Spec
CONSTANTS
  w1 = w1
  w2 = w2
  w3 = w3
  near = near
  far = far
  Other = Other
  Writers <- Three
  Processes = {near, far}
  ProcessOf <- ThreeProcesses
  PidOf <- MCPidOf
  Protocol <- Mixed
  Attempts = 2
  MaxCrashes = 2
INVARIANTS
  TypeOK
  TempsAreOwned
  NothingLeftBehind
PROPERTIES
  AtomicSpec
CHECK_DEADLOCK FALSE
