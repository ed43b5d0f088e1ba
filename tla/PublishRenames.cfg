SPECIFICATION Spec
CONSTANTS
  w1 = w1
  w2 = w2
  w3 = w3
  near = near
  far = far
  Other = Other
  Writers <- Two
  Processes = {near, far}
  ProcessOf <- TwoProcesses
  PidOf <- MCPidOf
  Protocol <- Renames
  Attempts = 2
  MaxCrashes = 1
PROPERTIES
  NeverReplaced
CHECK_DEADLOCK FALSE
