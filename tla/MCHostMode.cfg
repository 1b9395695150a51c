SPECIFICATION Spec
CONSTANTS
  Paths = {1, 2}
  Units = {1}
  Config <- Coherent
  HostFaults <- NoHostFaults
  MaxHostFaults = 2
INVARIANTS AttributesMatch
