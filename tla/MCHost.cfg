SPECIFICATION Spec
CONSTANTS
  Paths = {1, 2}
  Units = {1}
  Config <- Coherent
  HostFaults <- AllButReads
  MaxHostFaults = 2
INVARIANTS TypeOK DoneMeansApplied RebootWhenNeeded
PROPERTIES StartedWithFiles
