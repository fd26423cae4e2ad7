SPECIFICATION LiveLeaseSpec
CONSTANTS
  MaxLease = 4
  Persist = 2
  MaxLag = 1
  MaxPosts = 3
  GpuMayStop = TRUE
INVARIANTS
  LeaseInv
PROPERTIES
  UndisturbedLeaseExpires
