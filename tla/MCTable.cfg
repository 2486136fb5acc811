SPECIFICATION Spec
CONSTANTS
  Ifaces = {i1, i2}
  Served = {i1}
  Leases = {l1, l2}
  Apps = {a1, a2}
  Visitors = {v1}
  Unloader = unloader
  Nobody = nobody
  NoLease = nolease
  NoIface = noiface
  CallbackStops = {i1}
  QuietUnload = TRUE
  MaxFrames = 1
SYMMETRY Symmetry
INVARIANTS
  TypeOK
  OneLeasePerIface
  VisitSafe
  NoCircularWait
