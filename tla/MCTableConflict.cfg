SPECIFICATION Spec
CONSTANTS
  Ifaces = {i1}
  Served = {i1}
  Leases = {l1}
  Apps = {a1}
  Visitors = {v1}
  Unloader = unloader
  Nobody = nobody
  NoLease = nolease
  NoIface = noiface
  CallbackStops = {}
  QuietUnload = TRUE
  MaxFrames = 2
PROPERTIES
  ConflictNoticed
