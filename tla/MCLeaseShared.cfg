SPECIFICATION Spec
CONSTANTS
  a1 = a1
  a2 = a2
  m1 = m1
  g1 = g1
  s1 = s1
  d1 = d1
  x1 = x1
  x2 = x2
  x3 = x3
  x4 = x4
  NoAddr = NoAddr
  NoXid = NoXid
  Addrs <- MCTwoAddrs
  Masks <- MCMasks
  Gateways <- MCGateways
  Servers <- MCServers
  NameServers <- MCNameServers
  Xids <- MCXids
  OptionSets <- MCRouterOrBare
  RequestedIps <- MCNewLease
  ApplyOutcomes = {"ok", "netmask_fails", "address_fails", "route_fails"}
  ApiCalls = {"renew"}
  SharedWorker = TRUE
  ConformingServers = TRUE
  MaxRequestRetransmits = 1
  MaxDeclineRetries = 1
  MaxNet = 1
SYMMETRY XidSymmetry
INVARIANTS
  NeverStranded
  AppliedCanBeUndone
PROPERTIES
  FailedIsFinal
  ImplementsClient
