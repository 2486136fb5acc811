SPECIFICATION FairSpec
CONSTANTS
  a1 = a1
  a2 = a2
  m1 = m1
  g1 = g1
  s1 = s1
  d1 = d1
  x1 = x1
  x2 = x2
  x3 = x3
  x4 = x4
  NoAddr = NoAddr
  NoXid = NoXid
  Addrs <- MCOneAddr
  Masks <- MCMasks
  Gateways <- MCGateways
  Servers <- MCServers
  NameServers <- MCNameServers
  Xids <- MCXids
  OptionSets <- MCBareReplies
  RequestedIps <- MCNewLease
  ApplyOutcomes = {"ok"}
  ApiCalls = {"stop"}
  SharedWorker = FALSE
  ConformingServers = TRUE
  MaxRequestRetransmits = 1
  MaxDeclineRetries = 0
  MaxNet = 1
PROPERTIES
  Settles
  TeardownReturns
