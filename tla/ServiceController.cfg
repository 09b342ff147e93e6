SPECIFICATION FairSpec
CONSTANTS
  g1 = g1  g2 = g2  n1 = n1  n2 = n2  ip1 = ip1  a1 = a1  c1 = c1
  pending = pending
  Gateways = {g1, g2}
  Nodes = {n1, n2}
  PublicIPs = {ip1}
  Addrs = {a1}
  CIDRs = {c1}
  NoIP = NoIP
  NoEndpoint = NoEndpoint
  NoGateway = NoGateway
  Absent = Absent
  Specs <- TwoSpecs
  NodeObjs <- OneAddress
  GatewayObjs <- TwoActive
  ServiceObjs = {pending}
  NewService = pending
  Foreign = Foreign
  MaxLag = 2
  MaxDisturbances = 2
INVARIANTS SettledServed IInv
PROPERTIES KeepsEndpoints EventuallyServed
