SPECIFICATION FairSpec
CONSTANTS
  g1 = g1  g2 = g2  n1 = n1  n2 = n2  ip1 = ip1  ip2 = ip2
  a1 = a1  a2 = a2  c1 = c1  c2 = c2
  Gateways = {g1}
  Nodes = {n1, n2}
  PublicIPs = {ip1, ip2}
  Addrs = {a1, a2}
  CIDRs = {c1, c2}
  NoIP = NoIP
  NoEndpoint = NoEndpoint
  NoGateway = NoGateway
  Absent = Absent
  NoService = NoService
  NoIngress = NoIngress
  Requests <- OneLB
  NoName = NoName
  BadIP = BadIP
  Specs <- AdmittedSpecs
  NodeObjs <- ReadyOrNot
  BlockSets <- NoBlocks
  Services = {ip1}
  MaxLag = 1
  MaxDisturbances = 2
PROPERTIES LostEndpointRemoved
