SPECIFICATION FairSpec
CONSTANTS
  g1 = g1  n1 = n1  n2 = n2  ip1 = ip1  ip2 = ip2  a1 = a1  c1 = c1
  Gateways = {g1}
  Nodes = {n1, n2}
  PublicIPs = {ip1, ip2}
  Addrs = {a1}
  CIDRs = {c1}
  NoIP = NoIP
  NoEndpoint = NoEndpoint
  NoGateway = NoGateway
  Absent = Absent
  NoIngress = NoIngress
  Foreign = Foreign
  Specs <- BehindOrNot
  NodeObjs <- ReadyOrGone
  BlockSets = {{}}
  MaxLag = 1
  MaxDisturbances = 1
INVARIANTS SettledReachable IInv
PROPERTIES EventuallyReachable
