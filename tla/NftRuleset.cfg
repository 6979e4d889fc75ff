\* Every file of up to two tunnels over four addresses.
SPECIFICATION FileSpec
CONSTANTS
  n1 = n1
  n2 = n2
  blank = blank
  any = any
  lo = lo
  lan = lan
  v6 = v6
  Written <- MCWritten
  MaxTunnels = 2
  TunnelName = {n1, n2, blank}
  BlankName = {blank}
  Ipv4 = {any, lo, lan}
  Ipv6 = {v6}
  AnyIpv4 = any
  Loopback = {lo}
  Port = {1}
  BadAddress = BadAddress
  NoConfig = NoConfig
  Missing = Missing
  Blank = Blank
  Malformed = Malformed
  NoRuleset = NoRuleset
  NoTable = NoTable
  NoTarget = NoTarget
INVARIANTS
  AcceptedIsBuildable
  RulesServeTunnels
