\* A socket configuration that was never applied as a whole, then nft mode.
SPECIFICATION SafetySpec
CONSTANTS
  n1 = n1
  n2 = n2
  any = any
  lo = lo
  lan = lan
  TunnelName = {n1, n2}
  BlankName = {}
  Ipv4 = {any, lo, lan}
  Ipv6 = {}
  AnyIpv4 = any
  Loopback = {lo}
  Port = {1, 2}
  BadAddress = BadAddress
  NoConfig = NoConfig
  Missing = Missing
  Blank = Blank
  Malformed = Malformed
  NoRuleset = NoRuleset
  NoTable = NoTable
  NoTarget = NoTarget
  NoTunnel = NoTunnel
  File <- MCFile
  MaxDeleteFailures = 1
INVARIANTS
  NoLeftoverTunnels
