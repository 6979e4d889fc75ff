\* Two tunnels, two endpoints; tunnels die, ports are taken, nft fails.
SPECIFICATION FgSpec
CONSTANTS
  a = a
  b = b
  any = any
  lo = lo
  lan = lan
  NoTunnel = NoTunnel
  NoName = NoName
  Name = {a, b}
  Endpoint <- MCEndpoint
  Target <- MCTarget
  Desired <- MCDesired
  TunnelName = {a, b}
  BlankName = {}
  Ipv4 = {any, lo, lan}
  Ipv6 = {}
  AnyIpv4 = any
  Loopback = {lo}
  Port = {1, 2}
  BadAddress = BadAddress
  NoConfig = NoConfig
  Missing = Missing
  Blank = Blank
  Malformed = Malformed
  NoRuleset = NoRuleset
  NoTable = NoTable
  NoTarget = NoTarget
  File <- MCFile
  MaxDeleteFailures = 1
INVARIANTS
  FgInv
  EndsClean
  PacketsArrive
PROPERTIES
  SelfHealing
