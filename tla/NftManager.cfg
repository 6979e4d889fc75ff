\* Five lists of tunnels; nft commands fail at any time.
SPECIFICATION NftSpec
CONSTANTS
  n1 = n1
  n2 = n2
  any = any
  lo = lo
  lan = lan
  TunnelName = {n1, n2}
  BlankName = {}
  Ipv4 = {any, lo, lan}
  Ipv6 = {}
  AnyIpv4 = any
  Loopback = {lo}
  Port = {1, 2}
  BadAddress = BadAddress
  NoConfig = NoConfig
  Missing = Missing
  Blank = Blank
  Malformed = Malformed
  NoRuleset = NoRuleset
  NoTable = NoTable
  NoTarget = NoTarget
  Desired <- MCDesired
  MaxDeleteFailures = 2
CHECK_DEADLOCK FALSE
INVARIANTS
  NftTypeOK
  NoUnknownRules
  KernelIsRecorded
PROPERTIES
  SuccessIsInstalled
