\* Two editors of one file, saves that fail, and processes that are killed.
SPECIFICATION EditorSpec
CONSTANTS
  p1 = p1
  p2 = p2
  web = web
  WEB = WEB
  dns = dns
  any = any
  lo = lo
  v6 = v6
  TunnelName = {web, WEB, dns}
  BlankName = {}
  Ipv4 = {any, lo}
  Ipv6 = {v6}
  AnyIpv4 = any
  Port = {1}
  BadAddress = BadAddress
  NoConfig = NoConfig
  Missing = Missing
  Blank = Blank
  Malformed = Malformed
  Process = {p1, p2}
  Typed <- MCTyped
  Kept <- MCKept
  Folded <- MCFolded
  FirstFile <- MCFirstFile
  NoFile = NoFile
  MaxChanges = 2
INVARIANTS
  EditorInv
  EditsStayValid
PROPERTIES
  SavesAreAtomic
  NoSilentLoss
