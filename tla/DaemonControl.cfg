\* One command at a time; commands and workers are killed anywhere, pids are
\* reused.
SPECIFICATION DaemonSpec
CONSTANTS
  c1 = c1
  p1 = p1
  p2 = p2
  p3 = p3
  NoPid = NoPid
  NoFile = NoFile
  Empty = Empty
  Client = {c1}
  Pid = {p1, p2, p3}
INVARIANTS
  DaemonInv
  OneDaemon
  Reachable
PROPERTIES
  NotRunningIsTrue
