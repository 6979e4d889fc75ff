\* A worker that is killed while its guard rewrites the pid file.
SPECIFICATION DaemonSpec
CONSTANTS
  c1 = c1
  p1 = p1
  p2 = p2
  p3 = p3
  NoPid = NoPid
  NoFile = NoFile
  Empty = Empty
  Client = {c1}
  Pid = {p1, p2, p3}
INVARIANTS
  FileIsReadable
