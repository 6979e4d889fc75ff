\* Two tunnels, two endpoints; reconcile, stop_all and failing workers.
SPECIFICATION Spec
CONSTANTS
  a = a
  b = b
  e1 = e1
  e2 = e2
  t1 = t1
  t2 = t2
  NoTunnel = NoTunnel
  NoName = NoName
  Name = {a, b}
  Endpoint = {e1, e2}
  Target = {t1, t2}
  Desired <- MCDesired
INVARIANTS
  NoOrphanWorker
  ActiveIsWhole
  StopsBeforeStarts
  Inv
PROPERTIES
  CallsReturn
  ReturnContract
  KeepsUnchanged
  ImplementsTable
