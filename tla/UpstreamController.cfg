SPECIFICATION FairSpec
CONSTANTS
  ca = ca
  cb = cb
  cf = cf
  hx = hx
  hy = hy
  a1 = a1
  a2 = a2
  b1 = b1
  b2 = b2
  f1 = f1
  f2 = f2
  f3 = f3
  Items = {a2, b1, b2, f1, f2}
  Workers = {w1}
  MaxErrRetries = 3
  MaxTimes = {0, 3}
  NoItem = NoItem
  Clusters = {ca, cb, cf}
  ServerNames = {ca, cb, cf, hx, hy}
  ClusterOf <- VersionCluster
  NamesOf <- VersionNames
  Fault <- VersionFault
  Infos = {r1, r2, r3, r4, r5}
  NoInfo = NoInfo
  NoCluster = NoCluster
  Missable = {cf}
CHECK_DEADLOCK FALSE
INVARIANTS CtlTypeOK RoutesExact
PROPERTIES NoTheft RemovedEventually
