SPECIFICATION FairSpec
CONSTANTS
  ca = ca
  cb = cb
  cf = cf
  hx = hx
  hy = hy
  a1 = a1
  a2 = a2
  b1 = b1
  b2 = b2
  f1 = f1
  f2 = f2
  f3 = f3
  Items = {a1, a2}
  Workers = {w1}
  MaxErrRetries = 3
  MaxTimes = {0, 3}
  NoItem = NoItem
  Clusters = {ca}
  ServerNames = {ca, hx}
  ClusterOf <- VersionCluster
  NamesOf <- VersionNames
  Fault <- VersionFault
  Infos = {r1, r2}
  NoInfo = NoInfo
  NoCluster = NoCluster
  Missable = {ca}
CHECK_DEADLOCK FALSE
PROPERTY MissedRemovedEventually
