SPECIFICATION Spec
CONSTANTS
  PoolIds = {p1, p2}
  ClientIds = {c1, c2, c3}
  Usernames = {n1, n2}
  Versions = {v1, v2}
  ConfigPools <- OnePool
  ConfigClients <- OneClient
  Seeds <- OneOfEach
  p1 = p1
  c1 = c1
  n1 = n1
  v1 = v1
SYMMETRY Symmetry
INVARIANTS
  TypeOK
  NothingDangles
  ClientSettingsSurvive
