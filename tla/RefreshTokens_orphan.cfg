SPECIFICATION Spec
CONSTANTS
  p1 = p1
  p2 = p2
  c1 = c1
  c2 = c2
  alice = alice
  Pools = {p1}
  Names = {alice}
  Lower <- InLowerCase
  Users <- OneUser
  Clients = {c1}
  PoolOf <- ClientOfOne
  ConfigPools = {p1}
  Seeds = {}
  Tokens = {t1}
  Sessions = {s1}
  Requests = {r1}
  Triggers = {"preAuthentication"}
  MfaConfiguration = "OFF"
  UsernamesReusable = TRUE
  MigrationNamesSub = FALSE
INVARIANTS
  NoOrphanTokens
