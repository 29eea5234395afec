SPECIFICATION FairSpec
CONSTANTS
  p1 = p1
  p2 = p2
  c1 = c1
  c2 = c2
  alice = alice
  Pools = {p1}
  Names = {alice}
  Lower <- InLowerCase
  Users <- OneUser
  Clients = {c1}
  PoolOf <- ClientOfOne
  ConfigPools = {p1}
  Seeds = {}
  Tokens = {t1, t2}
  Sessions = {}
  Requests = {r1, r2}
  Triggers = {"userMigration", "preAuthentication", "preTokenGeneration", "postAuthentication"}
  MfaConfiguration = "OFF"
  UsernamesReusable = FALSE
  MigrationNamesSub = FALSE
INVARIANTS
  TokenListComplete
PROPERTIES
  ImplementsLedger
  RevocationTakesEffect
