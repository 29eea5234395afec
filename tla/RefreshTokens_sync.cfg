SPECIFICATION Spec
CONSTANTS
  p1 = p1
  p2 = p2
  c1 = c1
  c2 = c2
  alice = alice
  Pools = {p1, p2}
  Names = {alice}
  Lower <- InLowerCase
  Users <- OnePerPool
  Clients = {c1, c2}
  PoolOf <- ClientOfEach
  ConfigPools = {p1, p2}
  Seeds <- OnePerPool
  Tokens = {t1, t2}
  Sessions = {s1}
  Requests = {r1}
  Triggers = {"userMigration"}
  MfaConfiguration = "OPTIONAL"
  UsernamesReusable = TRUE
  MigrationNamesSub = FALSE
SYMMETRY SymmetryAndPools
INVARIANTS
  TypeOK
  RevocationRecorded
  TokenListSound
  NoOrphanTokens
  GuardedTokensStayGuarded
