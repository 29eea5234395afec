SPECIFICATION Spec
CONSTANTS
  Users = {u1, u2}
  Tokens = {t1}
  GroupNames = {g1}
  Seeds <- OneSeed
  UserPools <- OnePool
  Torn = {"refresh-tokens.json", "revoked-tokens.json", "users.json", "groups.json"}
  u1 = u1
  g1 = g1
INVARIANTS
  TypeOK
  DeadTokensStayDead
  AnsweredTokensSurvive
  NoOrphanTokens
  ListsNameTokens
  HistoryOfTheDead
  AddedAreIn
  RemovedAreOut
PROPERTIES
  NoRevival
