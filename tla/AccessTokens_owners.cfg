SPECIFICATION Spec
CONSTANTS
  Pools = {p1, p2}
  FirstPool = p1
  ChosenNames = {p1}
  Names = {n1, n2}
  Clients = {c1, c2}
  PoolOf <- TwoClients
  Tokens = {t1}
  p1 = p1
  p2 = p2
  c1 = c1
  c2 = c2
SYMMETRY Symmetry
INVARIANTS
  TypeOK
  OwnerAnswers
