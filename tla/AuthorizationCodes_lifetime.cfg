SPECIFICATION FairSpec
CONSTANTS
  Codes = {c1, c2}
  Users = {u1}
  Clients = {k1, k2}
  Lifetime = 4
  SweepPeriod = 2
  MaxAge = 7
INVARIANTS
  TypeOK
  PresentedCodesGone
  SweptInTime
PROPERTIES
  CodesEnd
