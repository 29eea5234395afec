SPECIFICATION Spec
CONSTANTS
  Usernames = {n1, N1, n2}
  Subs = {s1, s2, s3}
  Emails = {e1, e2}
  Codes = {c1, c2}
  Calls = {r1}
  Twin <- TwoSpellings
  Configurations <- EmailsOrNames
  n1 = n1
  N1 = N1
  n2 = n2
  s1 = s1
SYMMETRY SymmetryAndSubs
INVARIANTS
  TypeOK
  SpentCodesDead
  NoTwins
PROPERTIES
  AliasKept
