SPECIFICATION Spec
CONSTANTS
  Usernames = {n1, N1}
  Subs = {s1, s2}
  Emails = {e1, e2}
  Codes = {c1, c2}
  Calls = {r1, r2}
  Twin <- TwoSpellings
  Configurations <- WithNamesAndTrigger
  n1 = n1
  N1 = N1
  n2 = n2
  s1 = s1
SYMMETRY SymmetryAndSubs
PROPERTIES
  AccountsKept
