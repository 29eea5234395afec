SPECIFICATION Spec
CONSTANTS
  Pools = {p1, p2}
  Names = {n1}
  Sessions = {s1, s2}
  Codes = {k1, k2}
  Checks = {c1, c2}
  TTL = 1
SYMMETRY Symmetry
INVARIANTS
  TypeOK
  OneSignInPerCheck
  NoUncheckedSignIn
  SpentCodesGone
