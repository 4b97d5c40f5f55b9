SPECIFICATION Spec
CONSTANTS
  Sessions = {s1, s2}
  Members = {m1, m2}
  Admins = {m2}
  Products = {p1, p2, p3}
  NoMember = NoMember
  NoProduct = NoProduct
  ServerCap = 2
  UserCap = 1
INVARIANT TypeOK
INVARIANT ServerCapHolds
INVARIANT MemberCapHolds
PROPERTY ActiveKeepsWatches
PROPERTY OnlyTrackRevives
SYMMETRY Symmetry
