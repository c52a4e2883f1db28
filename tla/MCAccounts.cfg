CONSTANTS
  x = x
  y = y
  z = z
  first = first
  second = second
  Account = {first, second}
  Host = Host
  Var = {x, y, z}
  Home <- Homes
  Scalar = {zero}
  Block = {b1, b2, b3}
  Limit <- Tight
  MaxDepth = 1
  MaxItems = 2
  Key = {k1, k2, k3, k4, k5}
  Hashes <- AllHashes
  Literals <- OneOrder
  Collisions = {0, 7, 14}
SYMMETRY Parts
SPECIFICATION Either
INVARIANTS AccountsAreExact IndexAgrees
PROPERTIES WritesArePrivate ChargesStayHome
