CONSTANTS
  x = x
  y = y
  z = z
  first = first
  second = second
  Account = {first, second}
  Host = Host
  Var = {x, y, z}
  Home <- Homes
  Scalar = {zero}
  Block = {b1, b2, b3}
  Limit <- Tight
  MaxDepth = 1
  MaxItems = 2
SPECIFICATION Spec
INVARIANT UniqueMutatesInPlace
