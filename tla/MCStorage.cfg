CONSTANTS
  x = x
  y = y
  z = z
  first = first
  second = second
  Account = {first}
  Host = Host
  Var = {x, y}
  Home <- OneHome
  Scalar = {zero}
  Block = {b1, b2, b3, b4}
  Limit <- Ample
  MaxDepth = 2
  MaxItems = 2
SYMMETRY Symmetry
SPECIFICATION Spec
INVARIANTS TypeOK DepthsAreExact NothingLeaks
PROPERTY ValuesSpec
