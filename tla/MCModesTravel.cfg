CONSTANTS
  rows = rows
  other = other
  zero = zero
  Root = {rows}
  Value = {zero, one}
  Nothing = Nothing
  InitialRoot <- MCInitialRoot
  MaxDepth = 2
  MaxRefs = 1
  MaxLength = 2
  MaxPending = 1
SPECIFICATION Spec
INVARIANT ModesTravel
