CONSTANTS
  rows = rows
  other = other
  zero = zero
  Root = {rows, other}
  Value = {zero, one}
  Nothing = Nothing
  InitialRoot <- MCInitialRoot
  MaxDepth = 2
  MaxRefs = 2
  MaxLength = 2
  MaxPending = 1
SPECIFICATION BoundedSpec
INVARIANTS TypeOK EnginesAgree StagedIsPrivate
PROPERTY AllOrNothing
