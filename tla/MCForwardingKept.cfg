CONSTANTS
  Root = root
  Module = {root, x, y, z}
  Name = {a}
  Value = {v, w}
  NoValue = NoValue
  NoModule = NoModule
  Frozen = Frozen
  MaxFrames = 4
SPECIFICATION Spec
SYMMETRY Symmetry
INVARIANT ForwardingKept

