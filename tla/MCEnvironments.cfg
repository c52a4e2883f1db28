CONSTANTS
  Root = root
  Module = {root, x, y, z}
  Name = {a}
  Value = {v, w}
  NoValue = NoValue
  NoModule = NoModule
  Frozen = Frozen
  MaxFrames = 4
SPECIFICATION Either
SYMMETRY Symmetry
INVARIANTS TypeOK OneHome ReadsAreLive ForwardedVisible LoadingIsOnStack VmForwardingKept
PROPERTY StoreSpec
