SPECIFICATION Spec
CONSTANTS
  Programs <- Leaking
  Compile <- CompiledScript
  Walk <- WalkerRun
  MaxInt = 127
  RangeLimit = 10
  MaxCallDepth = 4
  MaxVmSteps = 400
  MaxWalkerSteps = 75
  FreelistCap = 2
  MaxParseDepth = 12
  Reading <- ReadingOf
  Nesting <- NestingOf
  Advising <- AdvisingOf
  Native <- NativeRun
INVARIANT NoOuterLocals

