SPECIFICATION Spec
CONSTANTS
  measure = measure
  interpret = interpret
  collect = collect
  publish = publish
  i1 = i1
  i2 = i2
  Step <- ChainStep
  Needs <- ChainNeeds
  Collects <- ChainCollects
  Mapped = {measure, interpret}
  Item = {i1, i2}
  Whole = Whole
  Rollup = {}
  Chain <- ChainOfTwo
  Option <- Options
  LaunchBound = 2
  CrashBound = 1
  MeddleBound = 1
  Editable = {measure, collect, publish}
INVARIANTS
  NeedsStand
  MirrorBacked
  FreshWhenClean
PROPERTY FreshWorkKept
SYMMETRY ItemSymmetry
