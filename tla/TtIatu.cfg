SPECIFICATION Spec
CONSTANTS
  a1 = a1
  Regions = 3
  NocDmaLimit = 8
  Sizes = {2, 3}
  Targets = {a1}
  NoTarget = NoTarget
  NoWork = NoWork
INVARIANTS RegionsDisjoint NoSpuriousRefusal HardwareMatchesTable
INVARIANTS SetupNeverCaptures LoopsAgree
CHECK_DEADLOCK FALSE
