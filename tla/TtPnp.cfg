SPECIFICATION Spec
CONSTANTS
  f1 = f1
  f2 = f2
  File = {f1, f2}
  NoFile = NoFile
  Kernel = Kernel
  BarLayout <- Layouts
  BufSizes = {0, 8}
  Noc2AxiEnd = 20
  StopsWhileOpen = FALSE
  ResourceSize = 36
  TlbLen = 4
  Tlb2mCount = 2
  Tlb4gLen = 8
  Tlb4gMax = 2
  Rebase = 20
  DmaBase = 288
  DmaStride = 8
  MaxDmaBufs = 2
  PageSize = 2
  MaxLength = 7
SYMMETRY Symmetry
CHECK_DEADLOCK FALSE
INVARIANTS FencedMmioIsMapped TokenRoundTrip WindowTokensStayOwned
