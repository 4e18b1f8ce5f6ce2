SPECIFICATION CompatSpec
CONSTANTS
  h1 = h1
  h2 = h2
  h3 = h3
  v1 = v1
  v2 = v2
  v3 = v3
  v4 = v4
  Handle = {h1, h2, h3}
  Addr = {v1, v2, v3, v4}
  Kind = {"device", "buffer"}
  NoCall = NoCall
  ReusesVa = FALSE
SYMMETRY Symmetry
CHECK_DEADLOCK FALSE
INVARIANTS ViewSurvivesClose ClosedAndUnmappedIsFreed
