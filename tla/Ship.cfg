\* What two runs in one checkout commit, push, open and record.
SPECIFICATION Spec
CONSTANTS
  MaxRuns = 2
  Base = main
  main = main
  one = one
  two = two
  code = code
  url = url
  Branches <- BranchNames
  Files <- FileNames
  PrUrl = url
SYMMETRY ShipSymmetry
INVARIANTS
  ScopedCommit
  GateIsEarned
  RequestCarriesItsCommit
  ShippedWorkIsWhole
CHECK_DEADLOCK FALSE
