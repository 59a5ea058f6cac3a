\* Runs planned from the history they are recorded in, with deaths in between.
SPECIFICATION HistorySpec
CONSTANTS
  p1 = p1
  p2 = p2
  Procs <- TwoProcs
  Configs <- OneToThree
  MinSteps = 2
  MinUsable = 1
  Window = 2
  Percent = 60
  HeadroomTenths = 13
  MaxSession = 4
  MaxRuns = 4
SYMMETRY HistorySymmetry
INVARIANTS
  LossIsBounded
  CeilingsDoNotCompound
PROPERTIES
  TypicalRunsFit
CHECK_DEADLOCK FALSE
