SPECIFICATION Spec
CONSTANTS
  Opps = {o1}
  MaxFailures = 2
  MaxDrawdown = 5
  MaxSlippage = 20
  StaleThreshold = 2000
  MaxNotional = 2
  Books = {b1, b2}
  StaleAge = 4
  Period = 2
  Lateness = 1
  Horizon = 18
CHECK_DEADLOCK FALSE
INVARIANTS TypeOK SilenceHalts
SYMMETRY Symmetry
