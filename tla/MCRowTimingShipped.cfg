CONSTANTS
  BANK = 5
  TIMING_FAW = 5
  TIMING_RP = 1
  TIMING_RC = 5
  TIMING_RRD = 1
  LastCycle = 20
SPECIFICATION Spec
INVARIANTS FourActivationWindow
CHECK_DEADLOCK FALSE
