\* A hangup before its ATD.
SPECIFICATION Spec
CONSTANTS
  c1 = c1
  c2 = c2
  sys = sys
  CpvtId <- MCCpvt
  TaskId <- Tasks6
  sys_chan = sys
  MaxCallIdx = 2
  HasAudio = TRUE
  Dialer <- OneDialer
  DialOpts <- Plain
  Clir <- NoClir
  Group295 = FALSE
  MaxEvents = 3
  Features = {"ping"}
  Faults = {}
SYMMETRY Symmetry
INVARIANTS NoOrphanCalls
CHECK_DEADLOCK FALSE
