\* Calls that are placed and calls that come in.
SPECIFICATION Spec
CONSTANTS
  c1 = c1
  c2 = c2
  sys = sys
  CpvtId <- MCCpvt
  TaskId <- Tasks3
  sys_chan = sys
  MaxCallIdx = 1
  HasAudio = TRUE
  Dialer <- OneDialer
  DialOpts <- Plain
  Clir <- NoClir
  Group295 = FALSE
  MaxEvents = 2
  Features = {"incoming"}
  Faults = {}
SYMMETRY Symmetry
INVARIANTS  PointersLive
CHECK_DEADLOCK FALSE
