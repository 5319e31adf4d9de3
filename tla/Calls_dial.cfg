\* Calls that are placed, held and joined.
SPECIFICATION Spec
CONSTANTS
  c1 = c1
  c2 = c2
  sys = sys
  CpvtId <- MCCpvt
  TaskId <- Tasks2
  sys_chan = sys
  MaxCallIdx = 2
  HasAudio = TRUE
  Dialer <- OneDialer
  DialOpts <- AllOpts
  Clir <- NoClir
  Group295 = FALSE
  MaxEvents = 3
  Features = {}
  Faults = {}
SYMMETRY Symmetry
INVARIANTS CallIdxUnique NoZombies HangupWillEndCall OnlyDialedConnect StreamsExact
CHECK_DEADLOCK FALSE
