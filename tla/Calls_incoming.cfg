\* Calls that come in, wait and are held.
SPECIFICATION Spec
CONSTANTS
  c1 = c1
  c2 = c2
  sys = sys
  CpvtId <- MCCpvt
  TaskId <- Tasks2
  sys_chan = sys
  MaxCallIdx = 2
  HasAudio = TRUE
  Dialer <- OneDialer
  DialOpts = {}
  Clir <- NoClir
  Group295 = FALSE
  MaxEvents = 2
  Features = {"incoming", "waiting", "unhold"}
  Faults = {}
SYMMETRY Symmetry
INVARIANTS NoZombies HangupWillEndCall StreamsExact
CHECK_DEADLOCK FALSE
