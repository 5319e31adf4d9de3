\* Two dialers, a device without audio tty.  Liveness: no symmetry.
SPECIFICATION FairSpec
CONSTANTS
  c1 = c1
  c2 = c2
  sys = sys
  CpvtId <- MCCpvt
  TaskId <- Tasks2
  sys_chan = sys
  MaxCallIdx = 2
  HasAudio = FALSE
  Dialer <- TwoDialers
  DialOpts <- Plain
  Clir <- NoClir
  Group295 = FALSE
  MaxEvents = 2
  Features = {}
  Faults = {}
INVARIANTS OneDialAtATime
PROPERTIES EndedCallsReleased
CHECK_DEADLOCK FALSE
