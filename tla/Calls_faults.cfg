\* Everything goes wrong with calls that are placed.
SPECIFICATION Spec
CONSTANTS
  c1 = c1
  c2 = c2
  sys = sys
  CpvtId <- MCCpvt
  TaskId <- Tasks2
  sys_chan = sys
  MaxCallIdx = 2
  HasAudio = TRUE
  Dialer <- OneDialer
  DialOpts <- Plain
  Clir <- AnyClir
  Group295 = TRUE
  MaxEvents = 3
  Features = {"ping"}
  Faults = {"write", "memory", "disconnect", "refuse", "silent", "query", "preempted"}
SYMMETRY Symmetry
INVARIANTS TypeOK CountsExact PointersLive StreamsExact
CHECK_DEADLOCK FALSE
