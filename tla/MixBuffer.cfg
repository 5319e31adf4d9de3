\* Two calls; a buffer of two frames.
SPECIFICATION Spec
CONSTANTS
  Size = 4
  FrameSize = 2
  MaxSample = 1
  Stream = {s1, s2}
  Frames <- MCFrames
SYMMETRY Symmetry
INVARIANTS TypeOK PositionsAgree
PROPERTIES MixerSpec
