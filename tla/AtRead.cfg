\* Three results of any kind in pieces of any size; a buffer that wraps
\* around within the third.
SPECIFICATION Spec
CONSTANTS
  Size = 14
  Kinds <- AllKinds
  MaxResults = 3
INVARIANTS TypeOK SearchExact LinesWhole NothingHeldBack
PROPERTIES StreamSpec
CHECK_DEADLOCK FALSE
