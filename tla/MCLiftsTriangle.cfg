CONSTANTS
  a = a
  b = b
  c = c
  Nodes = {a, b, c}
  Introductions <- Triangle
  Numbered <- NoNumbers
SPECIFICATION FairSpec
INVARIANTS
  TypeOK
PROPERTIES
  ImplementsLift
  KeepsProbesEngine
ACTION_CONSTRAINT
  MeetWhenQuiet
CHECK_DEADLOCK FALSE
