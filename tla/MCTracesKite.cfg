CONSTANTS
  a = a
  b = b
  c = c
  d = d
  Nodes = {a, b, c, d}
  Introductions <- Kite
  Numbered <- NoNumbers
SPECIFICATION Spec
INVARIANTS
  TypeOK
  NoStrayTrace
  TraceInv
  LoopFoundMeansLoop
  EveryTraceComesHome
  BounceTurnsRound
ACTION_CONSTRAINT
  MeetWhenQuiet
CHECK_DEADLOCK FALSE
