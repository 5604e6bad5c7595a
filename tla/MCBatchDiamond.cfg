CONSTANTS
  a = a
  b = b
  c = c
  d = d
  e = e
  Nodes = {a, b, c, d}
  Introductions <- Diamond
  Numbered <- NoNumbers
  Trusts = {0}
  Accounts = {}
  Balances = {}
SPECIFICATION FairSpec
INVARIANTS
  EveryLoopFound
  EveryTraceComesHome
PROPERTIES
  EventuallyQuiet
ACTION_CONSTRAINT
  MeetInDiamondOrder
CHECK_DEADLOCK FALSE
