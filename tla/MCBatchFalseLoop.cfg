CONSTANTS
  a = a
  b = b
  c = c
  d = d
  e = e
  Nodes = {a, b, c, d, e}
  Introductions <- House
  Numbered <- NoNumbers
  Trusts = {0}
  Accounts = {}
  Balances = {}
SPECIFICATION Spec
INVARIANTS
  LoopFoundMeansLoop
ACTION_CONSTRAINT
  MeetInHouseOrder
CHECK_DEADLOCK FALSE
