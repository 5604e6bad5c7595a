CONSTANTS
  a = a
  b = b
  c = c
  d = d
  e = e
  Nodes = {a, b, c}
  Introductions <- Circle
  Numbered <- NoNumbers
  Trusts = {0}
  Accounts = {}
  Balances = {}
SPECIFICATION Spec
INVARIANTS
  EveryLiftCompletes
ACTION_CONSTRAINT
  MeetWhenQuiet
CHECK_DEADLOCK FALSE
