CONSTANTS
  a = a
  b = b
  c = c
  Nodes = {a, b, c}
  Introductions <- Circle
  Numbered <- NoNumbers
  Trusts = {1}
  Accounts <- BothEnds
  Balances = {1}
  Lines <- Chain
  MaxCommands = 3
SPECIFICATION Spec
INVARIANTS
  NettingStarts
CHECK_DEADLOCK FALSE
