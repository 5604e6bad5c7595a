CONSTANTS
  a = a
  b = b
  c = c
  Nodes = {a, b, c}
  Introductions <- Circle
  Numbered <- NoNumbers
  Trusts = {1, 2}
  Accounts <- BothEnds
  Balances = {1}
  Lines <- Chain
  MaxCommands = 5
SPECIFICATION FairSpec
INVARIANTS
  TypeOK
  NothingThrows
PROPERTIES
  ImplementsLedger
CHECK_DEADLOCK FALSE
