CONSTANTS
  a = a
  b = b
  c = c
  d = d
  e = e
  Nodes = {a, b}
  Introductions <- Pair
  Numbered <- NoNumbers
  Trusts = {0}
  Accounts <- Pair
  Balances = {1}
SPECIFICATION Spec
INVARIANTS
  OppositeSigns
ACTION_CONSTRAINT
  MeetWhenQuiet
CHECK_DEADLOCK FALSE
