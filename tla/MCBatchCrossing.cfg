CONSTANTS
  a = a
  b = b
  c = c
  d = d
  e = e
  Nodes = {a, b, c}
  Introductions <- Crossing
  Numbered <- NoNumbers
  Trusts = {0}
  Accounts <- BothEnds
  Balances = {1}
SPECIFICATION FairSpec
INVARIANTS
  TypeOK
  EveryTraceComesHome
  EndsAgree
  FloodedWhenQuiet
  KnownInv
PROPERTIES
  EventuallyQuiet
  EveryHandIsTaken
ACTION_CONSTRAINT
  SetOnce
  OnlyCrossingMeetsOverlap
CHECK_DEADLOCK FALSE
