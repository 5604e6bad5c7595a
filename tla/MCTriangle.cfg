CONSTANTS
  a = a
  b = b
  c = c
  Nodes = {a, b, c}
  Introductions <- Triangle
SPECIFICATION FairSpec
INVARIANTS
  TypeOK
  OneTalker
  NoMidAirCrossing
  NoStranger
  NothingForgotten
  FloodedWhenQuiet
  LoopbackMeansLoop
  EveryLoopFound
  LinkInv
  SentInv
PROPERTIES
  EventuallyQuiet
  EveryHandIsTaken
  ImplementsFlood
CHECK_DEADLOCK FALSE
