SPECIFICATION FairSpec
CONSTANTS
  Calls = {c1, c2, c3, c4, c5}
  Startup = Startup
  Keep = 1
  Capacity = 1
INVARIANTS TypeOK BufferHoldsOrphans EffectsInOrder
PROPERTIES EveryCallReturns AnswersAreOwn
CHECK_DEADLOCK FALSE
