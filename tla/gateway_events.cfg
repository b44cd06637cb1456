SPECIFICATION FairSpec
CONSTANTS
  p1 = p1
  p2 = p2
  c1 = c1
  c2 = c2
  Publishers <- OnePublisher
  Pollers <- OneClient
  Streamers <- OneClient
  Capacity = 2
  Limit = 2
  MaxEvents = 4
  MaxRestarts = 1
  WriteFails = TRUE
INVARIANTS TypeOK RetainedInOrder InOrderOnce NewestPageGiven
PROPERTIES RestoredAhead StreamCatchesUp
