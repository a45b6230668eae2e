SPECIFICATION FairSpec
CONSTANTS
  Workers = {w1, w2}
  MinOnRoad = 1
  HeadLen = 1
  MaxPayload = 1
  MaxBytes = 2
  MaxConns = 1
  MaxPolls = 1
  MaxResends = 0
  MaxLosses = 1
INVARIANT
  RequestBounded
PROPERTIES
  StreamSpec
  ReliableFair
  TimedOutRetried
