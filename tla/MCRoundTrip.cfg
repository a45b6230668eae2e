SPECIFICATION Spec
CONSTANTS
  Workers = {w1, w2}
  MinOnRoad = 1
  HeadLen = 1
  MaxPayload = 2
  MaxBytes = 2
  MaxConns = 1
  MaxPolls = 1
  MaxResends = 1
  MaxLosses = 1
SYMMETRY Symmetry
INVARIANTS
  TypeOK
  OnRoadExact
  NoFalseAck
  StreamExact
  NoOrphanTransfer
  KeepsPolling
PROPERTY
  ReliableSpec
