SPECIFICATION Spec
CONSTANTS
  c1 = c1
  c2 = c2
  Workers = {w1, w2}
  Conns = {c1}
  Blocks <- OneConn
  WindowsAck = 1
  MaxResponses = 3
  MaxPieces = 1
  MaxMarks = 1
SYMMETRY Symmetry
INVARIANTS
  ReceiveExact
  OutputInOrder
  NoStuckCommand
  AckHonest
  UploadWellFormed
