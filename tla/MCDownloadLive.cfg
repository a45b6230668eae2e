SPECIFICATION FairSpec
CONSTANTS
  c1 = c1
  c2 = c2
  Workers = {w1}
  Conns = {c1, c2}
  Blocks <- TwoConns
  WindowsAck = 0
  MaxResponses = 2
  MaxPieces = 0
  MaxMarks = 0
PROPERTIES
  CommandsExecuted
  CloseTold
  StoppedIsReleased
