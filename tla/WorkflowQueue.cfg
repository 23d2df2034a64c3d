SPECIFICATION RestartSpec
CONSTANTS
  Nodes <- OneNodes
  NoNode = NoNode
  Kind <- OneKind
  Source <- OneSource
  Edges <- OneEdges
  Order <- OneOrder
  Procs = {p}
  RunCount = 2
  MaxDowns = 0
  Stalls = FALSE
PROPERTY PendingRunStarts
