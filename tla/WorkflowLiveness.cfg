SPECIFICATION RestartSpec
CONSTANTS
  Nodes <- SerialNodes
  NoNode = NoNode
  Kind <- SerialKind
  Source <- SerialSource
  Edges <- SerialEdges
  Order <- SerialOrder
  Procs = {p, q}
  RunCount = 1
  MaxDowns = 2
  Stalls = FALSE
PROPERTIES RunSettles MergeResolved
