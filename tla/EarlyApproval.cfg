SPECIFICATION FairSpec
CONSTANTS
  Nodes <- OneNodes
  NoNode = NoNode
  Kind <- OneKind
  Source <- OneSource
  Edges <- OneEdges
  Order <- OneOrder
  Procs = {p}
  RunCount = 1
  MaxDowns = 0
  Stalls = FALSE
PROPERTY ApprovedGateProceeds
