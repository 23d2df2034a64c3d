SPECIFICATION Spec
CONSTANTS
  Nodes <- BranchNodes
  NoNode = NoNode
  Kind <- BranchKind
  Source <- BranchSource
  Edges <- BranchEdges
  Order <- BranchOrder
  Procs = {p, q}
  RunCount = 1
  MaxDowns = 1
  Stalls = TRUE
INVARIANTS ExclusiveExecution BranchesSound
