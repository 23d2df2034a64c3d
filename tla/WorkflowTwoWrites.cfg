SPECIFICATION Spec
CONSTANTS
  Nodes <- TwoNodes
  NoNode = NoNode
  Kind <- TwoKind
  Source <- TwoSource
  Edges <- TwoEdges
  Order <- TwoOrder
  Procs = {p, q}
  RunCount = 1
  MaxDowns = 2
  Stalls = FALSE
INVARIANTS TypeOK CommitOnlyApproved HeadsAgree DirtyAccountedFor RecordsAgree
PROPERTIES ResultsFinal PublishedOnReviewedBase
