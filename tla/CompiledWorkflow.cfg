CONSTANTS
  Sorted <- SortedIds
  NoNode <- None
  MaxAuthorEdges = 8
  Catalog <- Agents
  MaxCompiledNodes = 16
  MaxCompiledEdges = 25
  Scenarios <- Drafts
SPECIFICATION Spec
INVARIANTS GraphChecksExact AcceptsWhatIsInjected BypassRefused TestedBeforeReview SuccessMeansMerged
PROPERTY NothingBeforeMerge
CHECK_DEADLOCK FALSE
