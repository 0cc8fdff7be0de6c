SPECIFICATION Spec
CONSTANTS
  c1 = c1
  c2 = c2
  n1 = n1
  n2 = n2
  q1 = q1
  Calls <- TwoCalls
  Boots <- TwoBoots
  Probes <- None
  Bytes <- Sizes
  BatchMaxCounts <- OnlyTwo
  BatchMaxSize = 100
  StaticNetwork = FALSE
  AutoStart = FALSE
  Replies <- AllReplies
CHECK_DEADLOCK FALSE
INVARIANT NothingSentBeforeStart
