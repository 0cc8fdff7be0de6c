SPECIFICATION FairSpec
CONSTANTS
  c1 = c1
  c2 = c2
  n1 = n1
  n2 = n2
  q1 = q1
  Calls <- TwoCalls
  Boots <- TwoBoots
  Probes <- OneProbe
  Bytes <- Sizes
  BatchMaxCounts <- OneOrTwo
  BatchMaxSize = 40
  StaticNetwork = FALSE
  AutoStart = FALSE
  Replies <- AllReplies
CHECK_DEADLOCK FALSE
INVARIANTS TypeOK IdsUnique SentInOrder BatchesWithinLimits OrphansFollowARejection
PROPERTIES EveryRequestSettles BootstrapCompletes
