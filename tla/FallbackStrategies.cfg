SPECIFICATION FairSpec
CONSTANTS
  p1 = p1
  p2 = p2
  p3 = p3
  p4 = p4
  right = right
  wrong = wrong
  down = down
  missing = missing
  NoAnswer = NoAnswer
  Quorum = 2
  Configs <- Configs3
  Weight <- UnitWeight
  Priority <- SamePriority
  MayAnswer <- MaybeMissing
  Tag <- TagOf
  Errors <- OnlyDown
  Falsy <- OnlyMissing
  Strategies <- EveryStrategy
CHECK_DEADLOCK FALSE
INVARIANT AgreementPreferred
PROPERTY EventuallySettles
