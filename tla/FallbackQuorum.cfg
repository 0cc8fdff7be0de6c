SPECIFICATION Spec
CONSTANTS
  p1 = p1
  p2 = p2
  p3 = p3
  p4 = p4
  right = right
  wrong = wrong
  down = down
  missing = missing
  NoAnswer = NoAnswer
  Quorum = 2
  Configs <- Configs4
  Weight <- HeavyWeight
  Priority <- TwoPriorities
  MayAnswer <- OneLiar
  Tag <- TagOf
  Errors <- OnlyDown
  Falsy <- NoFalsy
  Strategies <- AgreementOnly
CHECK_DEADLOCK FALSE
INVARIANTS TypeOK QuorumBacked MinorityCannotDecide AnswersAreOwn  OneReplacementPerBump NoMissedWakeup
PROPERTY RequestImplementsVote
