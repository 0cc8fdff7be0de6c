SPECIFICATION Spec
CONSTANTS
  Configs <- ThreeConfigs
  Weight <- UnitWeights
  Quorum = 2
  SortOrder = "item first"
  MaxHead = 3
  Failed = Failed
CHECK_DEADLOCK FALSE
INVARIANT AnswerBackedByQuorum
PROPERTY AnswersNeverGoBack
