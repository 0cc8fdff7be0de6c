SPECIFICATION FairSpec
CONSTANTS
  Nobody = Nobody
  Sends = {s1, s2, s3}
  MaxResets = 1
  MaxSkips = 1
CHECK_DEADLOCK FALSE
INVARIANTS TypeOK NoncesDistinct GapsExplained CleanRunIsGapless
PROPERTY EverySendSettles
