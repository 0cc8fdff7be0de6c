SPECIFICATION Spec
CONSTANTS
  NoSub = NoSub
  Listeners = {f}
  Subs = {1, 2}
  TimerIds = {1, 2}
  PollIds = {1, 2}
  MaxHeight = 2
  MaxCalls = 3
  MaxPauses = 2
CHECK_DEADLOCK FALSE
INVARIANTS ListenersAreServed PollingNeverDies NoBlockSkipped
