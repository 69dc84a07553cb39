SPECIFICATION Spec
CONSTANTS
  Factory = factory
  Customs = {home, stage}
  None = none
  Bad = bad
INVARIANT NothingLost VerdictTrue RadioSound
