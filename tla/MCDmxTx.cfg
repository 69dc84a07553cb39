CONSTANTS
  Packets = {zero, scene}
  Zero = zero
  NoPacket = none
  AttemptMod = 3
  Slots = 3
  FifoDepth = 2
  FrameTicks = 1
SPECIFICATION FairSpec
INVARIANT CompleteMeansWhole
INVARIANT FrameFollowsBreak
INVARIANT InterruptArmed
PROPERTY AttemptEnds
PROPERTY ImplementsDriver
