SPECIFICATION FairSpec
CONSTANTS
  Packets = {zero, scene1}
  Zero = zero
  QueueCapacity = 3
  Budget = 1
  InFlight = 2
  BarrierCapacity = 2
INVARIANT OutputIsScene
PROPERTY CommitmentIsDark QueueMoves
CHECK_DEADLOCK FALSE
