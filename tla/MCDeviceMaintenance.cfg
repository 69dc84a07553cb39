SPECIFICATION FairMaintenanceSpec
CONSTANTS
  Packets = {zero, scene1}
  Zero = zero
  NoPacket = none
  AttemptMod = 3
  GenMax = 4
  BarrierCapacity = 2
  MaxFailed = 2
  MayRefuse = {"start"}
  AppGens = 1
INVARIANT RestartSafe
PROPERTY CommitmentEnds
CHECK_DEADLOCK FALSE
