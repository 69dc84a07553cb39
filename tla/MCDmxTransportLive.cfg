SPECIFICATION FairSpec
CONSTANTS
  Packets = {zero}
  Zero = zero
  NoPacket = none
  AttemptMod = 3
  GenMax = 2
  BarrierCapacity = 2
  MaxFailed = 2
  MayRefuse = {"start"}
PROPERTY BarrierResolved SenderLeaves
