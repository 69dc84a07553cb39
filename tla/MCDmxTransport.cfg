SPECIFICATION FairSpec
CONSTANTS
  Packets = {zero, scene}
  Zero = zero
  NoPacket = none
  AttemptMod = 3
  GenMax = 3
  BarrierCapacity = 2
  MaxFailed = 2
  MayRefuse = {"poll", "setSender", "write", "start", "cancel"}
INVARIANT Bookkeeping RingIsOwed CompletedMeansCarried DriverBelieved
PROPERTY BarriersFirst ImplementsStaging
