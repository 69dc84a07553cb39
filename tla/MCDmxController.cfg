SPECIFICATION ControllerSpec
CONSTANTS
  Packets = {zero, scene1}
  Zero = zero
  NoPreset = empty
  Slots = 2
  RevisionMax = 1
  TokenMax = 1
INVARIANT Provenance
PROPERTY BlackoutRestores ImportOverwritesNothing ImplementsScene
