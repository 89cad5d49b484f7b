SPECIFICATION Spec
CONSTANTS
  Base = 2
  LengthWidth = 2
  MaxString = 2
  MessageTypes = {"ACK", "VALIDATION_RESULT", "SNAPSHOT_RESPONSE"}
  NoType = "NONE"
  Formats <- ThreeFormats
  Bodies <- FourBodies
  MaxFramePayload = 6
  MaxInFlight = 3
  MaxFrames = 3
  MaxDamage = 1
CHECK_DEADLOCK FALSE
INVARIANT
  BodiesAreAllOrNothing
PROPERTIES
  ImplementsChannel
  UndamagedArrives
  DeadPeerNoticed
