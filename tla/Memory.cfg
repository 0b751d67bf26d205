SPECIFICATION Spec
CONSTANTS
  Bits <- MCBits
  HashIdx <- MCHashIdx
  N = 3
  NotSealed = NotSealed
INVARIANTS
  TypeOK
  HashTracksWrites
  OneByteDetected
  AttestedImage
PROPERTIES
  LockFreezes
  AlarmsJustified
