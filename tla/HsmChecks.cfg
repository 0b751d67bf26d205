SPECIFICATION Spec
CONSTANTS
  Names <- MCNames
  Frames <- MCFrames
  Damage <- MCDamage
  MaxFlips = 2
CHECK_DEADLOCK FALSE
INVARIANTS
  RoundTrip
  AcceptedUnaltered
