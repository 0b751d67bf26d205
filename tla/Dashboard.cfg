SPECIFICATION Spec
CONSTANTS
  Scenes <- MCScenes
INVARIANTS
  TypeOK
  InRange
  ShownWasSent
  MisreadShowsZero
  Unbroken
CHECK_DEADLOCK FALSE
PROPERTY
  EveryReadMoves
  NeverFreezes
