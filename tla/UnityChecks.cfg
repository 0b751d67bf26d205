SPECIFICATION Spec
CONSTANTS
  Modulus <- MCModulus
  Word = 8
  Calls <- MCCalls
  MaxTests = 3
  ExitCodes = 3
CHECK_DEADLOCK FALSE
INVARIANTS
  TypeOK
  VerdictsExact
  TalliesExact
  NeverStrays
