\* Up to three rows at once, two of them access rows.
SPECIFICATION Spec
CONSTANTS
  RoleCodes <- MCRoleCodes
  AccessRows <- MCAccessRows
  Shapes <- MCShapes
  MaxRows = 2
  MaxFacts = 3
INVARIANTS ListedOpens FlagsHonoured  TaskIsolation PrivateContent
PROPERTY WithdrawalNeverRaises
CHECK_DEADLOCK FALSE
