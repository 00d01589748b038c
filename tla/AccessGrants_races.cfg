\* Two workers, the clock and the command on one project: every interleaving.
SPECIFICATION Spec
CONSTANTS
  admin = admin
  staff = staff
  w1 = w1
  w2 = w2
  edit = edit
  Users = {staff}
  Codes = {edit}
  Scopes <- OneProject
  Managers <- EveryoneManages
  Definitions0 <- JustDelegable
  DefinitionRows <- NoRows
  Rules0 <- NoRows
  RuleRows <- NoRows
  Workers = {w1, w2}
  Expiries = {1}
  MaxTime = 2
  MaxGrants = 3
SYMMETRY WorkerSymmetry
INVARIANTS TypeOK OnlyLateOrphans
