\* Administrators rewrite permissions and rules under requests in flight; the command
\* is run again and again.
SPECIFICATION FairSpec
CONSTANTS
  admin = admin
  staff = staff
  w1 = w1
  w2 = w2
  edit = edit
  Users = {staff}
  Codes = {edit}
  Scopes <- TwoTiers
  Managers <- EveryoneManages
  Definitions0 <- JustDelegable
  DefinitionRows <- DisabledOrNot
  Rules0 <- BothRules
  RuleRows <- PatchedRules
  Workers = {w1}
  Expiries = {1}
  MaxTime = 1
  MaxGrants = 2
INVARIANTS ChainIntegrity 
PROPERTIES ImplementsLedger OverdueRetired
