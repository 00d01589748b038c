\* Long chains over three scopes, one request at a time, time standing still.
SPECIFICATION Spec
CONSTANTS
  admin = admin
  staff = staff
  w1 = w1
  w2 = w2
  edit = edit
  Users = {admin, staff}
  Codes = {edit}
  Scopes <- AllScopes
  Managers <- AdminManages
  Definitions0 <- JustDelegable
  DefinitionRows <- NoRows
  Rules0 <- BothRules
  RuleRows <- NoRows
  Workers = {w1}
  Expiries = {}
  MaxTime = 0
  MaxGrants = 3
INVARIANTS  DepthWithinRules
