CONSTANTS
  Scopes <- TwoScopes
  DenyIds = {d1}
  GrantIds = {g1}
  AssignmentIds = {a1}
  Templates = {t1}
  Readers = {r1}
  Expiries <- StartOfTime
  MaxTime = 1
SPECIFICATION Spec
INVARIANTS SteadyDenyWins SteadySourceWins
