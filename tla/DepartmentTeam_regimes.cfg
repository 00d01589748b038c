\* Sequences of requests of three groups of endpoints.
SPECIFICATION Spec
CONSTANTS
  Users = {anna, boris, carol}
  SuperAdmins = {carol}
  Departments = {sales, design}
  Regimes <- MCRegimes
SYMMETRY Symmetry
INVARIANTS OneHead BundleWithHead LogMatches
CHECK_DEADLOCK FALSE
