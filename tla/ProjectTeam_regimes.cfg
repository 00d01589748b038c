\* Requests that write is_lead do not overlap; or no requests do.
SPECIFICATION Spec
CONSTANTS
  Users = {anna, boris}
  SuperAdmins = {}
  Workers = {w1, w2}
  Regimes <- MCRegimes
  MaxRows = 2
  MaxBundles = 2
SYMMETRY Symmetry
INVARIANTS OneLead BundleWithLead
PROPERTY DeposedWhole
CHECK_DEADLOCK FALSE
