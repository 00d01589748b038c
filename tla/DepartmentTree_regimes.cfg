\* PATCHes do not overlap; or no requests do.
SPECIFICATION Spec
CONSTANTS
  Units = {sales, design, lab}
  Root = root
  Workers = {w1, w2}
  Regimes <- MCRegimes
SYMMETRY Symmetry
INVARIANTS Acyclic
 
CHECK_DEADLOCK FALSE
