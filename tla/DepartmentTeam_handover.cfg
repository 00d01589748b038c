\* Sequences of requests of every endpoint.
SPECIFICATION Spec
CONSTANTS
  Users = {anna, boris, carol}
  SuperAdmins = {carol}
  Departments = {sales, design}
  Regimes <- MCDeployed
SYMMETRY Symmetry
PROPERTY HandoverRevokes
CHECK_DEADLOCK FALSE
