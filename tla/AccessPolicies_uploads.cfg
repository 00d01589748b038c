\* The viewer's own workspace.
SPECIFICATION Spec
CONSTANTS
  RoleCodes <- MCRoleCodes
  AccessRows <- MCAccessRows
  Shapes <- MCShapes
  MaxRows = 2
  MaxFacts = 2
INVARIANT OwnWorkspaceTakesUploads
CHECK_DEADLOCK FALSE
