SPECIFICATION Spec
CONSTANTS
  None = None
  Codes <- MCCodes
  PoTypes <- MCPoTypes
INVARIANTS TypeOK PostsClosedForm OwnEndpointIsUsed
CHECK_DEADLOCK FALSE
