SPECIFICATION Spec
CONSTANTS
  Docs <- MCDocs
  Budget = 8
  Gap = 2
INVARIANT
  AllDelivered
CHECK_DEADLOCK FALSE
