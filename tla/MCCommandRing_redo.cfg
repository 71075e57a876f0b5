CONSTANTS
  RequestedCount = 8
  MaxPush = 10
SPECIFICATION Spec
PROPERTIES
  PushDeletesOnlyRedo
CHECK_DEADLOCK FALSE
