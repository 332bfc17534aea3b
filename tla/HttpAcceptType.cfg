SPECIFICATION Spec
CONSTANTS
  Messages <- FewMessages
  Keys <- MCKeys
  Values <- MCValues
INVARIANT AcceptHonoured
CHECK_DEADLOCK FALSE
