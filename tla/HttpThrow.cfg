SPECIFICATION Spec
CONSTANTS
  Messages <- FewMessages
  Keys <- MCKeys
  Values <- MCValues
INVARIANT ResponseMade
CHECK_DEADLOCK FALSE
