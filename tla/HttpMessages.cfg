SPECIFICATION Spec
CONSTANTS
  Messages <- MCMessages
  Keys <- MCKeys
  Values <- MCValues
INVARIANTS ParsedAsWritten ServedBelowRoot ThrowsOnlyForArgs
CHECK_DEADLOCK FALSE
