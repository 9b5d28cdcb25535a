SPECIFICATION Spec
CONSTANTS
  KeyWords <- ShortAndLongWords
  MaxWords = 2
INVARIANTS
  HashMatchesZeroWords
CHECK_DEADLOCK FALSE
