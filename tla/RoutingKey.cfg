SPECIFICATION Spec
CONSTANTS
  KeyWords <- ShortAndLongWords
  MaxWords = 4
INVARIANTS
  RoutedIsMatched
CHECK_DEADLOCK FALSE
