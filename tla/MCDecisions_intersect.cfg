\* Patterns and texts up to four characters, chains up to three links or events, one day.
SPECIFICATION Spec
CONSTANTS
  MaxPattern = 4
  MaxText = 4
  MaxLinks = 3
  MaxEvents = 3
  MaxDay = 1
INVARIANT IntersectionHoldsIffBoth
CHECK_DEADLOCK FALSE
