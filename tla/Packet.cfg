SPECIFICATION Spec
CONSTANTS
  HeaderSize = 2
  Reserved = 3
  Widths = {3, 8, 13}
  Sizes = {1, 2}
  Steps = {5}
  MaxItems = 3
INVARIANTS TypeOK RoundTrip NearBuffer NeverStuck
CHECK_DEADLOCK FALSE
