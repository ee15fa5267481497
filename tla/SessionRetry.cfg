SPECIFICATION Spec
CONSTANTS
  MaxClicks = 2
  SEATS = 1
  FLIGHT_NUM = 2
INVARIANT RetryIsSafe
