SPECIFICATION ScreensSpec
CONSTANTS
  NumOfMember = 2
  MaxResponse = 3
  MaxBlock = 5
INVARIANTS
  ScreensAreWhole
  DetailsBelong
