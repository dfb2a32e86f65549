SPECIFICATION Spec
CONSTANTS
  red = red
  blue = blue
  None = None
  Spools <- MCSpools
  First = red
  Units = 2
  MaxChanges = 2
  MaxCrashes = 0
  MaxCommands = 2
  MaxPrints = 3
  MaxResets = 1
  MaxStarts = 3
PROPERTY ALoadEndsTheHolding
CHECK_DEADLOCK FALSE
