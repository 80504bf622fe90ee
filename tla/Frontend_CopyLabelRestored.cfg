SPECIFICATION Spec
CONSTANTS
  MaxLints = 1
  MaxCopies = 2
  MaxClicks = 3
  Allowance = 1
INVARIANT CopyLabelRestored
