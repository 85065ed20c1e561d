CONSTANTS
  j1 = j1
  j2 = j2
  e1 = e1
  e2 = e2
  Jobs = {j1, j2}
  Events = {e1}
  MonthDays = 2
  Advance = 1
  Retention = 2
  MaxDay = 4
SYMMETRY Symmetry
SPECIFICATION Spec
INVARIANT TypeOK
INVARIANT NothingLost
PROPERTY CurrentStays
PROPERTY KeptUntilNamedAge
