CONSTANTS
  count = 4
  MaxMarks = 5
SPECIFICATION Spec
INVARIANTS TypeOK SweepIsThorough
PROPERTIES SecondChance
