\* Capacity 2, four positions (a slot is reused), two thieves racing the owner.
SPECIFICATION FairSpec
CONSTANTS
  w1 = w1
  w2 = w2
  Owner = owner
  Thieves = {w1, w2}
  Values = {a}
  Capacity = 2
  Nothing = Nothing
  MaxBottom = 4
INVARIANTS TypeOK Inv
PROPERTIES ImplementsDeque CallsReturn
